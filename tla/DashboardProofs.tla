---------------------------- MODULE DashboardProofs ---------------------------
(***************************************************************************)
(* The educator's reviews, from the click to the table: DeskAlwaysAgrees   *)
(* for every number of decisions, requests and reviews, and LogIsShown for *)
(* every number of decisions, reviews and loads of a page; the figures of  *)
(* the overview, OverviewAlwaysAgrees; and the upload of a file,           *)
(* UploadAlwaysKeepsRows, for all files, workers and commits.              *)
(*                                                                         *)
(* The desk.  What the repositories hold is said apart from the page       *)
(* (FeedbackInv): dates, a row per submission that is done, views that are *)
(* a window apart.  Above it every review has a submission of its own,     *)
(* what was answered before a review was chosen was stored before it, and  *)
(* a record that says "api" is of a decision with a review that is stored. *)
(*                                                                         *)
(* The log.  The ids in memory are written by every reader of the log.     *)
(* They never hold more than the log does as long as it can be kept, and a *)
(* log that has not been written yet is empty, so that migrating the log   *)
(* of the release before overwrites nothing.                               *)
(*                                                                         *)
(* The overview.  OverviewAlwaysAgrees follows from what its state may be: *)
(* which days have a key in the chart, whom the change beside a figure     *)
(* counts, and which filter hides a row without a chip.                    *)
(*                                                                         *)
(* The upload.  Its invariant has a part for each of what the steps hand   *)
(* on: the mapping, the rows checked under it, the posts made of the good  *)
(* ones, and what the control layer was sent of them, where requests of an *)
(* earlier commit, or that the page has given up on, may still be under    *)
(* way.                                                                    *)
(***************************************************************************)
EXTENDS ReviewDesk, ReviewLog, Overview, SignalUpload, FiniteSetTheorems, WellFoundedInduction, TLAPS

\* The rows of the tables, of the page and of its log.
RequestRows ==
  [kind : {"submit", "view"}, decision : Decisions, action : Actions \cup {"none"},
   at : Nat, stage : Stages, recent : BOOLEAN]
FeedbackRows == [request : Nat, decision : Decisions, action : Actions, at : Nat]
ViewRows == [decision : Decisions, at : Nat, put : Nat]
ReviewRows ==
  [request : Nat, decision : Decisions, action : Actions, page : {"waiting", "answered", "failed", "left"},
   undoable : BOOLEAN, undone : BOOLEAN, origin : Origins, after : SUBSET Nat]
LogRecords == {NoRecord} \cup [action : Actions, source : {"local", "api"}]

\* The types of the tables, and of the desk.
RowsTyped ==
  /\ store \in {"sqlite", "dynamodb"} /\ now \in Times
  /\ requests \in Seq(RequestRows) /\ feedback \in Seq(FeedbackRows) /\ viewLog \in Seq(ViewRows)

DeskTyped ==
  /\ reviews \in Seq(ReviewRows) /\ log \in [Decisions -> LogRecords]
  /\ known \in [Decisions -> Actions \cup {"none"}] /\ sheet \in Decisions \cup {0}

\* A request is dated when it arrives, and only a submission carries an action.
RequestsDated ==
  \A i \in DOMAIN requests : LET r == requests[i] IN
    /\ r.at <= now /\ (r.at = 0 <=> r.stage = "sent")
    /\ r.kind = "submit" => r.action \in Actions /\ r.stage # "looked"
    /\ r.stage = "looked" => store = "dynamodb"

\* The feedback stored is that of the submissions that are done, a row for each.
FeedbackIsOfRequests ==
  /\ \A i \in DOMAIN feedback : LET f == feedback[i] IN
       /\ f.request \in DOMAIN requests /\ requests[f.request].kind = "submit"
       /\ requests[f.request].stage = "done" /\ requests[f.request].decision = f.decision
       /\ requests[f.request].action = f.action /\ requests[f.request].at = f.at
  /\ \A i, j \in DOMAIN feedback : feedback[i].request = feedback[j].request => i = j
  /\ \A i \in DOMAIN requests : requests[i].kind = "submit" /\ requests[i].stage = "done" =>
       \E j \in DOMAIN feedback : feedback[j].request = i

\* A view that is about to be put found none within the window, but for those
\* that came into the table when it had been sent.
ViewsAreApart ==
  /\ \A j \in DOMAIN viewLog : viewLog[j].at \in 1..viewLog[j].put /\ viewLog[j].put <= now
  /\ \A i \in DOMAIN requests : requests[i].stage = "looked" /\ ~requests[i].recent =>
       \A j \in DOMAIN viewLog : viewLog[j].decision = requests[i].decision =>
         requests[i].at - viewLog[j].at >= Window \/ viewLog[j].put >= requests[i].at
  /\ OneViewPerWindow

\* Every review has a submission of its own, of its decision and its action.
ReviewsAreSent ==
  /\ \A k \in DOMAIN reviews : LET r == reviews[k] IN
       /\ r.request \in DOMAIN requests /\ requests[r.request].kind = "submit"
       /\ requests[r.request].decision = r.decision /\ requests[r.request].action = r.action
       /\ r.page = "answered" => requests[r.request].stage = "done"
  /\ \A k, l \in DOMAIN reviews : reviews[k].request = reviews[l].request => k = l

\* What was answered before a review was chosen was stored before it, and dated no later.
AnsweredFirst ==
  \A l \in DOMAIN reviews : \A k \in reviews[l].after :
    /\ k \in DOMAIN reviews /\ requests[reviews[k].request].stage = "done"
    /\ LET first == requests[reviews[k].request].at  second == requests[reviews[l].request].at IN
       second = 0 \/ first <= second
    /\ \A j \in DOMAIN feedback : feedback[j].request = reviews[l].request =>
         \E i \in DOMAIN feedback : i < j /\ feedback[i].request = reviews[k].request

\* A record of the log is that of a review; it is called saved once one of them is stored,
\* and it is there while the feedback is on its way.  A review whose record is gone was
\* undone or failed.
LogIsOf(d) ==
  /\ known[d] # "none" => FeedbackOf(d) # {}
  /\ log[d] # NoRecord =>
       /\ FeedbackOf(d) # {} \/ \E k \in Of(d) : reviews[k].page \in {"waiting", "left"}
       /\ \E k \in Of(d) : reviews[k].action = log[d].action
  /\ log[d].source = "api" => \E k \in Of(d) : requests[reviews[k].request].stage = "done"
  /\ log[d] = NoRecord /\ Of(d) # {} => \E k \in Of(d) : reviews[k].undone \/ reviews[k].page = "failed"
LogIsOfReviews == \A d \in Decisions : LogIsOf(d)

\* The sheet shows a decision that has no record.
SheetIsOpen == sheet # 0 => log[sheet] = NoRecord

\* The invariant of the two repositories, and the one of the desk above them.
FeedbackInv == RowsTyped /\ RequestsDated /\ FeedbackIsOfRequests /\ ViewsAreApart
DeskInv ==
  /\ FeedbackInv /\ DeskTyped /\ ReviewsAreSent /\ AnsweredFirst
  /\ LogIsOfReviews /\ SecondReviewHasCause /\ SheetIsOpen
--------------------------------------------------------------------------------
\* Natural numbers of a set that is not empty have a smallest one among them.
LEMMA Smallest == \A T \in SUBSET Nat : T # {} => \E m \in T : \A n \in T : m <= n
<1> SUFFICES ASSUME NEW T \in SUBSET Nat, T # {} PROVE \E m \in T : \A n \in T : m <= n
  OBVIOUS
<1> DEFINE less == OpToRel(<, Nat)
<1>1. \A m \in Nat, n \in Nat : (<<m, n>> \in less) <=> (m < n)
  BY DEF OpToRel
<1>2. IsWellFoundedOn(less, Nat)
  BY NatLessThanWellFounded
<1> HIDE DEF less
<1>3. PICK m \in T : \A n \in T : ~(<<n, m>> \in less)
  BY <1>2, WFMin
<1>4. \A n \in T : m <= n
  <2> SUFFICES ASSUME NEW n \in T PROVE m <= n
    OBVIOUS
  <2>1. m \in Nat /\ n \in Nat
    OBVIOUS
  <2>2. ~(n < m)
    BY <1>1, <1>3, <2>1
  <2> QED
    BY <2>1, <2>2
<1> QED
  BY <1>4

\* What was appended is last, and the rest stays.
LEMMA Appended ==
    ASSUME NEW S, NEW A \in Seq(S), NEW t \in S
    PROVE  /\ Append(A, t) \in Seq(S) /\ Len(A) \in Nat /\ DOMAIN A = 1..Len(A)
           /\ DOMAIN Append(A, t) = 1..(Len(A) + 1) /\ Len(Append(A, t)) = Len(A) + 1
           /\ \A k \in DOMAIN A : Append(A, t)[k] = A[k]
           /\ Append(A, t)[Len(A) + 1] = t
  OBVIOUS

\* A row that is written anew leaves the others alone.
LEMMA Rewritten ==
    ASSUME NEW S, NEW A \in Seq(S), NEW i \in DOMAIN A, NEW r \in S
    PROVE  LET B == [A EXCEPT ![i] = r] IN
           /\ B \in Seq(S) /\ DOMAIN B = DOMAIN A /\ B[i] = r
           /\ \A j \in DOMAIN A : j # i => B[j] = A[j]
  OBVIOUS

--------------------------------------------------------------------------------
\* How the tables may change in one step: nothing stored is touched, requests go on.
Going ==
  /\ requests' \in Seq(RequestRows) /\ feedback' \in Seq(FeedbackRows)
  /\ DOMAIN requests \subseteq DOMAIN requests' /\ DOMAIN feedback \subseteq DOMAIN feedback'
  /\ \A i \in DOMAIN requests : LET r == requests[i]  q == requests'[i] IN
       /\ q.kind = r.kind /\ q.decision = r.decision /\ q.action = r.action
       /\ r.stage = "done" => q.stage = "done"
       /\ q.at = r.at \/ (r.stage = "sent" /\ q.at = now)
  /\ \A i \in DOMAIN feedback : feedback'[i] = feedback[i]
  /\ \A i \in DOMAIN feedback, j \in DOMAIN feedback' :
       j \notin DOMAIN feedback => i < j
  /\ \A j \in DOMAIN feedback' : j \notin DOMAIN feedback => feedback'[j].request \in DOMAIN requests

\* A request that goes on to another stage, as its row says.
LEMMA Moving ==
    ASSUME RowsTyped, NEW i \in DOMAIN requests, NEW r \in RequestRows,
           requests' = [requests EXCEPT ![i] = r]
    PROVE  /\ requests' \in Seq(RequestRows) /\ DOMAIN requests' = DOMAIN requests
           /\ requests'[i] = r
           /\ \A j \in DOMAIN requests : j # i => requests'[j] = requests[j]
  BY Rewritten DEF RowsTyped

\* A request arrives, at the time of the clock.
LEMMA ArriveKeeps ==
    ASSUME FeedbackInv, NEW i \in DOMAIN requests, Arrive(i)
    PROVE  FeedbackInv' /\ Going
<1> DEFINE r == [requests[i] EXCEPT !.stage = "arrived", !.at = now]
<1>1. requests[i] \in RequestRows /\ now \in Nat /\ now > 0
  BY FeedbackAssumption DEF FeedbackInv, RowsTyped, Times
<1>2. /\ r \in RequestRows /\ r.stage = "arrived" /\ r.at = now
      /\ r.kind = requests[i].kind /\ r.decision = requests[i].decision /\ r.action = requests[i].action
      /\ r.recent = requests[i].recent
  BY <1>1 DEF RequestRows, Stages
<1>3. requests' = [requests EXCEPT ![i] = r] /\ UNCHANGED <<store, now, feedback, viewLog>>
  BY DEF Arrive
<1> HIDE DEF r
<1>4. /\ requests' \in Seq(RequestRows) /\ DOMAIN requests' = DOMAIN requests
      /\ requests'[i] = r
      /\ \A j \in DOMAIN requests : j # i => requests'[j] = requests[j]
  BY <1>2, <1>3, Moving DEF FeedbackInv
<1>5. requests[i].stage = "sent"
  BY DEF Arrive
<1>6. RowsTyped'
  BY <1>3, <1>4 DEF FeedbackInv, RowsTyped
<1>7. RequestsDated'
  BY <1>1, <1>2, <1>3, <1>4 DEF FeedbackInv, RequestsDated
<1>8. FeedbackIsOfRequests'
  BY <1>2, <1>3, <1>4, <1>5 DEF FeedbackInv, FeedbackIsOfRequests
<1>9. ViewsAreApart'
  BY <1>2, <1>3, <1>4 DEF FeedbackInv, ViewsAreApart, OneViewPerWindow
<1>10. Going
  BY <1>2, <1>3, <1>4, <1>5 DEF Going, FeedbackInv, RowsTyped
<1> QED
  BY <1>6, <1>7, <1>8, <1>9, <1>10 DEF FeedbackInv

\* Feedback is stored with what its request asked for.
LEMMA SaveFeedbackKeeps ==
    ASSUME FeedbackInv, NEW i \in DOMAIN requests, SaveFeedback(i)
    PROVE  FeedbackInv' /\ Going
<1> DEFINE r == [requests[i] EXCEPT !.stage = "done"]
           f == [request |-> i, decision |-> requests[i].decision,
                 action |-> requests[i].action, at |-> requests[i].at]
<1>1. requests[i] \in RequestRows /\ i \in Nat
  BY DEF FeedbackInv, RowsTyped
<1>2. requests[i].stage = "arrived" /\ requests[i].kind = "submit" /\ requests[i].action \in Actions
  BY DEF SaveFeedback, FeedbackInv, RequestsDated
<1>3. /\ r \in RequestRows /\ r.stage = "done" /\ r.at = requests[i].at
      /\ r.kind = requests[i].kind /\ r.decision = requests[i].decision /\ r.action = requests[i].action
      /\ r.recent = requests[i].recent
  BY <1>1 DEF RequestRows, Stages
<1>4. /\ f \in FeedbackRows /\ f.request = i /\ f.decision = requests[i].decision
      /\ f.action = requests[i].action /\ f.at = requests[i].at
  BY <1>1, <1>2 DEF RequestRows, FeedbackRows
<1>5. /\ requests' = [requests EXCEPT ![i] = r] /\ feedback' = Append(feedback, f)
      /\ UNCHANGED <<store, now, viewLog>>
  BY DEF SaveFeedback
<1> HIDE DEF r, f
<1>6. /\ requests' \in Seq(RequestRows) /\ DOMAIN requests' = DOMAIN requests
      /\ requests'[i] = r
      /\ \A j \in DOMAIN requests : j # i => requests'[j] = requests[j]
  BY <1>3, <1>5, Moving DEF FeedbackInv
<1> DEFINE n == Len(feedback)
<1>7. /\ feedback' \in Seq(FeedbackRows) /\ n \in Nat /\ DOMAIN feedback = 1..n
      /\ DOMAIN feedback' = 1..(n + 1) /\ \A k \in DOMAIN feedback : feedback'[k] = feedback[k]
      /\ feedback'[n + 1] = f
  BY <1>4, <1>5, Appended DEF FeedbackInv, RowsTyped
<1> HIDE DEF n
<1>8. RowsTyped'
  BY <1>5, <1>6, <1>7 DEF FeedbackInv, RowsTyped
<1>9. RequestsDated'
  BY <1>2, <1>3, <1>5, <1>6 DEF FeedbackInv, RequestsDated
<1>10. FeedbackIsOfRequests'
  <2>1. \A k \in DOMAIN feedback : feedback[k].request # i
    BY <1>2 DEF FeedbackInv, FeedbackIsOfRequests
  <2>2. \A k \in DOMAIN feedback' : k \in DOMAIN feedback \/ k = n + 1
    BY <1>7
  <2>3. n + 1 \in DOMAIN feedback' /\ \A k \in DOMAIN feedback : k \in DOMAIN feedback'
    BY <1>7
  <2>4. ASSUME NEW k \in DOMAIN feedback'
        PROVE  LET g == feedback'[k] IN
               /\ g.request \in DOMAIN requests' /\ requests'[g.request].kind = "submit"
               /\ requests'[g.request].stage = "done" /\ requests'[g.request].decision = g.decision
               /\ requests'[g.request].action = g.action /\ requests'[g.request].at = g.at
    <3>1. CASE k \in DOMAIN feedback
      BY <1>6, <1>7, <2>1, <3>1 DEF FeedbackInv, FeedbackIsOfRequests
    <3>2. CASE k = n + 1
      BY <1>2, <1>3, <1>4, <1>6, <1>7, <3>2
    <3> QED
      BY <2>2, <3>1, <3>2
  <2>5. ASSUME NEW k \in DOMAIN feedback', NEW l \in DOMAIN feedback', feedback'[k].request = feedback'[l].request
        PROVE  k = l
    BY <1>4, <1>7, <2>1, <2>2, <2>5 DEF FeedbackInv, FeedbackIsOfRequests
  <2>6. ASSUME NEW k \in DOMAIN requests', requests'[k].kind = "submit", requests'[k].stage = "done"
        PROVE  \E j \in DOMAIN feedback' : feedback'[j].request = k
    <3>1. CASE k = i
      BY <1>4, <1>7, <2>3, <3>1
    <3>2. CASE k # i
      <4>1. PICK j \in DOMAIN feedback : feedback[j].request = k
        BY <1>6, <2>6, <3>2 DEF FeedbackInv, FeedbackIsOfRequests
      <4> QED
        BY <1>7, <2>3, <4>1
    <3> QED
      BY <3>1, <3>2
  <2> QED
    BY <2>4, <2>5, <2>6 DEF FeedbackIsOfRequests
<1>11. ViewsAreApart'
  BY <1>3, <1>5, <1>6 DEF FeedbackInv, ViewsAreApart, OneViewPerWindow
<1>12. Going
  BY <1>2, <1>3, <1>4, <1>5, <1>6, <1>7 DEF Going
<1> QED
  BY <1>8, <1>9, <1>10, <1>11, <1>12 DEF FeedbackInv

\* What is found of the views seen: none of them is within the window.
LEMMA NoneWithin ==
    ASSUME RowsTyped, ViewsAreApart, NEW seen \in SUBSET DOMAIN viewLog, NEW r \in RequestRows,
           ~WithinWindow(seen, r)
    PROVE  \A j \in seen : viewLog[j].decision = r.decision => r.at - viewLog[j].at >= Window
<1> DEFINE same == {i \in seen : viewLog[i].decision = r.decision}
           behind == {now - viewLog[i].at : i \in same}
<1>1. \A i \in DOMAIN viewLog : viewLog[i].at \in Nat /\ now - viewLog[i].at \in Nat
  <2> SUFFICES ASSUME NEW i \in DOMAIN viewLog
               PROVE  viewLog[i].at \in Nat /\ now - viewLog[i].at \in Nat
    OBVIOUS
  <2>1. viewLog[i] \in ViewRows /\ now \in Nat
    BY FeedbackAssumption DEF RowsTyped, Times
  <2>2. viewLog[i].at \in Nat /\ viewLog[i].put \in Nat
    BY <2>1 DEF ViewRows
  <2>3. viewLog[i].at <= viewLog[i].put /\ viewLog[i].put <= now
    BY <2>2 DEF ViewsAreApart
  <2> QED
    BY <2>1, <2>2, <2>3
<1>2. now \in Nat /\ r.at \in Nat /\ Window \in Nat
  BY FeedbackAssumption DEF RowsTyped, Times, RequestRows
<1>3. CASE same = {}
  BY <1>3
<1>4. CASE same # {}
  <2>1. behind \in SUBSET Nat /\ behind # {}
    BY <1>1, <1>4
  <2>2. PICK m \in behind : \A n \in behind : m <= n
    BY <2>1, Smallest
  <2>3. PICK i \in same : m = now - viewLog[i].at
    BY <2>2
  <2>4. \A j \in same : viewLog[j].at <= viewLog[i].at
    <3> SUFFICES ASSUME NEW j \in same PROVE viewLog[j].at <= viewLog[i].at
      OBVIOUS
    <3>1. m <= now - viewLog[j].at
      BY <2>2
    <3> QED
      BY <1>1, <1>2, <2>3, <3>1
  <2>5. ~(r.at - viewLog[i].at < Window)
    BY <2>4 DEF WithinWindow
  <2> QED
    BY <1>1, <1>2, <2>4, <2>5
<1> QED
  BY <1>3, <1>4

\* A view that found none within the window, of those put before it was sent, is put.
LEMMA PuttingKeeps ==
    ASSUME RowsTyped, RequestsDated, ViewsAreApart, NEW r \in RequestRows, r.at \in 1..now,
           \A j \in DOMAIN viewLog : viewLog[j].decision = r.decision =>
              \/ r.at - viewLog[j].at >= Window
              \/ store = "dynamodb" /\ viewLog[j].put >= r.at,
           requests' \in Seq(RequestRows), DOMAIN requests' = DOMAIN requests,
           \A i \in DOMAIN requests : requests'[i].stage = "looked" => requests'[i] = requests[i],
           UNCHANGED <<store, now>>, PutView(r)
    PROVE  ViewsAreApart' /\ viewLog' \in Seq(ViewRows)
<1> DEFINE v == [decision |-> r.decision, at |-> r.at, put |-> now]
           n == Len(viewLog)
<1>1. now \in Nat /\ r.at \in Nat /\ Window \in Nat
  BY FeedbackAssumption DEF RowsTyped, Times
<1>2. v \in ViewRows /\ v.decision = r.decision /\ v.at = r.at /\ v.put = now
  BY <1>1 DEF ViewRows, RequestRows
<1>3. viewLog' = Append(viewLog, v)
  BY DEF PutView
<1> HIDE DEF v
<1>4. /\ viewLog' \in Seq(ViewRows) /\ n \in Nat /\ DOMAIN viewLog = 1..n
      /\ DOMAIN viewLog' = 1..(n + 1) /\ \A k \in DOMAIN viewLog : viewLog'[k] = viewLog[k]
      /\ viewLog'[n + 1] = v
  BY <1>2, <1>3, Appended DEF RowsTyped
<1> HIDE DEF n
<1>5. \A k \in DOMAIN viewLog' : k \in DOMAIN viewLog \/ k = n + 1
  BY <1>4
<1>6. \A k \in DOMAIN viewLog : /\ viewLog[k].at \in Nat /\ viewLog[k].put \in Nat
                                /\ viewLog[k].at \in 1..viewLog[k].put /\ viewLog[k].put <= now
  <2> SUFFICES ASSUME NEW k \in DOMAIN viewLog
               PROVE  /\ viewLog[k].at \in Nat /\ viewLog[k].put \in Nat
                      /\ viewLog[k].at \in 1..viewLog[k].put /\ viewLog[k].put <= now
    OBVIOUS
  <2>1. viewLog[k] \in ViewRows
    BY DEF RowsTyped
  <2> QED
    BY <2>1 DEF ViewRows, ViewsAreApart
<1>7. \A j \in DOMAIN viewLog' : viewLog'[j].at \in 1..viewLog'[j].put /\ viewLog'[j].put <= now'
  BY <1>1, <1>2, <1>4, <1>5, <1>6
<1>8. ASSUME NEW i \in DOMAIN requests', requests'[i].stage = "looked", ~requests'[i].recent,
             NEW j \in DOMAIN viewLog', viewLog'[j].decision = requests'[i].decision
      PROVE  requests'[i].at - viewLog'[j].at >= Window \/ viewLog'[j].put >= requests'[i].at
  <2>1. requests'[i] = requests[i] /\ requests[i].at <= now
    BY <1>8 DEF RequestsDated
  <2>2. CASE j \in DOMAIN viewLog
    BY <1>4, <1>8, <2>1, <2>2 DEF ViewsAreApart
  <2>3. CASE j = n + 1
    BY <1>2, <1>4, <2>1, <2>3
  <2> QED
    BY <1>5, <2>2, <2>3
<1>9. ASSUME NEW i \in DOMAIN viewLog', NEW j \in DOMAIN viewLog', i # j,
             viewLog'[i].decision = viewLog'[j].decision,
             viewLog'[i].at <= viewLog'[j].at, viewLog'[j].at - viewLog'[i].at < Window
      PROVE  store' = "dynamodb" /\ viewLog'[j].at <= viewLog'[i].put
  <2>1. CASE i \in DOMAIN viewLog /\ j \in DOMAIN viewLog
    BY <1>4, <1>9, <2>1 DEF ViewsAreApart, OneViewPerWindow
  <2>2. CASE i \in DOMAIN viewLog /\ j = n + 1
    <3>1. viewLog[i].decision = r.decision /\ r.at - viewLog[i].at < Window
      BY <1>2, <1>4, <1>9, <2>2
    <3>2. ~(r.at - viewLog[i].at >= Window)
      BY <1>1, <1>6, <2>2, <3>1
    <3>3. store = "dynamodb" /\ viewLog[i].put >= r.at
      BY <2>2, <3>1, <3>2
    <3> QED
      BY <1>2, <1>4, <2>2, <3>3
  <2>3. CASE i = n + 1 /\ j \in DOMAIN viewLog
    <3>1. viewLog[j].decision = r.decision /\ r.at <= viewLog[j].at /\ viewLog[j].at - r.at < Window
      BY <1>2, <1>4, <1>9, <2>3
    <3>2. ~(r.at - viewLog[j].at >= Window)
      BY <1>1, <1>6, <2>3, <3>1
    <3>3. store = "dynamodb"
      BY <2>3, <3>1, <3>2
    <3> QED
      BY <1>1, <1>2, <1>4, <1>6, <2>3, <3>3
  <2> QED
    BY <1>5, <1>9, <2>1, <2>2, <2>3
<1> QED
  BY <1>4, <1>7, <1>8, <1>9 DEF ViewsAreApart, OneViewPerWindow

\* A request that only goes on leaves what was stored as it is.
LEMMA GoesOn ==
    ASSUME FeedbackInv, NEW i \in DOMAIN requests, NEW r \in RequestRows,
           r.kind = requests[i].kind, r.decision = requests[i].decision, r.action = requests[i].action,
           r.at = requests[i].at, requests[i].stage \in {"arrived", "looked"}, r.stage \in {"looked", "done"},
           r.kind = "view", r.stage = "looked" => store = "dynamodb",
           requests' = [requests EXCEPT ![i] = r], UNCHANGED <<store, now, feedback>>
    PROVE  /\ RequestsDated' /\ FeedbackIsOfRequests' /\ Going
           /\ requests' \in Seq(RequestRows) /\ DOMAIN requests' = DOMAIN requests /\ requests'[i] = r
           /\ \A j \in DOMAIN requests : j # i => requests'[j] = requests[j]
<1>1. /\ requests' \in Seq(RequestRows) /\ DOMAIN requests' = DOMAIN requests
      /\ requests'[i] = r
      /\ \A j \in DOMAIN requests : j # i => requests'[j] = requests[j]
  BY Moving DEF FeedbackInv
<1>2. RequestsDated'
  BY <1>1 DEF FeedbackInv, RequestsDated
<1>3. FeedbackIsOfRequests'
  BY <1>1 DEF FeedbackInv, FeedbackIsOfRequests
<1>4. Going
  BY <1>1 DEF Going, FeedbackInv, RowsTyped
<1> QED
  BY <1>1, <1>2, <1>3, <1>4

\* A view on SQLite is looked for and put in one step.
LEMMA RecordViewKeeps ==
    ASSUME FeedbackInv, NEW i \in DOMAIN requests, RecordView(i)
    PROVE  FeedbackInv' /\ Going
<1> DEFINE r == [requests[i] EXCEPT !.stage = "done"]
<1>1. requests[i] \in RequestRows /\ requests[i].at \in 1..now
  <2>1. requests[i] \in RequestRows /\ requests[i].stage = "arrived"
    BY DEF FeedbackInv, RowsTyped, RecordView
  <2>2. requests[i].at \in Nat /\ requests[i].at <= now /\ requests[i].at # 0 /\ now \in Nat
    BY <2>1, FeedbackAssumption DEF FeedbackInv, RequestsDated, RequestRows, RowsTyped, Times
  <2> QED
    BY <2>1, <2>2
<1>2. /\ r \in RequestRows /\ r.stage = "done" /\ r.at = requests[i].at
      /\ r.kind = requests[i].kind /\ r.decision = requests[i].decision /\ r.action = requests[i].action
  BY <1>1 DEF RequestRows, Stages
<1>3. /\ store = "sqlite" /\ requests[i].stage = "arrived" /\ requests[i].kind = "view"
      /\ requests' = [requests EXCEPT ![i] = r] /\ UNCHANGED <<store, now, feedback>>
  BY DEF RecordView
<1> HIDE DEF r
<1>4. /\ RequestsDated' /\ FeedbackIsOfRequests' /\ Going
      /\ requests' \in Seq(RequestRows) /\ DOMAIN requests' = DOMAIN requests /\ requests'[i] = r
      /\ \A j \in DOMAIN requests : j # i => requests'[j] = requests[j]
  BY <1>2, <1>3, GoesOn
<1>5. \A j \in DOMAIN requests : requests'[j].stage = "looked" => requests'[j] = requests[j]
  BY <1>2, <1>4
<1>6. CASE WithinWindow(DOMAIN viewLog, requests[i])
  <2>1. viewLog' = viewLog
    BY <1>6 DEF RecordView
  <2>2. ViewsAreApart'
    BY <1>3, <1>4, <1>5, <2>1 DEF FeedbackInv, ViewsAreApart, OneViewPerWindow
  <2>3. RowsTyped'
    BY <1>3, <1>4, <2>1 DEF FeedbackInv, RowsTyped
  <2> QED
    BY <1>4, <2>2, <2>3 DEF FeedbackInv
<1>7. CASE ~WithinWindow(DOMAIN viewLog, requests[i])
  <2>1. PutView(requests[i])
    BY <1>7 DEF RecordView
  <2>2. \A j \in DOMAIN viewLog : viewLog[j].decision = requests[i].decision =>
          requests[i].at - viewLog[j].at >= Window
    BY <1>1, <1>7, NoneWithin DEF FeedbackInv
  <2>3. ViewsAreApart' /\ viewLog' \in Seq(ViewRows)
    BY <1>1, <1>3, <1>4, <1>5, <2>1, <2>2, PuttingKeeps DEF FeedbackInv
  <2>4. RowsTyped'
    BY <1>3, <1>4, <2>3 DEF FeedbackInv, RowsTyped
  <2> QED
    BY <1>4, <2>3, <2>4 DEF FeedbackInv
<1> QED
  BY <1>6, <1>7

\* On DynamoDB it is looked for among what the query sees.
LEMMA LookForViewKeeps ==
    ASSUME FeedbackInv, NEW i \in DOMAIN requests, LookForView(i)
    PROVE  FeedbackInv' /\ Going
<1>1. PICK missed \in SUBSET {j \in DOMAIN viewLog : viewLog[j].put = now} :
        requests' = [requests EXCEPT ![i].stage = "looked",
                       ![i].recent = WithinWindow(DOMAIN viewLog \ missed, requests[i])]
  BY DEF LookForView
<1> DEFINE b == WithinWindow(DOMAIN viewLog \ missed, requests[i])
           r == [requests[i] EXCEPT !.stage = "looked", !.recent = b]
<1>2. requests[i] \in RequestRows /\ b \in BOOLEAN
  BY DEF FeedbackInv, RowsTyped, WithinWindow
<1>3. /\ r \in RequestRows /\ r.stage = "looked" /\ r.at = requests[i].at /\ r.recent = b
      /\ r.kind = requests[i].kind /\ r.decision = requests[i].decision /\ r.action = requests[i].action
  <2> HIDE DEF b
  <2> QED
    BY <1>2 DEF RequestRows, Stages
<1>4. /\ store = "dynamodb" /\ requests[i].stage = "arrived" /\ requests[i].kind = "view"
      /\ requests' = [requests EXCEPT ![i] = r] /\ UNCHANGED <<store, now, feedback, viewLog>>
  BY <1>1 DEF LookForView
<1>5. ~b => \A j \in DOMAIN viewLog \ missed :
        viewLog[j].decision = requests[i].decision => requests[i].at - viewLog[j].at >= Window
  BY <1>2, NoneWithin DEF FeedbackInv
<1> HIDE DEF r, b
<1>6. /\ RequestsDated' /\ FeedbackIsOfRequests' /\ Going
      /\ requests' \in Seq(RequestRows) /\ DOMAIN requests' = DOMAIN requests /\ requests'[i] = r
      /\ \A j \in DOMAIN requests : j # i => requests'[j] = requests[j]
  BY <1>3, <1>4, GoesOn
<1>7. ASSUME NEW k \in DOMAIN requests', requests'[k].stage = "looked", ~requests'[k].recent,
             NEW j \in DOMAIN viewLog, viewLog[j].decision = requests'[k].decision
      PROVE  requests'[k].at - viewLog[j].at >= Window \/ viewLog[j].put >= requests'[k].at
  <2>1. CASE k # i
    BY <1>6, <1>7, <2>1 DEF FeedbackInv, ViewsAreApart
  <2>2. CASE k = i /\ j \notin missed
    BY <1>3, <1>5, <1>6, <1>7, <2>2
  <2>3. CASE k = i /\ j \in missed
    <3>1. viewLog[j].put = now /\ requests[i].at <= now
      BY <2>3 DEF FeedbackInv, RequestsDated
    <3>2. requests[i].at \in Nat /\ now \in Nat
      BY <1>2, FeedbackAssumption DEF RequestRows, FeedbackInv, RowsTyped, Times
    <3> QED
      BY <1>3, <1>6, <2>3, <3>1, <3>2
  <2> QED
    BY <2>1, <2>2, <2>3
<1>8. ViewsAreApart'
  BY <1>4, <1>7 DEF FeedbackInv, ViewsAreApart, OneViewPerWindow
<1>9. RowsTyped'
  BY <1>4, <1>6 DEF FeedbackInv, RowsTyped
<1> QED
  BY <1>6, <1>8, <1>9 DEF FeedbackInv

\* And put, unless it was found.
LEMMA FinishViewKeeps ==
    ASSUME FeedbackInv, NEW i \in DOMAIN requests, FinishView(i)
    PROVE  FeedbackInv' /\ Going
<1> DEFINE r == [requests[i] EXCEPT !.stage = "done"]
<1>1. requests[i] \in RequestRows /\ requests[i].at \in 1..now /\ requests[i].kind = "view"
  <2>1. requests[i] \in RequestRows /\ requests[i].stage = "looked"
    BY DEF FeedbackInv, RowsTyped, FinishView
  <2>2. requests[i].at \in Nat /\ requests[i].at <= now /\ requests[i].at # 0 /\ now \in Nat
    BY <2>1, FeedbackAssumption DEF FeedbackInv, RequestsDated, RequestRows, RowsTyped, Times
  <2>3. requests[i].kind # "submit"
    BY <2>1 DEF FeedbackInv, RequestsDated
  <2> QED
    BY <2>1, <2>2, <2>3 DEF RequestRows
<1>2. /\ r \in RequestRows /\ r.stage = "done" /\ r.at = requests[i].at
      /\ r.kind = requests[i].kind /\ r.decision = requests[i].decision /\ r.action = requests[i].action
  BY <1>1 DEF RequestRows, Stages
<1>3. /\ requests[i].stage = "looked" /\ store = "dynamodb"
      /\ requests' = [requests EXCEPT ![i] = r] /\ UNCHANGED <<store, now, feedback>>
  BY DEF FinishView, FeedbackInv, RequestsDated
<1> HIDE DEF r
<1>4. /\ RequestsDated' /\ FeedbackIsOfRequests' /\ Going
      /\ requests' \in Seq(RequestRows) /\ DOMAIN requests' = DOMAIN requests /\ requests'[i] = r
      /\ \A j \in DOMAIN requests : j # i => requests'[j] = requests[j]
  BY <1>1, <1>2, <1>3, GoesOn
<1>5. \A j \in DOMAIN requests : requests'[j].stage = "looked" => requests'[j] = requests[j]
  BY <1>2, <1>4
<1>6. CASE requests[i].recent
  <2>1. viewLog' = viewLog
    BY <1>6 DEF FinishView
  <2>2. ViewsAreApart'
    BY <1>3, <1>4, <1>5, <2>1 DEF FeedbackInv, ViewsAreApart, OneViewPerWindow
  <2>3. RowsTyped'
    BY <1>3, <1>4, <2>1 DEF FeedbackInv, RowsTyped
  <2> QED
    BY <1>4, <2>2, <2>3 DEF FeedbackInv
<1>7. CASE ~requests[i].recent
  <2>1. PutView(requests[i])
    BY <1>7 DEF FinishView
  <2>2. \A j \in DOMAIN viewLog : viewLog[j].decision = requests[i].decision =>
          requests[i].at - viewLog[j].at >= Window \/ viewLog[j].put >= requests[i].at
    BY <1>3, <1>7 DEF FeedbackInv, ViewsAreApart
  <2>3. ViewsAreApart' /\ viewLog' \in Seq(ViewRows)
    BY <1>1, <1>3, <1>4, <1>5, <2>1, <2>2, PuttingKeeps DEF FeedbackInv
  <2>4. RowsTyped'
    BY <1>3, <1>4, <2>3 DEF FeedbackInv, RowsTyped
  <2> QED
    BY <1>4, <2>3, <2>4 DEF FeedbackInv
<1> QED
  BY <1>6, <1>7

\* The clock moves.
LEMMA TickKeeps ==
    ASSUME FeedbackInv, Tick
    PROVE  FeedbackInv' /\ Going
<1>1. /\ now \in Nat /\ now' = now + 1 /\ now' \in Times
      /\ UNCHANGED <<store, requests, feedback, viewLog>>
  BY FeedbackAssumption DEF FeedbackInv, RowsTyped, Times, Tick
<1>2. RowsTyped' /\ FeedbackIsOfRequests' /\ Going
  BY <1>1 DEF FeedbackInv, RowsTyped, FeedbackIsOfRequests, Going
<1>3. \A i \in DOMAIN requests : requests[i].at \in Nat /\ requests[i].at <= now
  <2>1. \A i \in DOMAIN requests : requests[i] \in RequestRows
    BY DEF FeedbackInv, RowsTyped
  <2> QED
    BY <2>1 DEF FeedbackInv, RequestRows, RequestsDated
<1>4. RequestsDated'
  BY <1>1, <1>3 DEF FeedbackInv, RequestsDated
<1>5. \A j \in DOMAIN viewLog : viewLog[j].put \in Nat /\ viewLog[j].put <= now
  <2>1. \A j \in DOMAIN viewLog : viewLog[j] \in ViewRows
    BY DEF FeedbackInv, RowsTyped
  <2> QED
    BY <2>1 DEF FeedbackInv, ViewRows, ViewsAreApart
<1>6. ViewsAreApart'
  BY <1>1, <1>5 DEF FeedbackInv, ViewsAreApart, OneViewPerWindow
<1> QED
  BY <1>2, <1>4, <1>6 DEF FeedbackInv

\* Requests are sent behind the others, none of which is touched.
Sent ==
  /\ requests' \in Seq(RequestRows) /\ DOMAIN requests \subseteq DOMAIN requests'
  /\ \A i \in DOMAIN requests : requests'[i] = requests[i]
  /\ \A i \in DOMAIN requests' : i \notin DOMAIN requests =>
       /\ requests'[i].stage = "sent" /\ requests'[i].at = 0
       /\ requests'[i].kind = "submit" => requests'[i].action \in Actions

\* Sending requests disturbs nothing of the tables.
LEMMA SendingKeeps ==
    ASSUME FeedbackInv, Sent, UNCHANGED <<store, now, feedback, viewLog>>
    PROVE  FeedbackInv' /\ Going
<1>1. RowsTyped' /\ Going
  BY DEF FeedbackInv, RowsTyped, Going, Sent
<1>2. now \in Nat
  BY FeedbackAssumption DEF FeedbackInv, RowsTyped, Times
<1>3. RequestsDated'
  BY <1>2 DEF FeedbackInv, RequestsDated, Sent
<1>4. FeedbackIsOfRequests'
  BY DEF FeedbackInv, FeedbackIsOfRequests, Sent
<1>5. ViewsAreApart'
  BY DEF FeedbackInv, ViewsAreApart, OneViewPerWindow, Sent
<1> QED
  BY <1>1, <1>3, <1>4, <1>5 DEF FeedbackInv

\* Whatever the repositories do keeps the tables sound.
LEMMA FeedbackNextKeeps ==
    ASSUME FeedbackInv, FeedbackNext
    PROVE  FeedbackInv' /\ Going
<1>1. CASE Tick
  BY <1>1, TickKeeps
<1>2. ASSUME NEW i \in DOMAIN requests,
             Arrive(i) \/ SaveFeedback(i) \/ RecordView(i) \/ LookForView(i) \/ FinishView(i)
      PROVE  FeedbackInv' /\ Going
  BY <1>2, ArriveKeeps, SaveFeedbackKeeps, RecordViewKeeps, LookForViewKeeps, FinishViewKeeps
<1> QED
  BY <1>1, <1>2 DEF FeedbackNext

--------------------------------------------------------------------------------
\* How the reviews may change without a new one: what is known of them grows.
Marked ==
  /\ reviews' \in Seq(ReviewRows) /\ DOMAIN reviews' = DOMAIN reviews
  /\ \A k \in DOMAIN reviews : LET r == reviews[k]  q == reviews'[k] IN
       /\ q.request = r.request /\ q.decision = r.decision /\ q.action = r.action
       /\ q.origin = r.origin /\ q.after = r.after
       /\ r.undone => q.undone
       /\ r.page = "failed" => q.page = "failed"
       /\ q.page = "answered" => r.page = "answered" \/ requests[r.request].stage = "done"

\* A new review, behind the others: what was answered by then is what it is after.
Reviewed(d, action, origin) ==
  /\ requests'[Len(requests) + 1] = Request("submit", d, action) /\ Len(requests) + 1 \in DOMAIN requests'
  /\ reviews' = Append(reviews, [request |-> Len(requests) + 1, decision |-> d, action |-> action,
                                 page |-> "waiting", undoable |-> TRUE, undone |-> FALSE, origin |-> origin,
                                 after |-> {k \in DOMAIN reviews : reviews[k].page = "answered"}])

\* A submission that is done has its row in the feedback, and a decision that has one
\* keeps it.
LEMMA Stored ==
    ASSUME FeedbackInv, ReviewsAreSent, NEW k \in DOMAIN reviews,
           requests[reviews[k].request].stage = "done"
    PROVE  /\ FeedbackOf(reviews[k].decision) # {}
           /\ \E i \in DOMAIN feedback : /\ feedback[i].request = reviews[k].request
                                         /\ feedback[i].action = reviews[k].action
                                         /\ feedback[i].decision = reviews[k].decision
<1>1. /\ reviews[k].request \in DOMAIN requests /\ requests[reviews[k].request].kind = "submit"
      /\ requests[reviews[k].request].decision = reviews[k].decision
      /\ requests[reviews[k].request].action = reviews[k].action
  BY DEF ReviewsAreSent
<1>2. PICK i \in DOMAIN feedback : feedback[i].request = reviews[k].request
  BY <1>1 DEF FeedbackInv, FeedbackIsOfRequests
<1>3. feedback[i].decision = reviews[k].decision /\ feedback[i].action = reviews[k].action
  BY <1>1, <1>2 DEF FeedbackInv, FeedbackIsOfRequests
<1> QED
  BY <1>2, <1>3 DEF FeedbackOf

\* Rows of the feedback stay under their decision.
LEMMA FeedbackStays ==
    ASSUME Going, NEW d \in Decisions, FeedbackOf(d) # {}
    PROVE  FeedbackOf(d)' # {}
  BY DEF Going, FeedbackOf

\* A step that marks reviews, or none, keeps what is said of each and of two of them.
LEMMA MarkingKeeps ==
    ASSUME FeedbackInv, ReviewsAreSent, AnsweredFirst, SecondReviewHasCause, Going, Marked
    PROVE  ReviewsAreSent' /\ AnsweredFirst' /\ SecondReviewHasCause'
<1>1. ReviewsAreSent'
  BY DEF ReviewsAreSent, Going, Marked
<1>2. ASSUME NEW l \in DOMAIN reviews', NEW k \in reviews'[l].after
      PROVE  /\ k \in DOMAIN reviews' /\ requests'[reviews'[k].request].stage = "done"
             /\ LET first == requests'[reviews'[k].request].at  second == requests'[reviews'[l].request].at IN
                second = 0 \/ first <= second
             /\ \A j \in DOMAIN feedback' : feedback'[j].request = reviews'[l].request =>
                  \E i \in DOMAIN feedback' : i < j /\ feedback'[i].request = reviews'[k].request
  <2>1. /\ l \in DOMAIN reviews /\ k \in reviews[l].after /\ k \in DOMAIN reviews
        /\ reviews'[k].request = reviews[k].request /\ reviews'[l].request = reviews[l].request
    BY <1>2 DEF Marked, AnsweredFirst
  <2> DEFINE a == reviews[k].request  b == reviews[l].request
  <2>2. a \in DOMAIN requests /\ b \in DOMAIN requests /\ requests[a].stage = "done" /\ requests[a].kind = "submit"
    BY <2>1 DEF ReviewsAreSent, AnsweredFirst
  <2>3. requests'[a].stage = "done" /\ requests'[a].at = requests[a].at
    BY <2>2 DEF Going
  <2>4. requests'[b].at = 0 \/ requests[a].at <= requests'[b].at
    <3>1. requests[b].at = 0 \/ requests[a].at <= requests[b].at
      BY <2>1 DEF AnsweredFirst
    <3>2. requests[a].at <= now
      BY <2>2 DEF FeedbackInv, RequestsDated
    <3>3. requests'[b].at = requests[b].at \/ requests'[b].at = now
      BY <2>2 DEF Going
    <3> HIDE DEF a, b
    <3> QED
      BY <3>1, <3>2, <3>3
  <2>5. ASSUME NEW j \in DOMAIN feedback', feedback'[j].request = b
        PROVE  \E i \in DOMAIN feedback' : i < j /\ feedback'[i].request = a
    <3>1. CASE j \in DOMAIN feedback
      <4>1. feedback[j].request = b
        BY <2>5, <3>1 DEF Going
      <4>2. PICK i \in DOMAIN feedback : i < j /\ feedback[i].request = a
        BY <2>1, <3>1, <4>1 DEF AnsweredFirst
      <4> QED
        BY <4>2 DEF Going
    <3>2. CASE j \notin DOMAIN feedback
      <4>1. PICK i \in DOMAIN feedback : feedback[i].request = a
        BY <2>2 DEF FeedbackInv, FeedbackIsOfRequests
      <4> QED
        BY <3>2, <4>1 DEF Going
    <3> QED
      BY <3>1, <3>2
  <2> QED
    BY <1>2, <2>1, <2>3, <2>4, <2>5 DEF Marked
<1>3. AnsweredFirst'
  BY <1>2 DEF AnsweredFirst
<1>4. SecondReviewHasCause'
  BY DEF SecondReviewHasCause, Marked, Of
<1> QED
  BY <1>1, <1>3, <1>4

\* The row of a new review, and those before it.
LEMMA ReviewRow ==
    ASSUME DeskTyped, RowsTyped, NEW d \in Decisions, NEW action \in Actions, NEW origin \in Origins,
           Reviewed(d, action, origin)
    PROVE  LET n == Len(reviews)  r == reviews'[n + 1] IN
           /\ reviews' \in Seq(ReviewRows) /\ n \in Nat /\ DOMAIN reviews = 1..n /\ DOMAIN reviews' = 1..(n + 1)
           /\ \A k \in DOMAIN reviews : reviews'[k] = reviews[k]
           /\ r.request = Len(requests) + 1 /\ r.decision = d /\ r.action = action /\ r.page = "waiting"
           /\ r.origin = origin /\ ~r.undone
           /\ r.after = {k \in DOMAIN reviews : reviews[k].page = "answered"}
           /\ r.request \notin DOMAIN requests /\ r.request \in DOMAIN requests'
           /\ requests'[r.request].kind = "submit" /\ requests'[r.request].decision = d
           /\ requests'[r.request].action = action /\ requests'[r.request].at = 0
<1> DEFINE n == Len(reviews)
           s == {k \in DOMAIN reviews : reviews[k].page = "answered"}
           r == [request |-> Len(requests) + 1, decision |-> d, action |-> action,
                 page |-> "waiting", undoable |-> TRUE, undone |-> FALSE, origin |-> origin, after |-> s]
<1>1. Len(requests) \in Nat /\ DOMAIN requests = 1..Len(requests) /\ s \in SUBSET Nat
  BY DEF RowsTyped, DeskTyped
<1>2. reviews' = Append(reviews, r)
  BY DEF Reviewed
<1>3. /\ r.request = Len(requests) + 1 /\ r.decision = d /\ r.action = action /\ r.page = "waiting"
      /\ r.origin = origin /\ ~r.undone /\ r.after = s
  OBVIOUS
<1>4. r \in ReviewRows
  <2> HIDE DEF s
  <2> QED
    BY <1>1 DEF ReviewRows, Origins, Actions
<1> HIDE DEF r
<1>5. /\ reviews' \in Seq(ReviewRows) /\ n \in Nat /\ DOMAIN reviews = 1..n
      /\ DOMAIN reviews' = 1..(n + 1) /\ \A k \in DOMAIN reviews : reviews'[k] = reviews[k]
      /\ reviews'[n + 1] = r
  BY <1>2, <1>4, Appended DEF DeskTyped
<1>6. /\ r.request \notin DOMAIN requests /\ r.request \in DOMAIN requests'
      /\ requests'[r.request].kind = "submit" /\ requests'[r.request].decision = d
      /\ requests'[r.request].action = action /\ requests'[r.request].at = 0
  BY <1>1, <1>3 DEF Reviewed, Request
<1> HIDE DEF n, s
<1> QED
  BY <1>3, <1>5, <1>6 DEF n, s

\* A new review, of a decision in the queue or in the bar, is sent after what was
\* answered, and has a cause if it is not the first of its decision.
LEMMA ReviewingKeeps ==
    ASSUME FeedbackInv, DeskTyped, ReviewsAreSent, AnsweredFirst, SecondReviewHasCause, LogIsOfReviews,
           Going, feedback' = feedback, NEW d \in Decisions, NEW action \in Actions, NEW origin \in Origins,
           Reviewed(d, action, origin), origin = "bar" \/ log[d] = NoRecord
    PROVE  ReviewsAreSent' /\ AnsweredFirst' /\ SecondReviewHasCause'
<1> DEFINE n == Len(reviews)  r == reviews'[n + 1]
<1>1. /\ reviews' \in Seq(ReviewRows) /\ n \in Nat /\ DOMAIN reviews = 1..n /\ DOMAIN reviews' = 1..(n + 1)
      /\ \A k \in DOMAIN reviews : reviews'[k] = reviews[k]
      /\ r.decision = d /\ r.action = action /\ r.page = "waiting" /\ r.origin = origin
      /\ r.after = {k \in DOMAIN reviews : reviews[k].page = "answered"}
      /\ r.request \notin DOMAIN requests /\ r.request \in DOMAIN requests'
      /\ requests'[r.request].kind = "submit" /\ requests'[r.request].decision = d
      /\ requests'[r.request].action = action /\ requests'[r.request].at = 0
  BY ReviewRow DEF FeedbackInv
<1> HIDE DEF n
<1>2. \A k \in DOMAIN reviews' : k \in DOMAIN reviews \/ (k = n + 1 /\ reviews'[k] = r)
  BY <1>1
<1>3. \A k \in DOMAIN reviews : k \in DOMAIN reviews' /\ k < n + 1 /\ k # n + 1
  BY <1>1
<1> HIDE DEF r
<1>4. ReviewsAreSent'
  <2>1. ASSUME NEW k \in DOMAIN reviews'
        PROVE  LET q == reviews'[k] IN
               /\ q.request \in DOMAIN requests' /\ requests'[q.request].kind = "submit"
               /\ requests'[q.request].decision = q.decision /\ requests'[q.request].action = q.action
               /\ q.page = "answered" => requests'[q.request].stage = "done"
    <3>1. CASE k \in DOMAIN reviews
      BY <1>1, <3>1 DEF ReviewsAreSent, Going
    <3>2. CASE reviews'[k] = r
      BY <1>1, <3>2
    <3> QED
      BY <1>2, <3>1, <3>2
  <2>2. ASSUME NEW k \in DOMAIN reviews', NEW l \in DOMAIN reviews', reviews'[k].request = reviews'[l].request
        PROVE  k = l
    <3>1. \A j \in DOMAIN reviews : reviews'[j].request \in DOMAIN requests
      BY <1>1 DEF ReviewsAreSent
    <3>2. CASE k \in DOMAIN reviews /\ l \in DOMAIN reviews
      BY <1>1, <2>2, <3>2 DEF ReviewsAreSent
    <3> QED
      BY <1>1, <1>2, <2>2, <3>1, <3>2
  <2> QED
    BY <2>1, <2>2 DEF ReviewsAreSent
<1>5. AnsweredFirst'
  <2> SUFFICES ASSUME NEW l \in DOMAIN reviews', NEW k \in reviews'[l].after
      PROVE  /\ k \in DOMAIN reviews' /\ requests'[reviews'[k].request].stage = "done"
             /\ LET first == requests'[reviews'[k].request].at  second == requests'[reviews'[l].request].at IN
                second = 0 \/ first <= second
             /\ \A j \in DOMAIN feedback' : feedback'[j].request = reviews'[l].request =>
                  \E i \in DOMAIN feedback' : i < j /\ feedback'[i].request = reviews'[k].request
    BY DEF AnsweredFirst
  <2>1. CASE l \in DOMAIN reviews
    <3>1. k \in reviews[l].after /\ k \in DOMAIN reviews /\ reviews'[l] = reviews[l]
      BY <1>1, <2>1 DEF AnsweredFirst
    <3>2. reviews'[k] = reviews[k]
      BY <1>1, <3>1
    <3> DEFINE a == reviews[k].request  b == reviews[l].request
    <3>3. a \in DOMAIN requests /\ b \in DOMAIN requests /\ requests[a].stage = "done"
      BY <2>1, <3>1 DEF ReviewsAreSent, AnsweredFirst
    <3>4. requests'[a].stage = "done" /\ requests'[a].at = requests[a].at
      BY <3>3 DEF Going
    <3>5. requests'[b].at = 0 \/ requests[a].at <= requests'[b].at
      <4>1. requests[b].at = 0 \/ requests[a].at <= requests[b].at
        BY <2>1, <3>1 DEF AnsweredFirst
      <4>2. requests[a].at <= now
        BY <3>3 DEF FeedbackInv, RequestsDated
      <4>3. requests'[b].at = requests[b].at \/ requests'[b].at = now
        BY <3>3 DEF Going
      <4> HIDE DEF a, b
      <4> QED
        BY <4>1, <4>2, <4>3
    <3>6. \A j \in DOMAIN feedback : feedback[j].request = b =>
            \E i \in DOMAIN feedback : i < j /\ feedback[i].request = a
      BY <2>1, <3>1 DEF AnsweredFirst
    <3> QED
      BY <1>3, <3>1, <3>2, <3>4, <3>5, <3>6
  <2>2. CASE reviews'[l] = r
    <3>1. k \in DOMAIN reviews /\ reviews[k].page = "answered" /\ reviews'[k] = reviews[k]
      BY <1>1, <2>2
    <3>2. reviews[k].request \in DOMAIN requests /\ requests[reviews[k].request].stage = "done"
      BY <3>1 DEF ReviewsAreSent
    <3>3. requests'[reviews'[k].request].stage = "done"
      BY <3>1, <3>2 DEF Going
    <3>4. \A j \in DOMAIN feedback : feedback[j].request \in DOMAIN requests
      BY DEF FeedbackInv, FeedbackIsOfRequests
    <3> QED
      BY <1>1, <1>3, <2>2, <3>1, <3>3, <3>4
  <2> QED
    BY <1>2, <2>1, <2>2
<1>6. SecondReviewHasCause'
  <2> SUFFICES ASSUME NEW k \in DOMAIN reviews', NEW l \in DOMAIN reviews',
                      k < l, reviews'[k].decision = reviews'[l].decision
               PROVE  \/ \E j \in DOMAIN reviews' : /\ reviews'[j].decision = reviews'[k].decision /\ j < l
                                                    /\ reviews'[j].undone \/ reviews'[j].page = "failed"
                      \/ reviews'[l].origin = "bar"
    BY DEF SecondReviewHasCause, Of
  <2>1. k \in DOMAIN reviews
    BY <1>1
  <2>2. CASE l \in DOMAIN reviews
    <3>1. \/ \E j \in DOMAIN reviews : /\ reviews[j].decision = reviews[k].decision /\ j < l
                                       /\ reviews[j].undone \/ reviews[j].page = "failed"
          \/ reviews[l].origin = "bar"
      BY <1>1, <2>1, <2>2 DEF SecondReviewHasCause, Of
    <3> QED
      BY <1>1, <1>3, <2>1, <2>2, <3>1
  <2>3. CASE l = n + 1 /\ reviews'[l] = r
    <3>1. reviews[k].decision = d
      BY <1>1, <2>1, <2>3
    <3>2. CASE log[d] = NoRecord
      <4>1. PICK j \in DOMAIN reviews : /\ reviews[j].decision = d
                                        /\ reviews[j].undone \/ reviews[j].page = "failed"
        BY <2>1, <3>1, <3>2 DEF LogIsOfReviews, LogIsOf, Of
      <4> QED
        BY <1>1, <1>3, <2>1, <2>3, <3>1, <4>1
    <3> QED
      BY <1>1, <2>3, <3>2
  <2> QED
    BY <1>2, <2>2, <2>3
<1> QED
  BY <1>4, <1>5, <1>6

\* What is said of the record of a decision stays true when the record stays.
LEMMA LogStays ==
    ASSUME FeedbackInv, ReviewsAreSent, Going, NEW d \in Decisions, LogIsOf(d),
           log'[d] = log[d], known'[d] \in {known[d], "none"} \/ FeedbackOf(d)' # {},
           Of(d)' = Of(d),
           \A k \in Of(d) :
             /\ reviews'[k].request = reviews[k].request /\ reviews'[k].action = reviews[k].action
             /\ reviews[k].undone => reviews'[k].undone
             /\ reviews[k].page = "failed" => reviews'[k].page = "failed"
             /\ reviews[k].page \in {"waiting", "left"} =>
                  \/ reviews'[k].page \in {"waiting", "left"}
                  \/ requests[reviews[k].request].stage = "done"
    PROVE  LogIsOf(d)'
<1>1. FeedbackOf(d) # {} => FeedbackOf(d)' # {}
  BY FeedbackStays
<1>2. \A k \in Of(d) : /\ k \in DOMAIN reviews /\ reviews[k].decision = d
                       /\ reviews[k].request \in DOMAIN requests
  BY DEF ReviewsAreSent, Of
<1>3. (known[d] # "none")' => FeedbackOf(d)' # {}
  BY <1>1 DEF LogIsOf
<1>4. ASSUME log[d] # NoRecord
      PROVE  FeedbackOf(d)' # {} \/ \E k \in Of(d) : reviews'[k].page \in {"waiting", "left"}
  <2>1. CASE FeedbackOf(d) # {}
    BY <1>1, <2>1
  <2>2. CASE \E k \in Of(d) : reviews[k].page \in {"waiting", "left"}
    <3>1. PICK k \in Of(d) : reviews[k].page \in {"waiting", "left"}
      BY <2>2
    <3>2. CASE requests[reviews[k].request].stage = "done"
      BY <1>1, <1>2, <3>2, Stored
    <3> QED
      BY <3>1, <3>2
  <2> QED
    BY <1>4, <2>1, <2>2 DEF LogIsOf
<1>5. log[d] # NoRecord => \E k \in Of(d) : reviews'[k].action = log[d].action
  BY DEF LogIsOf
<1>6. log[d].source = "api" => \E k \in Of(d) : requests'[reviews'[k].request].stage = "done"
  BY <1>2 DEF LogIsOf, Going
<1>7. log[d] = NoRecord /\ Of(d) # {} => \E k \in Of(d) : reviews'[k].undone \/ reviews'[k].page = "failed"
  BY DEF LogIsOf
<1> QED
  BY <1>3, <1>4, <1>5, <1>6, <1>7 DEF LogIsOf

\* As it does when reviews are marked that do not answer a post that is not done.
LEMMA LogStaysMarked ==
    ASSUME FeedbackInv, ReviewsAreSent, Going, Marked, NEW d \in Decisions, LogIsOf(d),
           log'[d] = log[d], known'[d] \in {known[d], "none"} \/ FeedbackOf(d)' # {},
           \A k \in Of(d) : reviews[k].page \in {"waiting", "left"} =>
             \/ reviews'[k].page \in {"waiting", "left"}
             \/ requests[reviews[k].request].stage = "done"
    PROVE  LogIsOf(d)'
<1>1. Of(d)' = Of(d)
  BY DEF Of, Marked
<1>2. \A k \in Of(d) :
        /\ reviews'[k].request = reviews[k].request /\ reviews'[k].action = reviews[k].action
        /\ reviews[k].undone => reviews'[k].undone
        /\ reviews[k].page = "failed" => reviews'[k].page = "failed"
  BY DEF Of, Marked
<1> QED
  BY <1>1, <1>2, LogStays

\* A record is taken away with a review that is undone or failed.
LEMMA LogRemoved ==
    ASSUME FeedbackInv, Going, Marked, NEW d \in Decisions, LogIsOf(d), log'[d] = NoRecord, known' = known,
           \E k \in DOMAIN reviews : /\ reviews[k].decision = d
                                     /\ reviews'[k].undone \/ reviews'[k].page = "failed"
    PROVE  LogIsOf(d)'
<1>1. (known[d] # "none")' => FeedbackOf(d)' # {}
  BY FeedbackStays DEF LogIsOf
<1>2. \E k \in Of(d)' : (reviews[k].undone)' \/ (reviews[k].page = "failed")'
  BY DEF Of, Marked
<1>3. (log[d] = NoRecord)' /\ (log[d].source # "api")'
  BY DEF NoRecord
<1> QED
  BY <1>1, <1>2, <1>3 DEF LogIsOf

\* A decision is shown, and nothing but a view of it sent.
LEMMA Showing ==
    ASSUME RowsTyped, NEW d \in Decisions \cup {0}, Show(d, requests)
    PROVE  Sent /\ sheet' = d
<1>1. sheet' = d
  BY DEF Show
<1>2. CASE requests' = requests
  BY <1>1, <1>2 DEF Sent, RowsTyped
<1>3. CASE d # 0 /\ requests' = Append(requests, Request("view", d, "none"))
  <2> DEFINE q == Request("view", d, "none")
  <2>1. q \in RequestRows /\ q.stage = "sent" /\ q.at = 0 /\ q.kind = "view"
    BY <1>3 DEF Request, RequestRows, Actions, Stages
  <2> HIDE DEF q
  <2>2. /\ requests' \in Seq(RequestRows) /\ Len(requests) \in Nat /\ DOMAIN requests = 1..Len(requests)
        /\ DOMAIN requests' = 1..(Len(requests) + 1) /\ \A k \in DOMAIN requests : requests'[k] = requests[k]
        /\ requests'[Len(requests) + 1] = q
    BY <1>3, <2>1, Appended DEF q, RowsTyped
  <2>3. \A k \in DOMAIN requests' : k \in DOMAIN requests \/ k = Len(requests) + 1
    BY <2>2
  <2> QED
    BY <1>1, <2>1, <2>2, <2>3 DEF Sent
<1> QED
  BY <1>2, <1>3 DEF Show

\* A review is sent, and perhaps a view behind it.
LEMMA ReviewSends ==
    ASSUME RowsTyped, NEW d \in Decisions, NEW action \in Actions, NEW origin, NEW next \in Decisions \cup {0},
           Review(d, action, origin, next)
    PROVE  /\ Sent /\ Reviewed(d, action, origin) /\ sheet' = next
           /\ log' = [log EXCEPT ![d] = [action |-> action, source |-> "local"]]
           /\ UNCHANGED <<store, now, feedback, viewLog, known>>
<1> DEFINE p == Request("submit", d, action)  n == Len(requests)  mid == Append(requests, p)
           q == Request("view", next, "none")
<1>1. p \in RequestRows /\ p.stage = "sent" /\ p.at = 0 /\ p.action \in Actions
  BY DEF Request, RequestRows, Actions, Stages
<1>2. Show(next, mid)
  BY DEF Review
<1>3. sheet' = next
  BY <1>2 DEF Show
<1> HIDE DEF p
<1>4. /\ mid \in Seq(RequestRows) /\ n \in Nat /\ DOMAIN requests = 1..n /\ DOMAIN mid = 1..(n + 1)
      /\ Len(mid) = n + 1 /\ \A k \in DOMAIN requests : mid[k] = requests[k]
      /\ mid[n + 1] = p
  BY <1>1, Appended DEF RowsTyped
<1> HIDE DEF mid, n
<1>5. \A k \in DOMAIN mid : k \in DOMAIN requests \/ k = n + 1
  BY <1>4
<1>6. CASE requests' = mid
  <2>1. Sent
    BY <1>1, <1>4, <1>5, <1>6 DEF Sent
  <2>2. requests'[n + 1] = p /\ n + 1 \in DOMAIN requests'
    BY <1>4, <1>6
  <2> QED
    BY <1>3, <2>1, <2>2 DEF Review, Reviewed, n, p
<1>7. CASE next # 0 /\ requests' = Append(mid, q)
  <2>1. q \in RequestRows /\ q.stage = "sent" /\ q.at = 0 /\ q.kind = "view"
    BY <1>7 DEF Request, RequestRows, Actions, Stages
  <2> HIDE DEF q
  <2>2. /\ requests' \in Seq(RequestRows) /\ DOMAIN requests' = 1..(n + 2)
        /\ \A k \in DOMAIN mid : requests'[k] = mid[k]
        /\ requests'[n + 2] = q
    BY <1>4, <1>7, <2>1, Appended
  <2>3. \A k \in DOMAIN requests' : k \in DOMAIN mid \/ k = n + 2
    BY <1>4, <2>2
  <2>4. DOMAIN requests \subseteq DOMAIN requests' /\ n + 1 \in DOMAIN requests' /\ n + 1 \in DOMAIN mid
        /\ \A k \in DOMAIN requests : k \in DOMAIN mid
    BY <1>4, <2>2
  <2>5. Sent
    BY <1>1, <1>4, <1>5, <2>1, <2>2, <2>3, <2>4 DEF Sent
  <2>6. requests'[n + 1] = p
    BY <1>4, <2>2, <2>4
  <2> QED
    BY <1>3, <2>4, <2>5, <2>6 DEF Review, Reviewed, n, p
<1> QED
  BY <1>2, <1>6, <1>7 DEF Show

--------------------------------------------------------------------------------
\* The next decision of the queue has no record, as the queue has it.
LEMMA NextOfQueue ==
    ASSUME NEW d \in Decisions
    PROVE  /\ After(d) \in Decisions \cup {0}
           /\ After(d) # 0 => log[After(d)] = NoRecord /\ After(d) # d
<1> DEFINE later == {e \in Decisions : InQueue(e) /\ e > d}
<1>1. CASE later = {}
  BY <1>1 DEF After
<1>2. CASE later # {}
  <2>1. later \in SUBSET Nat /\ d \in Nat
    BY FeedbackAssumption
  <2>2. \E e \in later : \A f \in later : e <= f
    BY <1>2, <2>1, Smallest
  <2> DEFINE e == CHOOSE e \in later : \A f \in later : e <= f
  <2>3. e \in later
    BY <2>2
  <2>4. After(d) = e
    BY <1>2 DEF After
  <2> HIDE DEF e
  <2> QED
    BY <2>1, <2>3, <2>4 DEF InQueue
<1> QED
  BY <1>1, <1>2

\* A review of a decision keeps the log, the sheet and everything else in agreement.
LEMMA ReviewKeeps ==
    ASSUME DeskInv, NEW d \in Decisions, NEW action \in Actions, NEW origin \in Origins,
           NEW next \in Decisions \cup {0}, Review(d, action, origin, next),
           origin = "bar" \/ log[d] = NoRecord, next # 0 => log[next] = NoRecord /\ next # d
    PROVE  DeskInv'
<1>1. /\ Sent /\ Reviewed(d, action, origin) /\ sheet' = next
      /\ log' = [log EXCEPT ![d] = [action |-> action, source |-> "local"]]
      /\ UNCHANGED <<store, now, feedback, viewLog, known>>
  BY ReviewSends DEF DeskInv, FeedbackInv
<1>2. FeedbackInv' /\ Going
  BY <1>1, SendingKeeps DEF DeskInv
<1>3. ReviewsAreSent' /\ AnsweredFirst' /\ SecondReviewHasCause'
  BY <1>1, <1>2, ReviewingKeeps DEF DeskInv
<1> DEFINE n == Len(reviews)  r == reviews'[n + 1]
<1>4. /\ reviews' \in Seq(ReviewRows) /\ n \in Nat /\ DOMAIN reviews = 1..n /\ DOMAIN reviews' = 1..(n + 1)
      /\ \A k \in DOMAIN reviews : reviews'[k] = reviews[k]
      /\ r.decision = d /\ r.action = action /\ r.page = "waiting"
  BY <1>1, ReviewRow DEF DeskInv, FeedbackInv
<1> HIDE DEF n
<1> DEFINE new == [action |-> action, source |-> "local"]
<1>5. new \in LogRecords /\ new # NoRecord /\ new.action = action /\ new.source # "api"
  BY DEF LogRecords, NoRecord, Actions
<1> HIDE DEF new
<1>6. log \in [Decisions -> LogRecords] /\ log' = [log EXCEPT ![d] = new]
  BY <1>1 DEF DeskInv, DeskTyped, new
<1>7. log' \in [Decisions -> LogRecords] /\ log'[d] = new /\ \A e \in Decisions : e # d => log'[e] = log[e]
  BY <1>5, <1>6
<1>8. DeskTyped'
  BY <1>1, <1>4, <1>7 DEF DeskInv, DeskTyped
<1>9. ASSUME NEW e \in Decisions PROVE LogIsOf(e)'
  <2>1. LogIsOf(e)
    BY DEF DeskInv, LogIsOfReviews
  <2>2. CASE e # d
    <3>1. Of(e)' = Of(e)
      BY <1>4, <2>2 DEF Of
    <3>2. \A k \in Of(e) : reviews'[k] = reviews[k]
      BY <1>4 DEF Of
    <3>3. log'[e] = log[e] /\ known'[e] = known[e]
      BY <1>1, <1>7, <2>2
    <3> QED
      BY <1>2, <2>1, <3>1, <3>2, <3>3, LogStays DEF DeskInv
  <2>3. CASE e = d
    <3>1. n + 1 \in Of(d)' /\ r.page = "waiting" /\ r.action = action
      BY <1>4 DEF Of
    <3>4. \E k \in Of(d)' : reviews'[k].page \in {"waiting", "left"} /\ reviews'[k].action = action
      BY <3>1
    <3>2. (known[d] # "none")' => FeedbackOf(d)' # {}
      BY <1>1, <1>2, <2>1, <2>3, FeedbackStays DEF LogIsOf
    <3>3. (log[d])' = new
      BY <1>7
    <3> QED
      BY <1>5, <2>3, <3>2, <3>3, <3>4 DEF LogIsOf
  <2> QED
    BY <2>2, <2>3
<1>10. SheetIsOpen'
  BY <1>1, <1>7 DEF SheetIsOpen
<1> QED
  BY <1>2, <1>3, <1>8, <1>9, <1>10 DEF DeskInv, LogIsOfReviews

\* A step that leaves the reviews and the log alone.
LEMMA PlainStepKeeps ==
    ASSUME DeskInv, FeedbackInv', Going, UNCHANGED <<reviews, log>>, sheet' \in Decisions \cup {0},
           sheet' # 0 => log[sheet'] = NoRecord, known' \in [Decisions -> Actions \cup {"none"}],
           \A d \in Decisions : known'[d] \in {known[d], "none"} \/ FeedbackOf(d)' # {}
    PROVE  DeskInv'
<1>1. Marked
  BY DEF DeskInv, DeskTyped, Marked
<1>2. ReviewsAreSent' /\ AnsweredFirst' /\ SecondReviewHasCause'
  BY <1>1, MarkingKeeps DEF DeskInv
<1>3. DeskTyped'
  BY DEF DeskInv, DeskTyped
<1>4. ASSUME NEW d \in Decisions PROVE LogIsOf(d)'
  BY <1>1, LogStaysMarked DEF DeskInv, LogIsOfReviews
<1>5. SheetIsOpen'
  BY DEF SheetIsOpen
<1> QED
  BY <1>2, <1>3, <1>4, <1>5 DEF DeskInv, LogIsOfReviews

\* A step that takes one record away, with a review that is undone or failed.
LEMMA RemovalKeeps ==
    ASSUME DeskInv, FeedbackInv', Going, Marked, NEW d \in Decisions, UndoReview(d), known' = known,
           sheet' \in {sheet, d, 0},
           \E k \in DOMAIN reviews : /\ reviews[k].decision = d
                                     /\ reviews'[k].undone \/ reviews'[k].page = "failed",
           \A k \in DOMAIN reviews : reviews[k].decision # d => reviews'[k] = reviews[k]
    PROVE  DeskInv'
<1>1. ReviewsAreSent' /\ AnsweredFirst' /\ SecondReviewHasCause'
  BY MarkingKeeps DEF DeskInv
<1>2. /\ log' \in [Decisions -> LogRecords] /\ log'[d] = NoRecord
      /\ \A e \in Decisions : e # d => log'[e] = log[e]
  <2>1. log \in [Decisions -> LogRecords] /\ NoRecord \in LogRecords
    BY DEF DeskInv, DeskTyped, LogRecords
  <2> QED
    BY <2>1 DEF UndoReview
<1>3. DeskTyped'
  BY <1>2 DEF DeskInv, DeskTyped, Marked
<1>4. ASSUME NEW e \in Decisions PROVE LogIsOf(e)'
  <2>1. LogIsOf(e)
    BY DEF DeskInv, LogIsOfReviews
  <2>2. CASE e = d
    BY <1>2, <2>1, <2>2, LogRemoved DEF DeskInv
  <2>3. CASE e # d
    <3>1. \A k \in Of(e) : reviews'[k] = reviews[k]
      BY <2>3 DEF Of
    <3>2. log'[e] = log[e] /\ known'[e] = known[e]
      BY <1>2, <2>3
    <3> QED
      BY <2>1, <3>1, <3>2, LogStaysMarked DEF DeskInv
  <2> QED
    BY <2>2, <2>3
<1>5. SheetIsOpen'
  BY <1>2 DEF SheetIsOpen, DeskInv, DeskTyped
<1> QED
  BY <1>1, <1>3, <1>4, <1>5 DEF DeskInv, LogIsOfReviews

\* Undo takes the record away, and may open the sheet again.
LEMMA UndoKeeps ==
    ASSUME DeskInv, NEW k \in DOMAIN reviews, Undo(k)
    PROVE  DeskInv'
<1> DEFINE q == [reviews[k] EXCEPT !.undoable = FALSE, !.undone = TRUE]  d == reviews[k].decision
<1>1. reviews[k] \in ReviewRows /\ reviews \in Seq(ReviewRows)
  BY DEF DeskInv, DeskTyped
<1>2. /\ q \in ReviewRows /\ q.request = reviews[k].request /\ q.decision = d /\ q.action = reviews[k].action
      /\ q.origin = reviews[k].origin /\ q.after = reviews[k].after /\ q.page = reviews[k].page /\ q.undone
  BY <1>1 DEF ReviewRows
<1>3. /\ reviews' = [reviews EXCEPT ![k] = q] /\ UndoReview(d)
      /\ UNCHANGED <<store, now, feedback, viewLog, known>>
      /\ Show(d, requests) \/ UNCHANGED <<sheet, requests>>
  BY DEF Undo
<1> HIDE DEF q
<1>4. /\ reviews' \in Seq(ReviewRows) /\ DOMAIN reviews' = DOMAIN reviews /\ reviews'[k] = q
      /\ \A j \in DOMAIN reviews : j # k => reviews'[j] = reviews[j]
  BY <1>1, <1>2, <1>3, Rewritten
<1>5. Marked
  BY <1>2, <1>4 DEF Marked, DeskInv, ReviewsAreSent
<1>6. d \in Decisions
  BY <1>1 DEF ReviewRows
<1>7. Sent /\ sheet' \in {sheet, d}
  <2>1. CASE Show(d, requests)
    BY <1>6, <2>1, Showing DEF DeskInv, FeedbackInv
  <2>2. CASE UNCHANGED <<sheet, requests>>
    BY <2>2 DEF Sent, DeskInv, FeedbackInv, RowsTyped
  <2> QED
    BY <1>3, <2>1, <2>2
<1>8. FeedbackInv' /\ Going
  BY <1>3, <1>7, SendingKeeps DEF DeskInv
<1>9. /\ \E j \in DOMAIN reviews : reviews[j].decision = d /\ (reviews'[j].undone \/ reviews'[j].page = "failed")
      /\ \A j \in DOMAIN reviews : reviews[j].decision # d => reviews'[j] = reviews[j]
  BY <1>2, <1>4
<1> HIDE DEF d
<1> QED
  BY <1>3, <1>5, <1>6, <1>7, <1>8, <1>9, RemovalKeeps DEF d

\* A post that failed takes the record away.
LEMMA FailedKeeps ==
    ASSUME DeskInv, NEW k \in DOMAIN reviews, Failed(k)
    PROVE  DeskInv'
<1> DEFINE q == [reviews[k] EXCEPT !.page = "failed", !.undoable = FALSE]  d == reviews[k].decision
<1>1. reviews[k] \in ReviewRows /\ reviews \in Seq(ReviewRows)
  BY DEF DeskInv, DeskTyped
<1>2. /\ q \in ReviewRows /\ q.request = reviews[k].request /\ q.decision = d /\ q.action = reviews[k].action
      /\ q.origin = reviews[k].origin /\ q.after = reviews[k].after /\ q.page = "failed"
      /\ q.undone = reviews[k].undone
  BY <1>1 DEF ReviewRows
<1>3. /\ reviews' = [reviews EXCEPT ![k] = q] /\ UndoReview(d)
      /\ UNCHANGED <<store, now, requests, feedback, viewLog, known, sheet>>
  BY DEF Failed, feedbackVars
<1> HIDE DEF q
<1>4. /\ reviews' \in Seq(ReviewRows) /\ DOMAIN reviews' = DOMAIN reviews /\ reviews'[k] = q
      /\ \A j \in DOMAIN reviews : j # k => reviews'[j] = reviews[j]
  BY <1>1, <1>2, <1>3, Rewritten
<1>5. Marked
  BY <1>2, <1>4 DEF Marked, DeskInv, ReviewsAreSent
<1>6. d \in Decisions
  BY <1>1 DEF ReviewRows
<1>7. Sent
  BY <1>3 DEF Sent, DeskInv, FeedbackInv, RowsTyped
<1>8. FeedbackInv' /\ Going
  BY <1>3, <1>7, SendingKeeps DEF DeskInv
<1>9. /\ \E j \in DOMAIN reviews : reviews[j].decision = d /\ (reviews'[j].undone \/ reviews'[j].page = "failed")
      /\ \A j \in DOMAIN reviews : reviews[j].decision # d => reviews'[j] = reviews[j]
  BY <1>2, <1>4
<1> HIDE DEF d
<1> QED
  BY <1>3, <1>5, <1>6, <1>8, <1>9, RemovalKeeps DEF d

\* An answer is merged into the record that is there.
LEMMA AnsweredKeeps ==
    ASSUME DeskInv, NEW k \in DOMAIN reviews, Answered(k)
    PROVE  DeskInv'
<1> DEFINE q == [reviews[k] EXCEPT !.page = "answered"]  d == reviews[k].decision
<1>1. reviews[k] \in ReviewRows /\ reviews \in Seq(ReviewRows)
  BY DEF DeskInv, DeskTyped
<1>2. /\ q \in ReviewRows /\ q.request = reviews[k].request /\ q.decision = d /\ q.action = reviews[k].action
      /\ q.origin = reviews[k].origin /\ q.after = reviews[k].after /\ q.page = "answered"
      /\ q.undone = reviews[k].undone
  BY <1>1 DEF ReviewRows
<1>3. /\ reviews' = [reviews EXCEPT ![k] = q] /\ reviews[k].page = "waiting"
      /\ requests[reviews[k].request].stage = "done"
      /\ log' = IF log[d] = NoRecord THEN log ELSE [log EXCEPT ![d].source = "api"]
      /\ UNCHANGED <<store, now, requests, feedback, viewLog, known, sheet>>
  BY DEF Answered, feedbackVars
<1> HIDE DEF q
<1>4. /\ reviews' \in Seq(ReviewRows) /\ DOMAIN reviews' = DOMAIN reviews /\ reviews'[k] = q
      /\ \A j \in DOMAIN reviews : j # k => reviews'[j] = reviews[j]
  BY <1>1, <1>2, <1>3, Rewritten
<1>5. Marked
  BY <1>2, <1>3, <1>4 DEF Marked
<1>6. d \in Decisions
  BY <1>1 DEF ReviewRows
<1>7. Sent
  BY <1>3 DEF Sent, DeskInv, FeedbackInv, RowsTyped
<1>8. FeedbackInv' /\ Going
  BY <1>3, <1>7, SendingKeeps DEF DeskInv
<1>9. ReviewsAreSent' /\ AnsweredFirst' /\ SecondReviewHasCause'
  BY <1>5, <1>8, MarkingKeeps DEF DeskInv
<1> HIDE DEF d
<1>10. /\ log' \in [Decisions -> LogRecords] /\ \A e \in Decisions : e # d => log'[e] = log[e]
       /\ log[d] = NoRecord => log'[d] = NoRecord
       /\ log[d] # NoRecord => log'[d] # NoRecord /\ log'[d].action = log[d].action
  <2>1. log \in [Decisions -> LogRecords]
    BY DEF DeskInv, DeskTyped
  <2>2. CASE log[d] = NoRecord
    BY <1>3, <2>1, <2>2
  <2>3. CASE log[d] # NoRecord
    <3> DEFINE r == [log[d] EXCEPT !.source = "api"]
    <3>1. log[d] \in [action : Actions, source : {"local", "api"}]
      BY <1>6, <2>1, <2>3 DEF LogRecords
    <3>2. r \in LogRecords /\ r # NoRecord /\ r.action = log[d].action
      BY <3>1 DEF LogRecords, NoRecord, Actions
    <3>3. log' = [log EXCEPT ![d] = r]
      BY <1>3, <1>6, <2>1, <2>3
    <3> HIDE DEF r
    <3> QED
      BY <1>6, <2>1, <2>3, <3>2, <3>3
  <2> QED
    BY <2>2, <2>3
<1>11. DeskTyped'
  BY <1>3, <1>4, <1>10 DEF DeskInv, DeskTyped
<1>12. ASSUME NEW e \in Decisions PROVE LogIsOf(e)'
  <2>1. LogIsOf(e)
    BY DEF DeskInv, LogIsOfReviews
  <2>2. CASE e # d \/ log[d] = NoRecord
    <3>1. log'[e] = log[e] /\ known'[e] = known[e]
      BY <1>3, <1>10, <2>2
    <3>2. \A j \in Of(e) : reviews[j].page \in {"waiting", "left"} =>
             \/ reviews'[j].page \in {"waiting", "left"}
             \/ requests[reviews[j].request].stage = "done"
      BY <1>3, <1>4 DEF Of
    <3> QED
      BY <1>5, <1>8, <2>1, <3>1, <3>2, LogStaysMarked DEF DeskInv
  <2>3. CASE e = d /\ log[d] # NoRecord
    <3>1. FeedbackOf(e) # {}
      BY <1>3, <2>3, Stored DEF DeskInv, d
    <3>2. FeedbackOf(e)' # {}
      BY <1>8, <3>1, FeedbackStays
    <3>3. k \in Of(e)' /\ (requests[reviews[k].request].stage = "done")'
      BY <1>2, <1>3, <1>4, <2>3 DEF Of, d
    <3>4. PICK j \in Of(e) : reviews[j].action = log[e].action
      BY <2>1, <2>3 DEF LogIsOf
    <3>5. j \in Of(e)' /\ reviews'[j].action = log'[e].action /\ log'[e] # NoRecord
      BY <1>2, <1>4, <1>10, <2>3, <3>4 DEF Of, d
    <3>6. /\ \E m \in Of(e)' : requests'[reviews'[m].request].stage = "done"
          /\ \E m \in Of(e)' : reviews'[m].action = log'[e].action
      BY <3>3, <3>5
    <3> QED
      BY <3>2, <3>5, <3>6 DEF LogIsOf
  <2> QED
    BY <2>2, <2>3
<1>13. SheetIsOpen'
  <2>1. sheet # 0 => sheet \in Decisions /\ log[sheet] = NoRecord
    BY DEF DeskInv, DeskTyped, SheetIsOpen
  <2> QED
    BY <1>3, <1>10, <2>1 DEF SheetIsOpen
<1> QED
  BY <1>8, <1>9, <1>11, <1>12, <1>13 DEF DeskInv, LogIsOfReviews

\* A reload forgets what waited, and what the page knew.
LEMMA ReloadKeeps ==
    ASSUME DeskInv, Reload
    PROVE  DeskInv'
<1>1. /\ reviews' = [k \in DOMAIN reviews |->
                      [reviews[k] EXCEPT !.undoable = FALSE, !.page = IF @ = "waiting" THEN "left" ELSE @]]
      /\ known' = [d \in Decisions |-> "none"] /\ sheet' = 0
      /\ UNCHANGED <<store, now, requests, feedback, viewLog, log>>
  BY DEF Reload, feedbackVars
<1>2. reviews \in Seq(ReviewRows) /\ \A k \in DOMAIN reviews : reviews[k] \in ReviewRows
  BY DEF DeskInv, DeskTyped
<1>3. ASSUME NEW k \in DOMAIN reviews
      PROVE  LET r == reviews[k]  q == reviews'[k] IN
             /\ q \in ReviewRows /\ q.request = r.request /\ q.decision = r.decision /\ q.action = r.action
             /\ q.origin = r.origin /\ q.after = r.after /\ q.undone = r.undone
             /\ q.page = IF r.page = "waiting" THEN "left" ELSE r.page
  <2> DEFINE p == IF reviews[k].page = "waiting" THEN "left" ELSE reviews[k].page
  <2>1. reviews'[k] = [reviews[k] EXCEPT !.undoable = FALSE, !.page = p]
    BY <1>1
  <2>2. p \in {"waiting", "answered", "failed", "left"} /\ reviews[k] \in ReviewRows
    BY <1>2 DEF ReviewRows
  <2> HIDE DEF p
  <2>3. /\ reviews'[k] \in ReviewRows /\ reviews'[k].request = reviews[k].request
        /\ reviews'[k].decision = reviews[k].decision /\ reviews'[k].action = reviews[k].action
        /\ reviews'[k].origin = reviews[k].origin /\ reviews'[k].after = reviews[k].after
        /\ reviews'[k].undone = reviews[k].undone /\ reviews'[k].page = p
    BY <2>1, <2>2 DEF ReviewRows
  <2> QED
    BY <2>3 DEF p
<1>4. reviews' \in Seq(ReviewRows) /\ DOMAIN reviews' = DOMAIN reviews
  <2>1. reviews' \in [DOMAIN reviews -> ReviewRows]
    BY <1>1, <1>3
  <2>2. DOMAIN reviews = 1..Len(reviews) /\ Len(reviews) \in Nat
    BY <1>2
  <2> QED
    BY <2>1, <2>2
<1>5. Marked
  BY <1>3, <1>4 DEF Marked
<1>6. Sent
  BY <1>1 DEF Sent, DeskInv, FeedbackInv, RowsTyped
<1>7. FeedbackInv' /\ Going
  BY <1>1, <1>6, SendingKeeps DEF DeskInv
<1>8. ReviewsAreSent' /\ AnsweredFirst' /\ SecondReviewHasCause'
  BY <1>5, <1>7, MarkingKeeps DEF DeskInv
<1>9. DeskTyped' /\ SheetIsOpen'
  BY <1>1, <1>4 DEF DeskInv, DeskTyped, SheetIsOpen
<1>10. ASSUME NEW e \in Decisions PROVE LogIsOf(e)'
  <2>1. LogIsOf(e)
    BY DEF DeskInv, LogIsOfReviews
  <2>2. log'[e] = log[e] /\ known'[e] = "none"
    BY <1>1
  <2>3. \A j \in Of(e) : reviews[j].page \in {"waiting", "left"} => reviews'[j].page \in {"waiting", "left"}
    BY <1>3 DEF Of
  <2> QED
    BY <1>5, <1>7, <2>1, <2>2, <2>3, LogStaysMarked DEF DeskInv
<1> QED
  BY <1>7, <1>8, <1>9, <1>10 DEF DeskInv, LogIsOfReviews

\* What the page learns of a decision is there only when the server has feedback of it.
LEMMA RefetchKeeps ==
    ASSUME DeskInv, NEW d \in Decisions, Refetch(d)
    PROVE  DeskInv'
<1>1. PICK a \in LatestAction(d) : known' = [known EXCEPT ![d] = a]
  BY DEF Refetch, Fetch
<1>2. UNCHANGED <<store, now, requests, feedback, viewLog, reviews, log, sheet>>
  BY DEF Refetch, feedbackVars
<1>3. a \in Actions \cup {"none"} /\ (a # "none" => FeedbackOf(d) # {})
  <2>1. \A i \in FeedbackOf(d) : feedback[i].action \in Actions
    <3>1. \A i \in DOMAIN feedback : feedback[i] \in FeedbackRows
      BY DEF DeskInv, FeedbackInv, RowsTyped
    <3> QED
      BY <3>1 DEF FeedbackOf, FeedbackRows
  <2> QED
    BY <2>1 DEF LatestAction, LatestFeedback
<1>4. known \in [Decisions -> Actions \cup {"none"}]
  BY DEF DeskInv, DeskTyped
<1>5. /\ known' \in [Decisions -> Actions \cup {"none"}]
      /\ \A e \in Decisions : known'[e] = IF e = d THEN a ELSE known[e]
  BY <1>1, <1>3, <1>4
<1>6. Sent
  BY <1>2 DEF Sent, DeskInv, FeedbackInv, RowsTyped
<1>7. FeedbackInv' /\ Going
  BY <1>2, <1>6, SendingKeeps DEF DeskInv
<1>8. ASSUME NEW e \in Decisions PROVE known'[e] \in {known[e], "none"} \/ FeedbackOf(e)' # {}
  <2>1. CASE e = d /\ a # "none"
    BY <1>3, <1>7, <2>1, FeedbackStays
  <2> QED
    BY <1>5, <2>1
<1>9. sheet' \in Decisions \cup {0} /\ (sheet' # 0 => log[sheet'] = NoRecord)
  BY <1>2 DEF DeskInv, DeskTyped, SheetIsOpen
<1> QED
  BY <1>2, <1>5, <1>7, <1>8, <1>9, PlainStepKeeps

\* The desk begins in agreement.
LEMMA InitDesk == DeskInit => DeskInv
<1> SUFFICES ASSUME DeskInit PROVE DeskInv
  OBVIOUS
<1>1. /\ store \in {"sqlite", "dynamodb"} /\ now = 1 /\ requests = <<>> /\ feedback = <<>> /\ viewLog = <<>>
      /\ reviews = <<>> /\ log = [d \in Decisions |-> NoRecord]
      /\ known = [d \in Decisions |-> "none"] /\ sheet = 0
  BY DEF DeskInit, FeedbackInit
<1>2. DOMAIN requests = {} /\ DOMAIN feedback = {} /\ DOMAIN viewLog = {} /\ DOMAIN reviews = {}
  BY <1>1
<1>3. RequestsDated /\ FeedbackIsOfRequests /\ ViewsAreApart
  BY <1>2 DEF RequestsDated, FeedbackIsOfRequests, ViewsAreApart, OneViewPerWindow
<1>4. ReviewsAreSent /\ AnsweredFirst /\ SecondReviewHasCause /\ SheetIsOpen
  BY <1>1, <1>2 DEF ReviewsAreSent, AnsweredFirst, SecondReviewHasCause, SheetIsOpen
<1>5. LogIsOfReviews
  BY <1>1, <1>2 DEF LogIsOfReviews, LogIsOf, Of, NoRecord
<1>6. DeskTyped
  BY <1>1 DEF DeskTyped, LogRecords
<1> QED
  BY <1>1, <1>3, <1>4, <1>5, <1>6, FeedbackAssumption DEF DeskInv, FeedbackInv, RowsTyped, Times

\* Every step keeps it so.
LEMMA DeskStepKeeps ==
    ASSUME DeskInv, [DeskNext]_<<feedbackVars, deskVars>>
    PROVE  DeskInv'
<1>1. CASE UNCHANGED <<feedbackVars, deskVars>>
  <2>1. UNCHANGED <<store, now, requests, feedback, viewLog, reviews, log, known, sheet>>
    BY <1>1 DEF feedbackVars, deskVars
  <2>2. Sent /\ known' = known /\ sheet' = sheet
    BY <2>1 DEF Sent, DeskInv, FeedbackInv, RowsTyped
  <2>3. FeedbackInv' /\ Going
    BY <2>1, <2>2, SendingKeeps DEF DeskInv
  <2> QED
    BY <2>1, <2>3, PlainStepKeeps DEF DeskInv, DeskTyped, SheetIsOpen
<1>2. CASE FeedbackNext /\ UNCHANGED deskVars
  <2>1. UNCHANGED <<reviews, log, known, sheet>>
    BY <1>2 DEF deskVars
  <2>2. FeedbackInv' /\ Going
    BY <1>2, FeedbackNextKeeps DEF DeskInv
  <2> QED
    BY <2>1, <2>2, PlainStepKeeps DEF DeskInv, DeskTyped, SheetIsOpen
<1>3. ASSUME NEW d \in Decisions, ReviewInTable(d) PROVE DeskInv'
  <2> DEFINE next == IF sheet = d THEN 0 ELSE sheet
  <2>1. Review(d, "approve", "table", next) /\ log[d] = NoRecord
    BY <1>3 DEF ReviewInTable, InQueue
  <2>2. next \in Decisions \cup {0} /\ (next # 0 => log[next] = NoRecord /\ next # d)
    BY DEF DeskInv, DeskTyped, SheetIsOpen
  <2>3. "approve" \in Actions /\ "table" \in Origins
    BY DEF Actions, Origins
  <2> HIDE DEF next
  <2>4. \E e \in Decisions \cup {0} : Review(d, "approve", "table", e) /\ (e # 0 => log[e] = NoRecord /\ e # d)
    BY <2>1, <2>2
  <2> QED
    BY <2>1, <2>3, <2>4, ReviewKeeps
<1>4. ASSUME NEW a \in Actions, ReviewInSheet(a) PROVE DeskInv'
  <2>1. PICK d \in Decisions : d = sheet /\ log[d] = NoRecord
    BY <1>4 DEF ReviewInSheet, DeskInv, DeskTyped, SheetIsOpen
  <2> DEFINE next == IF InQueue(sheet) THEN After(sheet) ELSE 0
  <2>2. Review(d, a, "sheet", next)
    BY <1>4, <2>1 DEF ReviewInSheet
  <2>3. next \in Decisions \cup {0} /\ (next # 0 => log[next] = NoRecord /\ next # d)
    BY <2>1, NextOfQueue
  <2>4. "sheet" \in Origins
    BY DEF Origins
  <2> HIDE DEF next
  <2>5. \E e \in Decisions \cup {0} : Review(d, a, "sheet", e) /\ (e # 0 => log[e] = NoRecord /\ e # d)
    BY <2>2, <2>3
  <2> QED
    BY <2>1, <2>4, <2>5, ReviewKeeps
<1>5. ASSUME NEW a \in Actions, NEW d \in Decisions, ReviewInBar(d, a) PROVE DeskInv'
  <2>1. Review(d, a, "bar", 0) /\ "bar" \in Origins /\ 0 \in Decisions \cup {0}
    BY <1>5 DEF ReviewInBar, Origins
  <2> QED
    BY <2>1, ReviewKeeps
<1>6. ASSUME NEW d \in Decisions, OpenSheet(d) PROVE DeskInv'
  <2>1. /\ Show(d, requests) /\ log[d] = NoRecord
        /\ UNCHANGED <<store, now, feedback, viewLog, reviews, log, known>>
    BY <1>6 DEF OpenSheet, InQueue
  <2>2. Sent /\ sheet' = d
    BY <2>1, Showing DEF DeskInv, FeedbackInv
  <2>3. FeedbackInv' /\ Going
    BY <2>1, <2>2, SendingKeeps DEF DeskInv
  <2> QED
    BY <2>1, <2>2, <2>3, PlainStepKeeps DEF DeskInv, DeskTyped
<1>7. CASE CloseSheet
  <2>1. sheet' = 0 /\ UNCHANGED <<store, now, requests, feedback, viewLog, reviews, log, known>>
    BY <1>7 DEF CloseSheet, feedbackVars
  <2>2. Sent
    BY <2>1 DEF Sent, DeskInv, FeedbackInv, RowsTyped
  <2>3. FeedbackInv' /\ Going
    BY <2>1, <2>2, SendingKeeps DEF DeskInv
  <2> QED
    BY <2>1, <2>3, PlainStepKeeps DEF DeskInv, DeskTyped
<1>8. ASSUME NEW k \in DOMAIN reviews, Undo(k) \/ Answered(k) \/ Failed(k) PROVE DeskInv'
  BY <1>8, UndoKeeps, AnsweredKeeps, FailedKeeps
<1>9. ASSUME NEW d \in Decisions, Refetch(d) PROVE DeskInv'
  BY <1>9, RefetchKeeps
<1>10. CASE Reload
  BY <1>10, ReloadKeeps
<1> QED
  BY <1>1, <1>2, <1>3, <1>4, <1>5, <1>6, <1>7, <1>8, <1>9, <1>10 DEF DeskNext

--------------------------------------------------------------------------------
\* What is shown as waiting for a review is what waits for one, as the log has it.
LEMMA ShownWhilePending == DeskInv => PendingIsShown
  BY DEF DeskInv, LogIsOfReviews, LogIsOf, PendingIsShown, Pending, InQueue

\* A record called saved is of the one review of its decision, whose row is stored.
LEMMA SavedIsStored == DeskInv => SavedRecordIsStored
<1> SUFFICES ASSUME DeskInv, NEW d \in Decisions, log[d].source = "api", Cardinality(Of(d)) = 1
             PROVE  \E i \in FeedbackOf(d) : feedback[i].action = log[d].action
  BY DEF SavedRecordIsStored
<1>1. IsFiniteSet(Of(d))
  <2>1. DOMAIN reviews = 1..Len(reviews) /\ Len(reviews) \in Int /\ Of(d) \in SUBSET DOMAIN reviews
    BY DEF DeskInv, DeskTyped, Of
  <2> QED
    BY <2>1, FS_Interval, FS_Subset
<1>2. PICK k : Of(d) = {k}
  BY <1>1, FS_Singleton
<1>3. log[d] # NoRecord
  BY DEF NoRecord
<1>4. reviews[k].action = log[d].action /\ requests[reviews[k].request].stage = "done"
  BY <1>2, <1>3 DEF DeskInv, LogIsOfReviews, LogIsOf
<1>5. k \in DOMAIN reviews /\ reviews[k].decision = d
  BY <1>2 DEF Of
<1> QED
  BY <1>4, <1>5, Stored DEF DeskInv, FeedbackOf

\* Of two reviews one of which came after the other was answered, the later is the one
\* that the server shows.
LEMMA LastIsShown == DeskInv => LatestIsLast
<1> SUFFICES ASSUME DeskInv, NEW d \in Decisions, NEW i \in LatestFeedback(d), NEW j \in FeedbackOf(d),
                    NEW k \in Of(d), NEW l \in Of(d), reviews[k].request = feedback[i].request,
                    reviews[l].request = feedback[j].request, k \in reviews[l].after
             PROVE  store = "dynamodb" /\ feedback[i].at = feedback[j].at
  BY DEF LatestIsLast
<1>1. l \in DOMAIN reviews /\ i \in DOMAIN feedback /\ j \in DOMAIN feedback
  BY DEF Of, LatestFeedback, FeedbackOf
<1>2. /\ feedback[i].at = requests[feedback[i].request].at /\ feedback[j].at = requests[feedback[j].request].at
      /\ requests[feedback[j].request].stage = "done" /\ feedback[j].request \in DOMAIN requests
  BY <1>1 DEF DeskInv, FeedbackInv, FeedbackIsOfRequests
<1>3. requests[feedback[j].request].at # 0
  BY <1>2 DEF DeskInv, FeedbackInv, RequestsDated
<1>4. feedback[i].at <= feedback[j].at
  BY <1>1, <1>2, <1>3 DEF DeskInv, AnsweredFirst
<1>5. feedback[j].at <= feedback[i].at /\ (store = "sqlite" /\ feedback[j].at = feedback[i].at => j <= i)
  BY DEF LatestFeedback
<1>6. feedback[i].at \in Nat /\ feedback[j].at \in Nat /\ i \in Nat /\ j \in Nat
  <2>1. feedback[i] \in FeedbackRows /\ feedback[j] \in FeedbackRows
    BY <1>1 DEF DeskInv, FeedbackInv, RowsTyped
  <2> QED
    BY <1>1, <2>1 DEF DeskInv, FeedbackInv, RowsTyped, FeedbackRows
<1>7. feedback[i].at = feedback[j].at
  BY <1>4, <1>5, <1>6
<1>8. PICK m \in DOMAIN feedback : m < j /\ feedback[m].request = reviews[k].request
  BY <1>1 DEF DeskInv, AnsweredFirst
<1>9. m = i
  BY <1>1, <1>8 DEF DeskInv, FeedbackInv, FeedbackIsOfRequests
<1>10. store # "sqlite"
  BY <1>5, <1>6, <1>7, <1>8, <1>9
<1> QED
  BY <1>7, <1>10 DEF DeskInv, FeedbackInv, RowsTyped

\* What the forms send is stored: an approval bare, a rejection with what it needs.
LEMMA FormsAreStored == DeskBodiesStored
<1> SUFFICES ASSUME NEW b \in Bodies, DeskSends(b) PROVE Verdict(b) = "stored"
  BY DEF DeskBodiesStored
<1>1. CASE b = [action |-> "approve", reason |-> "none", text |-> "none", suggested |-> "none"]
  <2>1. b.action = "approve" /\ b.reason = "none" /\ b.text = "none" /\ b.suggested = "none"
    BY <1>1
  <2> QED
    BY <2>1 DEF Verdict, SuggestionAsked
<1>2. CASE /\ b.action = "reject" /\ b.reason \in Reasons("reject") /\ b.text \in {"none", "short"}
           /\ b.suggested = IF b.reason = "wrong_decision_type" THEN "valid" ELSE "none"
  <2>1. b.text # "too_long" /\ b.action # "other" /\ b.reason \in {"none"} \cup Reasons(b.action)
    BY <1>2
  <2>2. CASE b.reason = "wrong_decision_type"
    BY <1>2, <2>1, <2>2 DEF Verdict, SuggestionAsked
  <2>3. CASE b.reason # "wrong_decision_type"
    BY <1>2, <2>1, <2>3 DEF Verdict, SuggestionAsked
  <2> QED
    BY <2>2, <2>3
<1> QED
  BY <1>1, <1>2 DEF DeskSends

\* The types, as the desk states them.
LEMMA DeskTypesFollow == DeskInv => DeskTypeOK
<1> SUFFICES ASSUME DeskInv PROVE DeskTypeOK
  OBVIOUS
<1>1. now \in Nat
  BY FeedbackAssumption DEF DeskInv, FeedbackInv, RowsTyped, Times
<1>2. ASSUME NEW i \in DOMAIN requests
      PROVE  LET r == requests[i] IN
             /\ r.kind \in {"submit", "view"} /\ r.decision \in Decisions
             /\ r.action \in Actions \cup {"none"} /\ r.stage \in Stages
             /\ r.at \in 0..now /\ (r.at = 0 <=> r.stage = "sent") /\ r.recent \in BOOLEAN
  <2>1. requests[i] \in RequestRows
    BY DEF DeskInv, FeedbackInv, RowsTyped
  <2>2. requests[i].at <= now /\ (requests[i].at = 0 <=> requests[i].stage = "sent")
    BY DEF DeskInv, FeedbackInv, RequestsDated
  <2> QED
    BY <1>1, <2>1, <2>2 DEF RequestRows
<1>3. ASSUME NEW i \in DOMAIN feedback
      PROVE  feedback[i].request \in DOMAIN requests /\ feedback[i].action \in Actions /\ feedback[i].at \in Times
  <2>1. feedback[i] \in FeedbackRows
    BY DEF DeskInv, FeedbackInv, RowsTyped
  <2> DEFINE q == feedback[i].request
  <2>2. q \in DOMAIN requests /\ requests[q].stage = "done" /\ feedback[i].at = requests[q].at
    BY DEF DeskInv, FeedbackInv, FeedbackIsOfRequests
  <2>3. requests[q].at <= now /\ requests[q].at # 0
    BY <2>2 DEF DeskInv, FeedbackInv, RequestsDated
  <2>4. feedback[i].at \in Nat /\ feedback[i].action \in Actions
    BY <2>1 DEF FeedbackRows
  <2>5. now <= MaxTime /\ MaxTime \in Nat
    BY FeedbackAssumption DEF DeskInv, FeedbackInv, RowsTyped, Times
  <2> QED
    BY <1>1, <2>2, <2>3, <2>4, <2>5 DEF Times
<1>4. ASSUME NEW i \in DOMAIN viewLog
      PROVE  viewLog[i].decision \in Decisions /\ viewLog[i].at \in Times /\ viewLog[i].put \in viewLog[i].at..now
  <2>1. viewLog[i] \in ViewRows
    BY DEF DeskInv, FeedbackInv, RowsTyped
  <2>2. viewLog[i].at \in 1..viewLog[i].put /\ viewLog[i].put <= now
    BY DEF DeskInv, FeedbackInv, ViewsAreApart
  <2>3. now <= MaxTime /\ MaxTime \in Nat
    BY FeedbackAssumption DEF DeskInv, FeedbackInv, RowsTyped, Times
  <2> QED
    BY <1>1, <2>1, <2>2, <2>3 DEF ViewRows, Times
<1>5. FeedbackTypeOK
  BY <1>2, <1>3, <1>4 DEF FeedbackTypeOK, DeskInv, FeedbackInv, RowsTyped
<1>6. ASSUME NEW k \in DOMAIN reviews
      PROVE  LET r == reviews[k] IN
             /\ requests[r.request].kind = "submit"
             /\ r.page \in {"waiting", "answered", "failed", "left"}
             /\ r.undoable \in BOOLEAN /\ r.undone \in BOOLEAN /\ r.origin \in Origins
  <2>1. reviews[k] \in ReviewRows
    BY DEF DeskInv, DeskTyped
  <2> QED
    BY <2>1 DEF ReviewRows, DeskInv, ReviewsAreSent
<1>7. ASSUME NEW d \in Decisions
      PROVE  /\ log[d] = NoRecord \/ (log[d].source \in {"local", "api"} /\ log[d].action \in Actions)
             /\ known[d] \in Actions \cup {"none"}
  <2>1. log[d] \in LogRecords /\ known[d] \in Actions \cup {"none"}
    BY DEF DeskInv, DeskTyped
  <2> QED
    BY <2>1 DEF LogRecords
<1> QED
  BY <1>5, <1>6, <1>7 DEF DeskTypeOK, DeskInv, DeskTyped

\* The desk agrees with the server: for every number of decisions, reviews and views,
\* every window and every order of posts, answers, undos, failures and reloads.
THEOREM DeskAlwaysAgrees == DeskSpec => []DeskAgrees
<1>1. DeskInv => DeskAgrees
  BY DeskTypesFollow, FormsAreStored, ShownWhilePending, SavedIsStored, LastIsShown
  DEF DeskAgrees, DeskInv, FeedbackInv, ViewsAreApart
<1>2. DeskInv /\ [DeskNext]_<<feedbackVars, deskVars>> => DeskInv'
  BY DeskStepKeeps
<1> QED
  BY InitDesk, <1>1, <1>2, PTL DEF DeskSpec

--------------------------------------------------------------------------------
\* The log.
Sources == {"none", "local", "api", "legacy"}
Browser ==
  [saved : [Ranked -> Sources], key : BOOLEAN, legacy : SUBSET Ranked, ids : SUBSET Ranked,
   persist : BOOLEAN, migrated : BOOLEAN]

\* A log that was never written is empty, and the log of the release before is
\* gone once this one is written or it was migrated.
Sound(b) ==
  /\ b \in Browser
  /\ b.key => b.legacy = {}
  /\ ~b.key => Ids(b.saved) = {}
  /\ b.migrated => b.legacy = {}

\* The memory beside a log that is kept holds nothing that the log does not.
MemoryIsKept(b) == b.persist => b.ids \subseteq Ids(b.saved)

\* What a page shows that has just been rendered.
ShowsLog(p, b, told) ==
  /\ p.name \in {"attention", "overview", "decisions"} /\ p.filter \in Filters
  /\ p.rows \subseteq Ranked /\ p.count \in 0..Cardinality(Ranked)
  /\ p.name = "attention" /\ b.persist => p.rows = Ranked \ (Ids(b.saved) \cup told)
  /\ p.name = "decisions" /\ p.filter = "pending" => p.rows \cap Ids(b.saved) = {}
  /\ p.name = "decisions" /\ p.filter = "session" => Ids(b.saved) \subseteq p.rows
  /\ p.name = "overview" => p.count = Cardinality(Ids(b.saved))

\* Toasts carry the number of a write that was made.
CountsTypeOK ==
  /\ counts \in [writes : 0..MaxWrites, loads : Nat, before : Nat]
  /\ answered \in [posted : SUBSET Ranked, known : SUBSET Ranked]
  /\ \A d \in Ranked : toasts[d].undo <= counts.writes /\ toasts[d].posting <= counts.writes

\* Nothing is done before the first page is loaded, which migrates the log.
Opened ==
  \/ browser.migrated /\ counts.loads # 0
  \/ /\ counts.loads = 0 /\ browser.ids = {} /\ page.name = "overview"
     /\ \A d \in Ranked : toasts[d] = Quiet

\* The inductive invariant of the review log.
LogInv ==
  /\ LogIsShown /\ CountsTypeOK /\ Opened
  /\ Sound(browser) /\ MemoryIsKept(browser)
-------------------------------------------------------------------------------
\* A set of decisions is counted by a number of at most all of them.
LEMMA Counting == \A S \in SUBSET Ranked : Cardinality(S) \in 0..Cardinality(Ranked)
<1> SUFFICES ASSUME NEW S \in SUBSET Ranked PROVE Cardinality(S) \in 0..Cardinality(Ranked)
  OBVIOUS
<1>1. IsFiniteSet(Ranked)
  BY ReviewLogAssumption
<1>2. Cardinality(Ranked) \in Nat
  BY <1>1, FS_CardinalityType
<1>3. IsFiniteSet(S) /\ Cardinality(S) <= Cardinality(Ranked)
  BY <1>1, FS_Subset
<1>4. Cardinality(S) \in Nat
  BY <1>3, FS_CardinalityType
<1> QED
  BY <1>2, <1>3, <1>4

\* A log is kept as it is to be, or from then on nothing is.
LEMMA Persisting ==
    ASSUME NEW b \in Browser, NEW records \in [Ranked -> Sources], NEW ok \in BOOLEAN
    PROVE  LET p == Persisted(b, records, ok) IN
           /\ p \in Browser
           /\ p.ids = b.ids /\ p.legacy = b.legacy /\ p.migrated = b.migrated
           /\ p.persist => b.persist /\ p.key /\ p.saved = records
           /\ ~p.persist => p.key = b.key /\ p.saved = b.saved
<1>1. CASE ~b.persist
  BY <1>1 DEF Persisted, Browser
<1>2. CASE b.persist /\ ok
  BY <1>2 DEF Persisted, Browser
<1>3. CASE b.persist /\ ~ok
  BY <1>3 DEF Persisted, Browser
<1> QED
  BY <1>1, <1>2, <1>3 DEF Browser

\* What is kept under either key survives the migration, as long as it can be written.
LEMMA Migrating ==
    ASSUME NEW b, Sound(b), NEW ok \in BOOLEAN
    PROVE  LET m == Migrated(b, ok) IN
           /\ Sound(m) /\ m.migrated /\ m.legacy = {} /\ m.ids = b.ids
           /\ m.persist => b.persist /\ Ids(m.saved) = Ids(b.saved) \cup b.legacy
           /\ b.migrated => m = b
<1> DEFINE old == [d \in Ranked |-> IF d \in b.legacy THEN "legacy" ELSE "none"]
           p == Persisted(b, old, ok)
<1>1. b \in Browser /\ b.legacy \subseteq Ranked
  BY DEF Sound, Browser
<1>2. CASE b.migrated \/ b.key \/ b.legacy = {}
  <2>1. b.legacy = {}
    BY <1>2 DEF Sound
  <2>2. Migrated(b, ok) = [b EXCEPT !.migrated = TRUE]
    BY <1>2 DEF Migrated
  <2> DEFINE m == [b EXCEPT !.migrated = TRUE]
  <2>3. /\ m \in Browser /\ m.migrated /\ m.legacy = b.legacy /\ m.ids = b.ids
        /\ m.saved = b.saved /\ m.key = b.key /\ m.persist = b.persist
    BY <1>1 DEF Browser
  <2>4. b.migrated => m = b
    BY <1>1 DEF Browser
  <2> HIDE DEF m
  <2>5. Sound(m) /\ Ids(m.saved) = Ids(b.saved) \cup b.legacy
    BY <2>1, <2>3 DEF Sound
  <2>6. Migrated(b, ok) = m
    BY <2>2 DEF m
  <2> QED
    BY <2>1, <2>3, <2>4, <2>5, <2>6
<1>3. CASE ~(b.migrated \/ b.key \/ b.legacy = {})
  <2>1. Migrated(b, ok) = [p EXCEPT !.migrated = TRUE, !.legacy = {}]
    BY <1>3 DEF Migrated
  <2>2. old \in [Ranked -> Sources] /\ Ids(old) = b.legacy
    BY <1>1 DEF Sources, Ids
  <2> HIDE DEF old
  <2>3. /\ p \in Browser
        /\ p.ids = b.ids /\ p.legacy = b.legacy /\ p.migrated = b.migrated
        /\ p.persist => b.persist /\ p.key /\ p.saved = old
        /\ ~p.persist => p.key = b.key /\ p.saved = b.saved
    BY <1>1, <2>2, Persisting
  <2>4. Ids(b.saved) = {} /\ ~b.key
    BY <1>3 DEF Sound
  <2> HIDE DEF p
  <2>5. /\ Migrated(b, ok) \in Browser
        /\ Migrated(b, ok).migrated /\ Migrated(b, ok).legacy = {} /\ Migrated(b, ok).ids = b.ids
        /\ Migrated(b, ok).saved = p.saved /\ Migrated(b, ok).key = p.key
        /\ Migrated(b, ok).persist = p.persist
    BY <2>1, <2>3 DEF Browser
  <2> QED
    BY <1>3, <2>2, <2>3, <2>4, <2>5 DEF Sound
<1> QED
  BY <1>2, <1>3

\* Who reads the log has it migrated, and the ids in memory become those kept.
LEMMA Reading ==
    ASSUME NEW b, Sound(b), NEW ok \in BOOLEAN
    PROVE  LET r == ReadRecords(b, ok) IN
           /\ Sound(r) /\ r.migrated /\ r.legacy = {} /\ r.ids = Ids(r.saved)
           /\ r.persist => b.persist /\ Ids(r.saved) = Ids(b.saved) \cup b.legacy
           /\ b.migrated => r.saved = b.saved /\ r.persist = b.persist
<1> DEFINE m == Migrated(b, ok)
<1>1. /\ Sound(m) /\ m.migrated /\ m.legacy = {}
      /\ m.persist => b.persist /\ Ids(m.saved) = Ids(b.saved) \cup b.legacy
      /\ b.migrated => m = b
  BY Migrating
<1>2. ReadRecords(b, ok) = [m EXCEPT !.ids = Ids(m.saved)]
  BY DEF ReadRecords
<1> HIDE DEF m
<1>3. Ids(m.saved) \subseteq Ranked
  BY DEF Ids
<1> QED
  BY <1>1, <1>2, <1>3 DEF Sound, Browser

\* Once the log was migrated, a record that is written is kept, or nothing is from then on.
LEMMA Writing ==
    ASSUME NEW b, Sound(b), b.migrated, NEW d \in Ranked, NEW source \in Sources, NEW ok \in BOOLEAN
    PROVE  LET r == ReadRecords(b, ok)
               w == WriteRecords(r, [r.saved EXCEPT ![d] = source], ok)
           IN  /\ Sound(w) /\ w.migrated
               /\ w.persist => b.persist /\ w.saved = [b.saved EXCEPT ![d] = source]
               /\ w.ids \subseteq Ids(b.saved) \cup (IF source = "none" THEN {} ELSE {d})
<1> DEFINE r == ReadRecords(b, ok)
           records == [r.saved EXCEPT ![d] = source]
           before == [r EXCEPT !.ids = IF Subscribed THEN Ids(r.saved) ELSE Ids(records)]
           w == Persisted(before, records, ok)
<1>1. /\ Sound(r) /\ r.migrated /\ r.legacy = {} /\ r.saved = b.saved /\ r.persist = b.persist
  BY Reading
<1>2. w = WriteRecords(r, records, ok)
  BY DEF WriteRecords
<1>3. /\ b.saved \in [Ranked -> Sources] /\ records \in [Ranked -> Sources]
      /\ records = [b.saved EXCEPT ![d] = source]
  BY <1>1 DEF Sound, Browser
<1>4. /\ Ids(r.saved) = Ids(b.saved)
      /\ Ids(records) \subseteq Ids(b.saved) \cup (IF source = "none" THEN {} ELSE {d})
      /\ Ids(r.saved) \subseteq Ranked /\ Ids(records) \subseteq Ranked
  BY <1>1, <1>3 DEF Ids
<1> HIDE DEF r, records
<1>5. /\ before \in Browser /\ before.key = r.key /\ before.legacy = {} /\ before.migrated
      /\ before.saved = b.saved /\ before.persist = b.persist
      /\ before.ids \subseteq Ids(b.saved) \cup (IF source = "none" THEN {} ELSE {d})
  BY <1>1, <1>4 DEF Sound, Browser
<1> HIDE DEF before
<1>6. before \in Browser /\ records \in [Ranked -> Sources]
  BY <1>3, <1>5
<1>7. /\ w \in Browser
      /\ w.ids = before.ids /\ w.legacy = before.legacy /\ w.migrated = before.migrated
      /\ w.persist => before.persist /\ w.key /\ w.saved = records
      /\ ~w.persist => w.key = before.key /\ w.saved = before.saved
  BY <1>6, Persisting
<1> HIDE DEF w
<1>8. Sound(w) /\ w.migrated
  BY <1>1, <1>5, <1>7 DEF Sound
<1>9. w.persist => b.persist /\ w.saved = [b.saved EXCEPT ![d] = source]
  BY <1>3, <1>5, <1>7
<1>10. w.ids \subseteq Ids(b.saved) \cup (IF source = "none" THEN {} ELSE {d})
  BY <1>5, <1>7
<1> QED
  BY <1>2, <1>8, <1>9, <1>10 DEF r, records

\* A review that is recorded is in the log and in memory, one that is undone in neither.
LEMMA Recording ==
    ASSUME NEW b, Sound(b), b.migrated, NEW d \in Ranked, NEW source \in {"local", "api"},
           NEW ok \in BOOLEAN
    PROVE  LET w == RecordReview(b, d, source, ok) IN
           /\ Sound(w) /\ w.migrated /\ MemoryIsKept(w)
           /\ w.persist => b.persist /\ Ids(w.saved) = Ids(b.saved) \cup {d}
<1> DEFINE r == ReadRecords(b, ok)
           w == WriteRecords(r, [r.saved EXCEPT ![d] = source], ok)
           new == [w EXCEPT !.ids = @ \cup {d}]
<1>1. /\ Sound(w) /\ w.migrated
      /\ w.persist => b.persist /\ w.saved = [b.saved EXCEPT ![d] = source]
      /\ w.ids \subseteq Ids(b.saved) \cup {d}
  <2>1. source \in Sources /\ source # "none"
    BY DEF Sources
  <2> QED
    BY <2>1, Writing
<1>2. RecordReview(b, d, source, ok) = new
  BY DEF RecordReview
<1> HIDE DEF r, w
<1>3. b.saved \in [Ranked -> Sources]
  BY DEF Sound, Browser
<1>4. w.persist => Ids(w.saved) = Ids(b.saved) \cup {d}
  BY <1>1, <1>3 DEF Ids
<1>5. /\ new \in Browser /\ new.saved = w.saved /\ new.persist = w.persist /\ new.key = w.key
      /\ new.legacy = w.legacy /\ new.migrated = w.migrated /\ new.ids = w.ids \cup {d}
  BY <1>1 DEF Sound, Browser
<1> HIDE DEF new
<1>6. Sound(new)
  BY <1>1, <1>5 DEF Sound
<1>7. MemoryIsKept(new)
  BY <1>1, <1>4, <1>5 DEF MemoryIsKept
<1> QED
  BY <1>1, <1>2, <1>4, <1>5, <1>6, <1>7

\* A review that is undone leaves a sound log, and memory beside it that holds no more.
LEMMA Undoing ==
    ASSUME NEW b, Sound(b), b.migrated, NEW d \in Ranked, NEW ok \in BOOLEAN
    PROVE  LET w == UndoReviewOf(b, d, ok) IN
           /\ Sound(w) /\ w.migrated /\ MemoryIsKept(w)
           /\ w.persist => b.persist /\ Ids(w.saved) = Ids(b.saved) \ {d}
<1> DEFINE r == ReadRecords(b, ok)
           w == WriteRecords(r, [r.saved EXCEPT ![d] = "none"], ok)
           new == [w EXCEPT !.ids = @ \ {d}]
<1>1. /\ Sound(w) /\ w.migrated
      /\ w.persist => b.persist /\ w.saved = [b.saved EXCEPT ![d] = "none"]
      /\ w.ids \subseteq Ids(b.saved)
  <2>1. "none" \in Sources
    BY DEF Sources
  <2> QED
    BY <2>1, Writing
<1>2. UndoReviewOf(b, d, ok) = new
  BY DEF UndoReviewOf
<1> HIDE DEF r, w
<1>3. b.saved \in [Ranked -> Sources]
  BY DEF Sound, Browser
<1>4. w.persist => Ids(w.saved) = Ids(b.saved) \ {d}
  BY <1>1, <1>3 DEF Ids
<1>5. /\ new \in Browser /\ new.saved = w.saved /\ new.persist = w.persist /\ new.key = w.key
      /\ new.legacy = w.legacy /\ new.migrated = w.migrated /\ new.ids = w.ids \ {d}
  BY <1>1 DEF Sound, Browser
<1> HIDE DEF new
<1>6. Sound(new)
  BY <1>1, <1>5 DEF Sound
<1>7. MemoryIsKept(new)
  BY <1>1, <1>4, <1>5 DEF MemoryIsKept
<1> QED
  BY <1>1, <1>2, <1>4, <1>5, <1>6, <1>7

\* An answer changes the record of a review that still stands, and brings none back.
LEMMA Answering ==
    ASSUME NEW b, Sound(b), b.migrated, NEW d \in Ranked, NEW ok \in BOOLEAN
    PROVE  LET w == UpdateReviewFromApi(b, d, ok) IN
           /\ Sound(w) /\ w.migrated /\ MemoryIsKept(w)
           /\ w.persist => b.persist /\ Ids(w.saved) = Ids(b.saved)
<1> DEFINE r == ReadRecords(b, ok)
<1>1. /\ Sound(r) /\ r.migrated /\ r.ids = Ids(r.saved)
      /\ r.saved = b.saved /\ r.persist = b.persist
  BY Reading
<1>2. CASE r.saved[d] = "none"
  <2>1. UpdateReviewFromApi(b, d, ok) = r
    BY <1>2 DEF UpdateReviewFromApi
  <2> QED
    BY <1>1, <2>1 DEF MemoryIsKept
<1>3. CASE r.saved[d] # "none"
  <2>1. UpdateReviewFromApi(b, d, ok) = RecordReview(b, d, "api", ok)
    BY <1>3 DEF UpdateReviewFromApi
  <2>2. Ids(b.saved) \cup {d} = Ids(b.saved)
    BY <1>1, <1>3 DEF Ids
  <2> DEFINE w == RecordReview(b, d, "api", ok)
  <2>3. /\ Sound(w) /\ w.migrated /\ MemoryIsKept(w)
        /\ w.persist => b.persist /\ Ids(w.saved) = Ids(b.saved) \cup {d}
    BY Recording, "api" \in {"local", "api"}
  <2> HIDE DEF w
  <2>4. UpdateReviewFromApi(b, d, ok) = w
    BY <2>1 DEF w
  <2> QED
    BY <2>2, <2>3, <2>4
<1> QED
  BY <1>2, <1>3

\* A page that is rendered, whichever it is, shows the log as it is kept.
LEMMA Rendering ==
    ASSUME NEW b, Sound(b), b.ids = {} \/ (b.migrated /\ MemoryIsKept(b)),
           NEW told \in SUBSET Ranked, NEW ok \in BOOLEAN, NEW filter \in Filters,
           NEW name \in {"attention", "overview", "decisions"},
           Rendered(name, filter, b, ok, told)
    PROVE  /\ Sound(browser') /\ MemoryIsKept(browser') /\ browser'.migrated
           /\ browser'.persist => b.persist /\ Ids(browser'.saved) = Ids(b.saved) \cup b.legacy
           /\ browser'.legacy = {}
           /\ b.migrated => Ids(browser'.saved) = Ids(b.saved)
           /\ page'.name = name /\ ShowsLog(page', browser', told)
<1> DEFINE kept == Ids(browser'.saved)
<1>1. browser' = ReadRecords(b, ok)
  BY DEF Rendered
<1>2. /\ Sound(browser') /\ browser'.migrated /\ browser'.legacy = {} /\ browser'.ids = kept
      /\ browser'.persist => b.persist /\ kept = Ids(b.saved) \cup b.legacy
      /\ b.migrated => browser'.saved = b.saved /\ browser'.persist = b.persist
  BY <1>1, Reading
<1>3. kept \subseteq Ranked /\ Cardinality(kept) \in 0..Cardinality(Ranked)
  <2>1. kept \subseteq Ranked
    BY DEF Ids
  <2> QED
    BY <2>1, Counting
<1>4. 0 \in 0..Cardinality(Ranked)
  <2>1. {} \subseteq Ranked /\ Cardinality({}) = 0
    BY FS_EmptySet
  <2> QED
    BY <2>1, Counting
<1>5. ASSUME name = "attention", browser'.persist
      PROVE  Queue(b, ok, told) = Ranked \ (kept \cup told)
  <2>1. ASSUME NEW d \in Ranked, d \notin kept PROVE d \notin b.ids
    BY <1>2, <1>5, <2>1 DEF MemoryIsKept
  <2> QED
    BY <1>1, <2>1 DEF Queue
<1>6. Queue(b, ok, told) \subseteq Ranked
  BY DEF Queue
<1>7. page' = CASE name = "attention" -> Page(name, "all", Queue(b, ok, told), Cardinality(kept))
                [] name = "overview" -> Page(name, "all", {}, Cardinality(kept))
                [] name = "decisions" -> Page(name, filter, StreamRows(filter, kept, told), 0)
  BY <1>1, <1>2 DEF Rendered
<1>8. page'.name = name /\ ShowsLog(page', browser', told)
  <2>1. CASE name = "attention"
    <3>1. page' = Page("attention", "all", Queue(b, ok, told), Cardinality(kept))
      BY <1>7, <2>1
    <3> QED
      BY <1>3, <1>5, <1>6, <2>1, <3>1 DEF Page, ShowsLog, Filters
  <2>2. CASE name = "overview"
    <3>1. page' = Page("overview", "all", {}, Cardinality(kept))
      BY <1>7, <2>2
    <3> QED
      BY <1>3, <2>2, <3>1 DEF Page, ShowsLog, Filters
  <2>3. CASE name = "decisions"
    <3>1. page' = Page("decisions", filter, StreamRows(filter, kept, told), 0)
      BY <1>7, <2>3
    <3>2. /\ StreamRows(filter, kept, told) \subseteq Ranked
          /\ filter = "pending" => StreamRows(filter, kept, told) \cap kept = {}
          /\ filter = "session" => kept \subseteq StreamRows(filter, kept, told)
      BY <1>3 DEF StreamRows, Filters
    <3> QED
      BY <1>4, <2>3, <3>1, <3>2 DEF Page, ShowsLog
  <2> QED
    BY <2>1, <2>2, <2>3
<1>9. MemoryIsKept(browser')
  BY <1>2 DEF MemoryIsKept
<1> QED
  BY <1>2, <1>8, <1>9

\* What the invariant says of a page that was loaded, before a change of the log.
LEMMA Loaded ==
    ASSUME LogInv, counts.loads # 0
    PROVE  /\ Sound(browser) /\ MemoryIsKept(browser) /\ browser.migrated /\ browser.legacy = {}
           /\ browser.persist => Ids(browser.saved) = done
           /\ answered.known \in SUBSET Ranked
           /\ page.name \in {"attention", "overview", "decisions"} /\ page.filter \in Filters
<1>1. Sound(browser) /\ browser.migrated
  BY DEF LogInv, Opened
<1>2. browser.legacy = {}
  BY <1>1 DEF Sound
<1> QED
  BY <1>1, <1>2 DEF LogInv, LogIsShown, LogRemembers, CountsTypeOK, RlTypeOK

\* The types are kept by a step that keeps those of what it changes.
LEMMA TypesKept ==
    ASSUME Sound(browser'), NEW told, ShowsLog(page', browser', told) \/ (LogInv /\ page' = page),
           toasts' \in [Ranked -> [undo : 0..MaxWrites, posting : 0..MaxWrites]],
           answered'.known \subseteq answered'.posted, done' \subseteq Ranked
    PROVE  RlTypeOK'
<1>1. /\ browser'.saved \in [Ranked -> Sources] /\ browser'.ids \subseteq Ranked
      /\ browser'.legacy \subseteq Ranked /\ (browser'.key => browser'.legacy = {})
  BY DEF Sound, Browser
<1>2. /\ page'.name \in {"attention", "overview", "decisions"} /\ page'.filter \in Filters
      /\ page'.rows \subseteq Ranked /\ page'.count \in 0..Cardinality(Ranked)
  BY DEF ShowsLog, LogInv, LogIsShown, RlTypeOK
<1> QED
  BY <1>1, <1>2 DEF RlTypeOK, Sources

\* A page that shows the log shows what was done, if that is what the log holds.
LEMMA Shown ==
    ASSUME Sound(browser'), MemoryIsKept(browser'), browser'.migrated, counts'.loads # 0,
           ShowsLog(page', browser', answered.known'), RlTypeOK', CountsTypeOK',
           browser'.persist => Ids(browser'.saved) = done'
    PROVE  LogInv'
<1>1. browser'.legacy = {}
  BY DEF Sound
<1>2. LogRemembers' /\ QueueAgrees' /\ ListHidesOnlyUndone' /\ CardBehindByOne'
  BY <1>1 DEF LogRemembers, QueueAgrees, ListHidesOnlyUndone, CardBehindByOne, ShowsLog
<1>3. Opened'
  BY DEF Opened
<1>4. Sound(browser)' /\ MemoryIsKept(browser)'
  BY DEF Sound, MemoryIsKept, Browser, Ids
<1> QED
  BY <1>2, <1>3, <1>4 DEF LogInv, LogIsShown

\* The same of a page without a filter, in a browser whose memory is kept.
LEMMA RenderingAll ==
    ASSUME NEW b, Sound(b), b.migrated, MemoryIsKept(b), NEW seen \in SUBSET Ranked, NEW ok \in BOOLEAN,
           NEW name \in {"attention", "overview", "decisions"}, Rendered(name, "all", b, ok, seen)
    PROVE  /\ Sound(browser') /\ MemoryIsKept(browser') /\ browser'.migrated
           /\ browser'.persist => b.persist
           /\ Ids(browser'.saved) = Ids(b.saved)
           /\ ShowsLog(page', browser', seen)
<1>1. "all" \in Filters
  BY DEF Filters
<1> QED
  BY <1>1, Rendering

\* A change of the log, known to those who show it or not, leaves each page behind the
\* log in its own way: the queue not at all, the list by what was undone, the card
\* by this change.
LEMMA Changing ==
    ASSUME LogInv, counts.loads # 0, NEW b, Sound(b), b.migrated, MemoryIsKept(b),
           b.persist => browser.persist /\ Ids(b.saved) = done',
           NEW told \in BOOLEAN, RenderedAfter(b, told),
           page.name = "decisions" => done' \subseteq done,
           IF told THEN counts'.before = Cardinality(Ids(browser.saved))
                   ELSE counts'.before = counts.before /\ (b.persist => done' = done),
           counts'.loads = counts.loads, answered'.known = answered.known,
           toasts' \in [Ranked -> [undo : 0..MaxWrites, posting : 0..MaxWrites]],
           answered'.known \subseteq answered'.posted, done' \subseteq Ranked, CountsTypeOK'
    PROVE  LogInv'
<1> DEFINE again == \/ page.name = "attention"
                    \/ page.name = "overview" /\ told /\ Cardinality(Ids(browser.saved)) # page.count
<1>1. CASE again
  <2>1. PICK ok \in BOOLEAN : Rendered(page.name, "all", b, ok, answered.known)
    BY <1>1, Zenon DEF RenderedAfter
  <2>2. /\ "all" \in Filters
        /\ answered.known \in SUBSET Ranked
        /\ page.name \in {"attention", "overview", "decisions"}
    BY Loaded DEF Filters
  <2>3. /\ Sound(browser') /\ MemoryIsKept(browser') /\ browser'.migrated
        /\ browser'.persist => b.persist
        /\ Ids(browser'.saved) = Ids(b.saved)
        /\ ShowsLog(page', browser', answered.known)
    <3>1. PICK seen \in SUBSET Ranked : seen = answered.known
      BY <2>2
    <3>2. PICK name \in {"attention", "overview", "decisions"} : name = page.name
      BY <2>2
    <3>3. Rendered(name, "all", b, ok, seen)
      BY <2>1, <3>1, <3>2
    <3>4. /\ Sound(browser') /\ MemoryIsKept(browser') /\ browser'.migrated
          /\ browser'.persist => b.persist
          /\ Ids(browser'.saved) = Ids(b.saved)
          /\ ShowsLog(page', browser', seen)
      BY <3>3, RenderingAll
    <3> QED
      BY <3>1, <3>4
  <2>4. browser'.persist => Ids(browser'.saved) = done'
    BY <2>3
  <2>5. RlTypeOK'
    BY <2>3, TypesKept
  <2> QED
    BY <2>3, <2>4, <2>5, Shown
<1>2. CASE ~again
  <2>1. browser' = b /\ page' = page /\ page.name # "attention"
    BY <1>2 DEF RenderedAfter
  <2>2. RlTypeOK'
    BY <2>1, TypesKept
  <2>3. LogRemembers' /\ Sound(browser)' /\ MemoryIsKept(browser)' /\ Opened'
    <3>1. b.legacy = {}
      BY DEF Sound
    <3> QED
      BY <2>1, <3>1 DEF LogRemembers, Sound, MemoryIsKept, Browser, Ids, Opened
  <2>4. QueueAgrees'
    BY <2>1 DEF QueueAgrees
  <2>5. ListHidesOnlyUndone'
    BY <2>1 DEF LogInv, LogIsShown, ListHidesOnlyUndone
  <2>6. CardBehindByOne'
    <3> SUFFICES ASSUME b.persist, page.name = "overview"
                 PROVE  page.count \in {Cardinality(Ids(b.saved)), counts'.before}
      BY <2>1 DEF CardBehindByOne
    <3>1. CASE told
      BY <1>2, <3>1
    <3>2. CASE ~told
      <4>1. Ids(b.saved) = Ids(browser.saved)
        BY <3>2, Loaded
      <4>2. counts.loads > 0
        BY DEF LogInv, CountsTypeOK
      <4> QED
        BY <3>2, <4>1, <4>2 DEF LogInv, LogIsShown, CardBehindByOne
    <3> QED
      BY <3>1, <3>2
  <2> QED
    BY <2>2, <2>3, <2>4, <2>5, <2>6 DEF LogInv, LogIsShown
<1> QED
  BY <1>1, <1>2

\* The first state satisfies the invariant.
LEMMA InitLog == LogInit => LogInv
<1> SUFFICES ASSUME LogInit PROVE LogInv
  OBVIOUS
<1>1. PICK old \in SUBSET Ranked :
         /\ browser = [saved |-> Nothing, key |-> FALSE, legacy |-> old, ids |-> {}, persist |-> TRUE,
                       migrated |-> FALSE]
         /\ done = old
  BY DEF LogInit
<1>2. /\ page = [name |-> "overview", filter |-> "all", rows |-> {}, count |-> 0]
      /\ toasts = [d \in Ranked |-> [undo |-> 0, posting |-> 0]]
      /\ answered = [posted |-> {}, known |-> {}]
      /\ counts = [writes |-> 0, loads |-> 0, before |-> 0]
      /\ MaxWrites \in Nat
  BY ReviewLogAssumption DEF LogInit, Page, Quiet
<1>3. Nothing \in [Ranked -> Sources] /\ Ids(Nothing) = {}
  BY DEF Nothing, Sources, Ids
<1>4. Sound(browser) /\ MemoryIsKept(browser) /\ LogRemembers
  BY <1>1, <1>3 DEF Sound, Browser, MemoryIsKept, LogRemembers
<1>5. 0 \in 0..Cardinality(Ranked)
  <2>1. {} \subseteq Ranked /\ Cardinality({}) = 0
    BY FS_EmptySet
  <2> QED
    BY <2>1, Counting
<1>6. RlTypeOK
  BY <1>1, <1>2, <1>3, <1>5 DEF RlTypeOK, Filters, Sources
<1>7. QueueAgrees /\ ListHidesOnlyUndone /\ CardBehindByOne
  BY <1>2 DEF QueueAgrees, ListHidesOnlyUndone, CardBehindByOne
<1>8. CountsTypeOK /\ Opened
  BY <1>1, <1>2 DEF CountsTypeOK, Opened, Quiet
<1> QED
  BY <1>4, <1>6, <1>7, <1>8 DEF LogInv, LogIsShown

\* A page that is chosen, or known what the server knows, shows the log.
LEMMA VisitKeeps ==
    ASSUME LogInv, counts.loads # 0,
           NEW name \in {"attention", "overview", "decisions"}, NEW filter \in Filters,
           NEW told \in SUBSET Ranked, NEW ok \in BOOLEAN, Rendered(name, filter, browser, ok, told),
           UNCHANGED <<toasts, done, counts>>,
           answered' = [answered EXCEPT !.known = told], told \subseteq answered.posted
    PROVE  LogInv'
<1>1. Sound(browser) /\ MemoryIsKept(browser) /\ browser.migrated
      /\ (browser.persist => Ids(browser.saved) = done)
  BY Loaded
<1>2. /\ Sound(browser') /\ MemoryIsKept(browser') /\ browser'.migrated
      /\ browser'.persist => browser.persist
      /\ Ids(browser'.saved) = Ids(browser.saved)
      /\ ShowsLog(page', browser', told)
  BY <1>1, Rendering
<1>3. /\ answered \in [posted : SUBSET Ranked, known : SUBSET Ranked]
      /\ answered' \in [posted : SUBSET Ranked, known : SUBSET Ranked]
      /\ answered'.known = told /\ answered'.posted = answered.posted
  BY DEF LogInv, CountsTypeOK
<1>4. CountsTypeOK'
  BY <1>3 DEF LogInv, CountsTypeOK
<1>5. RlTypeOK'
  BY <1>2, <1>3, TypesKept DEF LogInv, LogIsShown, RlTypeOK
<1> QED
  BY <1>1, <1>2, <1>3, <1>4, <1>5, Shown

\* A page that is loaded shows the log; what was not kept is forgotten.
LEMMA LoadKeeps ==
    ASSUME LogInv, NEW name \in {"attention", "overview", "decisions"}, NEW ok \in BOOLEAN,
           Load(name, ok)
    PROVE  LogInv'
<1> DEFINE b == [browser EXCEPT !.ids = {}, !.persist = TRUE, !.migrated = FALSE]
<1>1. /\ Rendered(name, "all", b, ok, {})
      /\ counts' = [counts EXCEPT !.loads = @ + 1, !.before = Cardinality(Ids(browser'.saved))]
      /\ done' = IF browser.persist /\ ok THEN done ELSE Ids(browser'.saved) \cup browser'.legacy
      /\ toasts' = [d \in Ranked |-> Quiet]
      /\ answered' = [answered EXCEPT !.known = {}]
  BY DEF Load
<1>2. /\ b \in Browser /\ b.ids = {} /\ ~b.migrated
      /\ b.saved = browser.saved /\ b.key = browser.key /\ b.legacy = browser.legacy
  BY DEF LogInv, Sound, Browser
<1> HIDE DEF b
<1>3. Sound(b)
  BY <1>2 DEF LogInv, Sound
<1>4. /\ Sound(browser') /\ MemoryIsKept(browser') /\ browser'.migrated /\ browser'.legacy = {}
      /\ browser'.persist => Ids(browser'.saved) = Ids(b.saved) \cup b.legacy
      /\ ShowsLog(page', browser', {})
  BY <1>1, <1>2, <1>3, Rendering, "all" \in Filters, {} \in SUBSET Ranked DEF Filters
<1>5. browser'.persist => Ids(browser'.saved) = done'
  BY <1>1, <1>2, <1>4 DEF LogInv, LogIsShown, LogRemembers
<1>6. done' \subseteq Ranked
  BY <1>1, <1>4 DEF Ids, LogInv, LogIsShown, RlTypeOK
<1>7. answered' \in [posted : SUBSET Ranked, known : SUBSET Ranked] /\ answered'.known = {}
  BY <1>1 DEF LogInv, CountsTypeOK
<1>8. toasts' \in [Ranked -> [undo : 0..MaxWrites, posting : 0..MaxWrites]]
  BY <1>1, ReviewLogAssumption DEF Quiet
<1>9. /\ counts' \in [writes : 0..MaxWrites, loads : Nat, before : Nat] /\ counts'.loads # 0
      /\ counts'.writes >= 0
  <2>1. Cardinality(Ids(browser'.saved)) \in Nat
    BY Counting, Ids(browser'.saved) \subseteq Ranked DEF Ids
  <2>2. counts \in [writes : 0..MaxWrites, loads : Nat, before : Nat]
    BY DEF LogInv, CountsTypeOK
  <2>3. counts.loads \in Nat /\ counts.writes \in 0..MaxWrites
    BY <2>2
  <2>4. counts.loads + 1 \in Nat \ {0} /\ counts.writes >= 0
    BY <2>3, ReviewLogAssumption
  <2>5. counts' = [writes |-> counts.writes, loads |-> counts.loads + 1,
                   before |-> Cardinality(Ids(browser'.saved))]
    BY <1>1, <2>2
  <2> QED
    BY <2>1, <2>3, <2>4, <2>5
<1>10. CountsTypeOK'
  <2>1. \A d \in Ranked : toasts'[d].undo = 0 /\ toasts'[d].posting = 0
    BY <1>1 DEF Quiet
  <2> QED
    BY <1>7, <1>9, <2>1 DEF CountsTypeOK
<1>11. RlTypeOK'
  BY <1>4, <1>6, <1>7, <1>8, TypesKept
<1> QED
  BY <1>4, <1>5, <1>7, <1>9, <1>10, <1>11, Shown

\* What the invariant says of the counts and the toasts.
LEMMA Counts ==
    ASSUME LogInv
    PROVE  /\ counts \in [writes : 0..MaxWrites, loads : Nat, before : Nat]
           /\ answered \in [posted : SUBSET Ranked, known : SUBSET Ranked]
           /\ answered.known \subseteq answered.posted /\ done \subseteq Ranked
           /\ Cardinality(Ids(browser.saved)) \in Nat
           /\ toasts \in [Ranked -> [undo : 0..MaxWrites, posting : 0..MaxWrites]]
           /\ \A d \in Ranked : /\ toasts[d].undo \in Nat /\ toasts[d].undo <= counts.writes
                                /\ toasts[d].posting \in Nat /\ toasts[d].posting <= counts.writes
                                /\ toasts[d].undo > 0 \/ toasts[d].posting > 0 => counts.loads # 0
<1>1. Cardinality(Ids(browser.saved)) \in Nat
  BY Counting, Ids(browser.saved) \subseteq Ranked DEF Ids
<1>2. toasts \in [Ranked -> [undo : 0..MaxWrites, posting : 0..MaxWrites]]
  BY DEF LogInv, LogIsShown, RlTypeOK
<1>3. ASSUME NEW d \in Ranked, counts.loads = 0 PROVE toasts[d].undo = 0 /\ toasts[d].posting = 0
  BY <1>3 DEF LogInv, Opened, Quiet
<1> QED
  BY <1>1, <1>2, <1>3 DEF LogInv, LogIsShown, RlTypeOK, CountsTypeOK

\* A toast or a post that is done with leaves fewer of them.
LEMMA Dismissing ==
    ASSUME LogInv, NEW d \in Ranked, NEW undo \in 0..toasts[d].undo, NEW posting \in 0..toasts[d].posting,
           toasts' = [toasts EXCEPT ![d] = [undo |-> undo, posting |-> posting]],
           counts' = counts \/ counts' = [counts EXCEPT !.before = Cardinality(Ids(browser.saved))],
           answered' \in [posted : SUBSET Ranked, known : SUBSET Ranked]
    PROVE  /\ toasts' \in [Ranked -> [undo : 0..MaxWrites, posting : 0..MaxWrites]]
           /\ CountsTypeOK' /\ counts'.loads = counts.loads
<1>1. /\ counts.writes \in 0..MaxWrites /\ MaxWrites \in Nat /\ counts.writes \in Nat
      /\ toasts[d].undo \in Nat /\ toasts[d].undo <= counts.writes
      /\ toasts[d].posting \in Nat /\ toasts[d].posting <= counts.writes
  BY Counts, ReviewLogAssumption
<1>2. undo \in 0..MaxWrites /\ posting \in 0..MaxWrites /\ undo <= counts.writes /\ posting <= counts.writes
  BY <1>1
<1>3. toasts' \in [Ranked -> [undo : 0..MaxWrites, posting : 0..MaxWrites]]
  BY <1>2, Counts
<1>4. /\ counts' \in [writes : 0..MaxWrites, loads : Nat, before : Nat]
      /\ counts'.writes = counts.writes /\ counts'.loads = counts.loads
  BY Counts
<1>5. ASSUME NEW e \in Ranked
      PROVE  toasts'[e].undo <= counts.writes /\ toasts'[e].posting <= counts.writes
  BY <1>2, Counts
<1> QED
  BY <1>3, <1>4, <1>5 DEF CountsTypeOK

\* A review from the queue.
LEMMA LogReviewKeeps ==
    ASSUME LogInv, NEW d \in Ranked, NEW ok \in BOOLEAN, ReviewFromQueue(d, ok)
    PROVE  LogInv'
<1> DEFINE b == RecordReview(browser, d, "local", ok)
<1>1. /\ counts.writes < MaxWrites /\ page.name = "attention"
      /\ RenderedAfter(b, TRUE)
      /\ counts' = [counts EXCEPT !.writes = @ + 1, !.before = Cardinality(Ids(browser.saved))]
      /\ done' = done \cup {d}
      /\ toasts' = [toasts EXCEPT ![d] = [undo |-> @.undo + 1, posting |-> @.posting + 1]]
      /\ UNCHANGED answered
  BY DEF ReviewFromQueue
<1>2. counts.loads # 0
  BY <1>1 DEF LogInv, Opened
<1>3. /\ Sound(b) /\ b.migrated /\ MemoryIsKept(b)
      /\ b.persist => browser.persist /\ Ids(b.saved) = Ids(browser.saved) \cup {d}
  BY <1>2, Loaded, Recording, "local" \in {"local", "api"}
<1> HIDE DEF b
<1>4. b.persist => browser.persist /\ Ids(b.saved) = done'
  BY <1>1, <1>2, <1>3, Loaded
<1>5. /\ counts.writes \in Nat /\ counts.writes + 1 \in 0..MaxWrites
      /\ counts' = [writes |-> counts.writes + 1, loads |-> counts.loads,
                    before |-> Cardinality(Ids(browser.saved))]
  <2>1. counts.writes \in 0..MaxWrites /\ MaxWrites \in Nat
    BY Counts, ReviewLogAssumption
  <2>2. counts.writes \in Nat /\ counts.writes + 1 \in 0..MaxWrites
    BY <1>1, <2>1
  <2>3. counts' = [writes |-> counts.writes + 1, loads |-> counts.loads,
                   before |-> Cardinality(Ids(browser.saved))]
    BY <1>1, Counts
  <2> QED
    BY <2>2, <2>3
<1>6. counts' \in [writes : 0..MaxWrites, loads : Nat, before : Nat]
  BY <1>5, Counts
<1>7. ASSUME NEW e \in Ranked
      PROVE  /\ toasts'[e] \in [undo : 0..MaxWrites, posting : 0..MaxWrites]
             /\ toasts'[e].undo <= counts.writes + 1 /\ toasts'[e].posting <= counts.writes + 1
  <2>1. CASE e = d
    <3>1. /\ toasts[d].undo \in Nat /\ toasts[d].undo <= counts.writes
          /\ toasts[d].posting \in Nat /\ toasts[d].posting <= counts.writes
      BY Counts
    <3>2. /\ toasts[d].undo + 1 \in 0..MaxWrites /\ toasts[d].undo + 1 <= counts.writes + 1
          /\ toasts[d].posting + 1 \in 0..MaxWrites /\ toasts[d].posting + 1 <= counts.writes + 1
      BY <1>1, <1>5, <3>1, ReviewLogAssumption
    <3>3. toasts'[d] = [undo |-> toasts[d].undo + 1, posting |-> toasts[d].posting + 1]
      BY <1>1, Counts
    <3> QED
      BY <2>1, <3>2, <3>3
  <2>2. CASE e # d
    <3>1. /\ toasts[e].undo \in Nat /\ toasts[e].undo <= counts.writes
          /\ toasts[e].posting \in Nat /\ toasts[e].posting <= counts.writes
          /\ toasts[e] \in [undo : 0..MaxWrites, posting : 0..MaxWrites] /\ toasts'[e] = toasts[e]
      BY <1>1, <2>2, Counts
    <3> QED
      BY <1>5, <3>1
  <2> QED
    BY <2>1, <2>2
<1>8. toasts' \in [Ranked -> [undo : 0..MaxWrites, posting : 0..MaxWrites]]
  BY <1>1, <1>7, Counts
<1>9. CountsTypeOK'
  BY <1>1, <1>5, <1>6, <1>7, Counts DEF CountsTypeOK
<1>10. PICK told \in BOOLEAN : told /\ RenderedAfter(b, told)
  BY <1>1, Zenon
<1>11. /\ counts'.before = Cardinality(Ids(browser.saved)) /\ counts'.loads = counts.loads
       /\ answered'.known = answered.known /\ answered'.known \subseteq answered'.posted
       /\ done' \subseteq Ranked
  BY <1>1, <1>5, Counts
<1> QED
  BY <1>1, <1>2, <1>3, <1>4, <1>8, <1>9, <1>10, <1>11, Changing

\* A review that is taken back, by its toast or because its post failed.
LEMMA TakenBack ==
    ASSUME LogInv, counts.loads # 0, NEW d \in Ranked, NEW ok \in BOOLEAN,
           RenderedAfter(UndoReviewOf(browser, d, ok), TRUE), Remembered(TRUE),
           done' = done \ {d}, UNCHANGED answered,
           NEW undo \in 0..toasts[d].undo, NEW posting \in 0..toasts[d].posting,
           toasts' = [toasts EXCEPT ![d] = [undo |-> undo, posting |-> posting]]
    PROVE  LogInv'
<1> DEFINE b == UndoReviewOf(browser, d, ok)
<1>1. /\ Sound(b) /\ b.migrated /\ MemoryIsKept(b)
      /\ b.persist => browser.persist /\ Ids(b.saved) = Ids(browser.saved) \ {d}
  BY Loaded, Undoing
<1>2. PICK told \in BOOLEAN : told /\ RenderedAfter(b, told)
  BY Zenon
<1> HIDE DEF b
<1>3. b.persist => browser.persist /\ Ids(b.saved) = done'
  BY <1>1, Loaded
<1>4. counts' = [counts EXCEPT !.before = Cardinality(Ids(browser.saved))]
  BY DEF Remembered
<1>5. /\ toasts' \in [Ranked -> [undo : 0..MaxWrites, posting : 0..MaxWrites]]
      /\ CountsTypeOK' /\ counts'.loads = counts.loads
  BY <1>4, Counts, Dismissing
<1>6. /\ counts'.before = Cardinality(Ids(browser.saved))
      /\ answered'.known = answered.known /\ answered'.known \subseteq answered'.posted
      /\ done' \subseteq Ranked /\ done' \subseteq done
  BY <1>4, Counts
<1> QED
  BY <1>1, <1>2, <1>3, <1>5, <1>6, Changing

\* The answer to a post, which may find its review undone.
LEMMA AnswerKeeps ==
    ASSUME LogInv, NEW d \in Ranked, NEW ok \in BOOLEAN, PostAnswered(d, ok)
    PROVE  LogInv'
<1> DEFINE existing == ReadRecords(browser, TRUE).saved[d] # "none"
           b == UpdateReviewFromApi(browser, d, ok)
<1>1. /\ toasts[d].posting > 0
      /\ RenderedAfter(b, existing) /\ Remembered(existing)
      /\ toasts' = [toasts EXCEPT ![d].posting = @ - 1]
      /\ answered' = [answered EXCEPT !.posted = @ \cup {d}]
      /\ UNCHANGED done
  BY DEF PostAnswered
<1>2. counts.loads # 0
  BY <1>1, Counts
<1>3. /\ Sound(b) /\ b.migrated /\ MemoryIsKept(b)
      /\ b.persist => browser.persist /\ Ids(b.saved) = Ids(browser.saved)
  BY <1>2, Loaded, Answering
<1>4. PICK told \in BOOLEAN : RenderedAfter(b, told) /\ Remembered(told)
  BY <1>1, Zenon
<1> HIDE DEF b, existing
<1>5. b.persist => browser.persist /\ Ids(b.saved) = done'
  BY <1>1, <1>2, <1>3, Loaded
<1>6. answered' \in [posted : SUBSET Ranked, known : SUBSET Ranked]
      /\ answered'.known = answered.known /\ answered'.known \subseteq answered'.posted
  BY <1>1, Counts
<1>7. /\ toasts[d].undo \in 0..toasts[d].undo /\ toasts[d].posting - 1 \in 0..toasts[d].posting
      /\ toasts' = [toasts EXCEPT ![d] = [undo |-> toasts[d].undo, posting |-> toasts[d].posting - 1]]
  <2>1. toasts[d] \in [undo : 0..MaxWrites, posting : 0..MaxWrites]
    BY Counts
  <2>2. toasts[d].undo \in Nat /\ toasts[d].posting \in Nat
    BY Counts
  <2>3. toasts[d].undo \in 0..toasts[d].undo /\ toasts[d].posting - 1 \in 0..toasts[d].posting
    BY <1>1, <2>2
  <2>4. [toasts[d] EXCEPT !.posting = @ - 1]
          = [undo |-> toasts[d].undo, posting |-> toasts[d].posting - 1]
    BY <2>1
  <2>5. toasts' = [toasts EXCEPT ![d] = [toasts[d] EXCEPT !.posting = @ - 1]]
    BY <1>1
  <2> QED
    BY <2>3, <2>4, <2>5
<1>8. counts' = counts \/ counts' = [counts EXCEPT !.before = Cardinality(Ids(browser.saved))]
  BY <1>4 DEF Remembered
<1>9. /\ toasts' \in [Ranked -> [undo : 0..MaxWrites, posting : 0..MaxWrites]]
      /\ CountsTypeOK' /\ counts'.loads = counts.loads
  BY <1>6, <1>7, <1>8, Dismissing
<1>10. IF told THEN counts'.before = Cardinality(Ids(browser.saved))
               ELSE counts'.before = counts.before /\ (b.persist => done' = done)
  BY <1>1, <1>4, Counts DEF Remembered
<1>11. done' \subseteq Ranked /\ done' \subseteq done
  BY <1>1, Counts
<1> QED
  BY <1>2, <1>3, <1>4, <1>5, <1>6, <1>9, <1>10, <1>11, Changing

\* Every step preserves the invariant.
LEMMA NextLogKeeps == LogInv /\ [LogNext]_logVars => LogInv'
<1> SUFFICES ASSUME LogInv, [LogNext]_logVars PROVE LogInv'
  OBVIOUS
<1>1. CASE UNCHANGED logVars
  BY <1>1 DEF logVars, LogInv, LogIsShown, RlTypeOK, LogRemembers, QueueAgrees, ListHidesOnlyUndone,
     CardBehindByOne, CountsTypeOK, Opened, Sound, MemoryIsKept, Browser, Ids
<1>2. ASSUME NEW name \in {"attention", "overview", "decisions"}, NEW ok \in BOOLEAN, Load(name, ok)
      PROVE  LogInv'
  BY <1>2, LoadKeeps
<1>3. ASSUME NEW name \in {"attention", "overview", "decisions"}, NEW f \in Filters, Visit(name, f)
      PROVE  LogInv'
  <2>1. PICK ok \in BOOLEAN : Rendered(name, f, browser, ok, answered.known)
    BY <1>3, Zenon DEF Visit
  <2>2. counts.loads # 0 /\ UNCHANGED <<toasts, answered, done, counts>>
    BY <1>3, Counts DEF Visit
  <2>3. /\ answered.known \in SUBSET Ranked /\ answered.known \subseteq answered.posted
        /\ answered' = [answered EXCEPT !.known = answered.known]
    BY <2>2, Counts
  <2> QED
    BY <2>1, <2>2, <2>3, VisitKeeps
<1>4. ASSUME NEW d \in Ranked, ServerTells(d) PROVE LogInv'
  <2> DEFINE told == answered.known \cup {d}
  <2>1. /\ d \in answered.posted /\ page.name # "overview"
        /\ answered' = [answered EXCEPT !.known = told]
        /\ Rendered(page.name, page.filter, browser, TRUE, answered'.known)
        /\ UNCHANGED <<toasts, done, counts>>
    BY <1>4 DEF ServerTells
  <2>2. counts.loads # 0
    BY <2>1 DEF LogInv, Opened
  <2>3. answered'.known = told /\ told \in SUBSET Ranked /\ told \subseteq answered.posted
    BY <2>1, Counts
  <2>4. PICK ok \in BOOLEAN : Rendered(page.name, page.filter, browser, ok, told)
    BY <2>1, <2>3, Zenon
  <2>5. page.name \in {"attention", "overview", "decisions"} /\ page.filter \in Filters
    BY <2>2, Loaded
  <2> HIDE DEF told
  <2> QED
    BY <2>1, <2>2, <2>3, <2>4, <2>5, VisitKeeps
<1>5. ASSUME NEW d \in Ranked, NEW ok \in BOOLEAN, UndoFromToast(d, ok) PROVE LogInv'
  <2>1. /\ toasts[d].undo > 0
        /\ RenderedAfter(UndoReviewOf(browser, d, ok), TRUE) /\ Remembered(TRUE)
        /\ done' = done \ {d} /\ toasts' = [toasts EXCEPT ![d].undo = @ - 1]
        /\ UNCHANGED answered
    BY <1>5 DEF UndoFromToast
  <2>2. /\ toasts[d] \in [undo : 0..MaxWrites, posting : 0..MaxWrites]
        /\ toasts[d].undo \in Nat /\ toasts[d].posting \in Nat /\ counts.loads # 0
    BY <2>1, Counts
  <2>3. [toasts[d] EXCEPT !.undo = @ - 1]
          = [undo |-> toasts[d].undo - 1, posting |-> toasts[d].posting]
    BY <2>2
  <2>4. toasts' = [toasts EXCEPT ![d] = [undo |-> toasts[d].undo - 1, posting |-> toasts[d].posting]]
    BY <2>1, <2>3
  <2>5. toasts[d].undo - 1 \in 0..toasts[d].undo /\ toasts[d].posting \in 0..toasts[d].posting
    BY <2>1, <2>2
  <2> QED
    BY <2>1, <2>2, <2>4, <2>5, TakenBack
<1>6. ASSUME NEW d \in Ranked, NEW ok \in BOOLEAN, PostFailed(d, ok) PROVE LogInv'
  <2>1. /\ toasts[d].posting > 0
        /\ RenderedAfter(UndoReviewOf(browser, d, ok), TRUE) /\ Remembered(TRUE)
        /\ done' = done \ {d} /\ UNCHANGED answered
    BY <1>6 DEF PostFailed
  <2>2. PICK dismissed \in {0, 1} :
           /\ dismissed <= toasts[d].undo
           /\ toasts' = [toasts EXCEPT ![d] = [undo |-> @.undo - dismissed, posting |-> @.posting - 1]]
    BY <1>6 DEF PostFailed
  <2>3. toasts[d].undo \in Nat /\ toasts[d].posting \in Nat /\ counts.loads # 0
    BY <2>1, Counts
  <2>4. /\ toasts[d].undo - dismissed \in 0..toasts[d].undo
        /\ toasts[d].posting - 1 \in 0..toasts[d].posting
    BY <2>1, <2>2, <2>3
  <2>5. toasts' = [toasts EXCEPT ![d] = [undo |-> toasts[d].undo - dismissed, posting |-> toasts[d].posting - 1]]
    BY <2>2
  <2> QED
    BY <2>1, <2>3, <2>4, <2>5, TakenBack
<1> QED
  BY <1>1, <1>2, <1>3, <1>4, <1>5, <1>6, LogReviewKeeps, AnswerKeeps DEF LogNext
-------------------------------------------------------------------------------
\* The browser remembers the reviews that stand as long as it can keep them, the queue shows
\* exactly what is neither reviewed nor known to be, the list is behind by undone
\* reviews only, and the card by one change, in whatever order answers, failures,
\* undos, visits and loads come, and whenever the log can no longer be written.
THEOREM LogAlwaysShown == LogSpec => []LogIsShown
<1>1. LogInv => LogIsShown
  BY DEF LogInv
<1> QED
  BY <1>1, InitLog, NextLogKeeps, PTL DEF LogSpec

--------------------------------------------------------------------------------
\* Of numbers up to a bound there is a largest.
LEMMA Largest ==
    ASSUME NEW k \in Nat, NEW S \in SUBSET (0..k), S # {}
    PROVE  \E m \in S : \A n \in S : n <= m
<1> DEFINE T == {k - n : n \in S}
<1>1. T \in SUBSET Nat /\ T # {}
  <2>1. \A n \in S : n \in Nat /\ k - n \in Nat
    OBVIOUS
  <2>2. PICK n \in S : TRUE
    OBVIOUS
  <2>3. k - n \in T
    OBVIOUS
  <2> QED
    BY <2>1, <2>3
<1> HIDE DEF T
<1>2. PICK m \in T : \A n \in T : m <= n
  BY <1>1, Smallest
<1>3. PICK x \in S : m = k - x
  BY DEF T
<1>4. ASSUME NEW y \in S PROVE y <= x
  <2>1. m <= k - y
    BY <1>2 DEF T
  <2> QED
    BY <2>1, <1>3
<1> QED
  BY <1>4

--------------------------------------------------------------------------------
\* The overview.  Its figures hold together at every state of these types: what else is in
\* the page, the filters and the days is never more than chosen or read.
OvDays == FirstDay..LastDay
OvRows == [day : OvDays, learner : OvLearners, type : OvTypes, score : {0, 1}]
OvFilters == [type : OvTypes \cup {AnyType}, learner : SUBSET OvLearners, range : OvRanges]
OvLocals == [type : OvTypes \cup {AnyType}, range : OvRanges, view : {"decisions", "mastery"}]
OverviewInv ==
  /\ ovHistory \in Seq(OvRows) /\ Len(ovHistory) <= MaxHistory /\ ovToday \in OvDays
  /\ ovPage \in [decisions : Nat, states : Nat, day : OvDays \cup {0}]
  /\ ovPage.decisions <= ovPage.states /\ ovPage.states <= Len(ovHistory)
  /\ ovSync \in BOOLEAN /\ ovSaved \in BOOLEAN
  /\ ovFilter \in OvFilters /\ ovDeferred \in OvFilters /\ ovLocal \in OvLocals
  /\ ovDays \in [figures : OvDays, chart : OvDays]

\* A page that is fetched.
LEMMA FetchedIsOfHistory ==
    ASSUME OverviewInv, FetchOverview
    PROVE  /\ ovPage' \in [decisions : Nat, states : Nat, day : OvDays \cup {0}]
           /\ ovPage'.decisions <= ovPage'.states /\ ovPage'.states <= Len(ovHistory)
<1>1. Len(ovHistory) \in Nat /\ ovToday \in OvDays /\ (Len(ovHistory) = 0 => ovHistory = <<>>)
  BY DEF OverviewInv
<1>2. PICK n \in {Len(ovHistory), IF ovHistory = <<>> THEN 0 ELSE Len(ovHistory) - 1} :
        ovPage' = [decisions |-> n, states |-> Len(ovHistory), day |-> ovToday]
  BY DEF FetchOverview
<1>3. n \in Nat /\ n <= Len(ovHistory)
  BY <1>1
<1> QED
  BY <1>1, <1>2, <1>3

\* The types hold at first and are kept by every step.
LEMMA InitOverview == OverviewInit => OverviewInv
<1> SUFFICES ASSUME OverviewInit PROVE OverviewInv
  OBVIOUS
<1>1. FirstDay \in OvDays /\ DefaultRange \in OvRanges /\ MaxHistory \in Nat
  BY OverviewAssumption DEF OvDays
<1>2. DefaultFilter \in OvFilters /\ DefaultLocal \in OvLocals
  BY <1>1 DEF DefaultFilter, DefaultLocal, OvFilters, OvLocals
<1>3. ovHistory = <<>> /\ Len(ovHistory) = 0 /\ ovHistory \in Seq(OvRows)
  BY DEF OverviewInit
<1>4. /\ ovPage \in [decisions : Nat, states : Nat, day : OvDays \cup {0}]
      /\ ovPage.decisions <= ovPage.states /\ ovPage.states <= 0
  BY DEF OverviewInit, NoFetch
<1>5. ovDays \in [figures : OvDays, chart : OvDays]
  BY <1>1 DEF OverviewInit
<1>6. ovToday \in OvDays /\ ovSync \in BOOLEAN /\ ovSaved \in BOOLEAN
      /\ ovFilter \in OvFilters /\ ovDeferred \in OvFilters /\ ovLocal \in OvLocals
  BY <1>1, <1>2 DEF OverviewInit
<1>7. Len(ovHistory) <= MaxHistory /\ ovPage.states <= Len(ovHistory)
  BY <1>1, <1>3, <1>4
<1> QED
  BY <1>3, <1>4, <1>5, <1>6, <1>7 DEF OverviewInv

\* Decisions, days, filters and refreshes keep the invariant.
LEMMA OverviewStepKeeps == OverviewInv /\ [OverviewNext]_ovVars => OverviewInv'
<1> SUFFICES ASSUME OverviewInv, [OverviewNext]_ovVars PROVE OverviewInv'
  OBVIOUS
<1>1. /\ FirstDay \in Nat /\ LastDay \in Nat /\ MaxHistory \in Nat /\ DefaultRange \in OvRanges
  BY OverviewAssumption
<1>2. DefaultFilter \in OvFilters /\ DefaultLocal \in OvLocals
  BY <1>1 DEF DefaultFilter, DefaultLocal, OvFilters, OvLocals
<1>3. ASSUME NEW l \in OvLearners, NEW t \in OvTypes, NEW s \in {0, 1}, NewDecision(l, t, s)
      PROVE  OverviewInv'
  <2>1. PICK row \in OvRows : ovHistory' = Append(ovHistory, row) /\ Len(ovHistory) < MaxHistory
    BY <1>3 DEF NewDecision, OvRows, OverviewInv
  <2>2. ovHistory' \in Seq(OvRows) /\ Len(ovHistory') = Len(ovHistory) + 1 /\ Len(ovHistory) \in Nat
    BY <2>1 DEF OverviewInv
  <2>3. ovPage.states <= Len(ovHistory') /\ Len(ovHistory') <= MaxHistory
    BY <2>1, <2>2, <1>1 DEF OverviewInv
  <2> QED
    BY <1>3, <2>2, <2>3 DEF NewDecision, OverviewInv
<1>4. CASE NextDay
  BY <1>1, <1>4 DEF NextDay, OverviewInv, OvDays
<1>5. ComputedNow => ovDays' \in [figures : OvDays, chart : OvDays]
  BY DEF ComputedNow, OverviewInv
<1>6. CASE OpenOverview
  <2>1. FetchOverview /\ ComputedNow
    BY <1>6 DEF OpenOverview
  <2> QED
    BY <1>2, <1>5, <1>6, <2>1, FetchedIsOfHistory DEF OpenOverview, OverviewInv
<1>7. CASE RefreshOverview
  <2>1. FetchOverview /\ ComputedNow
    BY <1>7 DEF RefreshOverview
  <2> QED
    BY <1>2, <1>5, <1>7, <2>1, FetchedIsOfHistory DEF RefreshOverview, OverviewInv
<1>8. ASSUME NEW on \in BOOLEAN, SetSyncEnabled(on) PROVE OverviewInv'
  BY <1>2, <1>5, <1>8 DEF SetSyncEnabled, OverviewInv
<1>9. [ovDays EXCEPT !.chart = ovToday] \in [figures : OvDays, chart : OvDays]
      /\ [figures |-> ovToday, chart |-> ovToday] \in [figures : OvDays, chart : OvDays]
  BY DEF OverviewInv
<1>10. ASSUME NEW filter \in OvFilters, SetFilter(filter) PROVE OverviewInv'
  BY <1>9, <1>10 DEF SetFilter, OverviewInv
<1>11. ASSUME NEW local \in OvLocals, SetChart(local) PROVE OverviewInv'
  BY <1>9, <1>11 DEF SetChart, OverviewInv
<1>12. CASE FiltersSettle
  BY <1>9, <1>12 DEF FiltersSettle, OverviewInv
<1>13. /\ \A r \in OvRanges : [ovFilter EXCEPT !.range = r] \in OvFilters
       /\ \A t \in OvTypes \cup {AnyType} : [ovFilter EXCEPT !.type = t] \in OvFilters
       /\ \A ls \in OvNeedles \cup {OvLearners} : [ovFilter EXCEPT !.learner = ls] \in OvFilters
       /\ \A r \in OvRanges : [ovLocal EXCEPT !.range = r] \in OvLocals
       /\ \A t \in OvTypes \cup {AnyType} : [ovLocal EXCEPT !.type = t] \in OvLocals
       /\ \A v \in {"decisions", "mastery"} : [ovLocal EXCEPT !.view = v] \in OvLocals
  <2>1. ovFilter \in OvFilters /\ ovLocal \in OvLocals
    BY DEF OverviewInv
  <2>2. \A ls \in OvNeedles \cup {OvLearners} : ls \in SUBSET OvLearners
    BY OverviewAssumption
  <2> QED
    BY <2>1, <2>2 DEF OvFilters, OvLocals
<1>14. CASE UNCHANGED ovVars
  BY <1>14 DEF ovVars, OverviewInv
<1> QED
  BY <1>2, <1>3, <1>4, <1>6, <1>7, <1>8, <1>10, <1>11, <1>12, <1>13, <1>14 DEF OverviewNext

\* A day of the range is a key of the chart, but for the short one.
LEMMA DayHasKey ==
    ASSUME NEW range \in Nat \ {0}, NEW day \in Nat, NEW d \in Nat,
           d \in (day - range + 1)..day, d # ShortDay
    PROVE  d \in DateKeys(range, day)
<1>1. ShortDay \in Nat
  BY OverviewAssumption
<1>2. CASE ShortDay \notin d..(day - 1)
  <2>1. day - d \in 0..(range - 1) /\ day - (day - d) = d
    OBVIOUS
  <2>2. DayBack(day, day - d) = d
    BY <1>2, <2>1 DEF DayBack
  <2> QED
    BY <2>1, <2>2 DEF DateKeys
<1>3. CASE ShortDay \in d..(day - 1)
  <2>1. PICK n \in Int : n = day - d - 1
    OBVIOUS
  <2>2. n \in 0..(range - 1) /\ day - n = d + 1 /\ day - n - 1 = d
    BY <1>1, <1>3, <2>1
  <2>3. ShortDay \in (day - n)..(day - 1)
    BY <1>1, <1>3, <2>2
  <2>4. DayBack(day, n) = d
    BY <2>2, <2>3 DEF DayBack
  <2> QED
    BY <2>2, <2>4 DEF DateKeys
<1> QED
  BY <1>2, <1>3

\* The start of the range is its first day, or on the day before for the short one.
LEMMA RangeStartsBy ==
    ASSUME NEW range \in Nat \ {0}, NEW day \in Nat
    PROVE  RangeStart(range, day) \in Int /\ RangeStart(range, day) <= day - range + 1
  BY OverviewAssumption DEF RangeStart, DayBack

\* What the types say of a decision that is kept.
LEMMA KeptAreRows ==
    ASSUME OverviewInv
    PROVE  /\ Kept \subseteq 1..ovPage.decisions
           /\ \A k \in 1..ovPage.states : /\ ovHistory[k].day \in Nat /\ ovHistory[k].learner \in OvLearners
                                         /\ ovHistory[k].type \in OvTypes /\ ovHistory[k].score \in Nat
           /\ ovPage.decisions \in Nat /\ ovPage.states \in Nat /\ ovPage.decisions <= ovPage.states
           /\ ChartRange \in Nat \ {0} /\ ovDays.chart \in Nat /\ ovDays.figures \in Nat /\ ovPage.day \in Nat
<1>1. (\A d \in OvDays : d \in Nat) /\ (\A r \in OvRanges : r \in Nat \ {0})
  BY OverviewAssumption DEF OvDays
<1>2. \A k \in 1..ovPage.states : ovHistory[k] \in OvRows
  BY DEF OverviewInv
<1>3. \A k \in 1..ovPage.states : /\ ovHistory[k].day \in Nat /\ ovHistory[k].learner \in OvLearners
                                 /\ ovHistory[k].type \in OvTypes /\ ovHistory[k].score \in Nat
  <2> SUFFICES ASSUME NEW k \in 1..ovPage.states
               PROVE  /\ ovHistory[k].day \in Nat /\ ovHistory[k].learner \in OvLearners
                      /\ ovHistory[k].type \in OvTypes /\ ovHistory[k].score \in Nat
    OBVIOUS
  <2>1. PICK row \in OvRows : row = ovHistory[k]
    BY <1>2
  <2>2. row.day \in OvDays /\ row.learner \in OvLearners /\ row.type \in OvTypes /\ row.score \in {0, 1}
    BY DEF OvRows
  <2> QED
    BY <1>1, <2>1, <2>2
<1>4. ChartRange \in Nat \ {0} /\ ovDays.chart \in Nat /\ ovDays.figures \in Nat /\ ovPage.day \in Nat
  <2>1. ovFilter.range \in OvRanges /\ ovLocal.range \in OvRanges
    BY DEF OverviewInv, OvFilters, OvLocals
  <2>2. ovDays.chart \in OvDays /\ ovDays.figures \in OvDays /\ ovPage.day \in OvDays \cup {0}
    BY DEF OverviewInv
  <2> QED
    BY <1>1, <2>1, <2>2 DEF ChartRange
<1>5. Kept \subseteq 1..ovPage.decisions
  BY DEF Kept, Narrowed
<1> QED
  BY <1>3, <1>4, <1>5 DEF OverviewInv

\* A decision within the chart's range is plotted on its day, which the range has unless it is short.
LEMMA ChartPlotsKept == OverviewInv => PlottedUnlessShort
<1> SUFFICES ASSUME OverviewInv, NEW k \in Kept,
                    ovHistory[k].day \in (ovDays.chart - ChartRange + 1)..ovDays.chart,
                    ovHistory[k].day # ShortDay, ChartSeries \in {AnyType, ovHistory[k].type}
             PROVE  \E key \in DateKeys(ChartRange, ovDays.chart) : k \in Plotted(key)
  BY DEF PlottedUnlessShort
<1>1. ovHistory[k].day \in Nat /\ ChartRange \in Nat \ {0} /\ ovDays.chart \in Nat
  BY KeptAreRows
<1>2. ovHistory[k].day \in DateKeys(ChartRange, ovDays.chart)
  BY <1>1, DayHasKey
<1> QED
  BY <1>2 DEF Plotted

\* The learners of some rows are finitely many.
LEMMA LearnersAreFew ==
    ASSUME NEW n \in Nat, NEW ks \in SUBSET (1..n)
    PROVE  IsFiniteSet(RankedLearners(ks))
<1> DEFINE I == {i \in ks : ovHistory[i].type \in Urgent}
           f == [i \in I |-> ovHistory[i].learner]
<1>1. IsFiniteSet(1..n)
  <2>1. 1 \in Int /\ n \in Int
    OBVIOUS
  <2> QED
    BY <2>1, FS_Interval
<1>2. IsFiniteSet(I)
  <2>1. I \subseteq 1..n
    OBVIOUS
  <2> QED
    BY <1>1, <2>1, FS_Subset
<1>3. f \in Surjection(I, RankedLearners(ks))
  BY DEF Surjection, RankedLearners
<1> QED
  BY <1>2, <1>3, FS_Surjection

\* Two counts of learners, one among those of the other, differ by the learners between them.
LEMMA DeltaCounts == OverviewInv => DeltaCountsNewLearners
<1> SUFFICES ASSUME OverviewInv PROVE DeltaCountsNewLearners
  OBVIOUS
<1> DEFINE K == Kept  D == FiguresDay  Old == {k \in K : ovHistory[k].day < D}
           A == RankedLearners(K)  B == RankedLearners(Old)
           N == {l \in A : \A k \in K : ovHistory[k].learner = l /\ ovHistory[k].type \in Urgent => ovHistory[k].day >= D}
<1>1. K \subseteq 1..ovPage.decisions /\ ovPage.decisions \in Nat
      /\ D \in Nat /\ \A k \in K : ovHistory[k].day \in Nat
  BY KeptAreRows DEF FiguresDay
<1>2. IsFiniteSet(A)
  BY <1>1, LearnersAreFew
<1> HIDE DEF K, D
<1>3. A \cap B = B
  BY DEF RankedLearners
<1>4. A \ B = N
  BY <1>1 DEF RankedLearners
<1> HIDE DEF A, B, N
<1>5. Cardinality(N) = Cardinality(A) - Cardinality(B)
  <2>1. Cardinality(A \ B) = Cardinality(A) - Cardinality(A \cap B)
    BY <1>2, FS_Difference
  <2> QED
    BY <2>1, <1>3, <1>4
<1> QED
  BY <1>5 DEF DeltaCountsNewLearners, AttentionDelta, K, D, A, B, N

\* A filter other than the default is a chip, and the default hides what is old only.
LEMMA HidingIsShown == OverviewInv => NothingHiddenSilently
<1> SUFFICES ASSUME OverviewInv, Settled, NEW k \in (1..ovPage.decisions) \ Kept, ovSync, ~Chips
             PROVE  ovHistory[k].day <= ovDays.figures - DefaultRange
  BY DEF NothingHiddenSilently, Kept
<1>1. ovDeferred = DefaultFilter
  BY DEF Settled, Chips, FilterActive
<1>2. ovHistory[k].day \in Nat /\ ovHistory[k].learner \in OvLearners /\ ovDays.figures \in Nat
      /\ DefaultRange \in Nat \ {0}
  BY KeptAreRows, OverviewAssumption
<1>3. ~(ovHistory[k].day >= RangeStart(DefaultRange, ovDays.figures))
  BY <1>1, <1>2 DEF Kept, Narrowed, DefaultFilter
<1>4. RangeStart(DefaultRange, ovDays.figures) \in Int
      /\ RangeStart(DefaultRange, ovDays.figures) <= ovDays.figures - DefaultRange + 1
  BY <1>2, RangeStartsBy
<1> QED
  BY <1>2, <1>3, <1>4

\* A state is plotted on the day of its last change.
LEMMA EmptyDayIsExplained == OverviewInv => EmptyDayHasCause
<1> SUFFICES ASSUME OverviewInv, NEW k \in 1..ovPage.states,
                    ovHistory[k].learner \in Sampled, ovHistory[k].score > 0,
                    ~(LastOf(ovHistory[k].learner) > k), ovHistory[k].day # ShortDay,
                    ovHistory[k].day \in (ovDays.chart - ChartRange + 1)..ovDays.chart
             PROVE  ovHistory[k].day \in DateKeys(ChartRange, ovDays.chart) /\ ~MasteryIsZero(ovHistory[k].day)
  BY DEF EmptyDayHasCause
<1> DEFINE l == ovHistory[k].learner
           ks == {j \in 1..ovPage.states : ovHistory[j].learner = l}
<1>1. ovHistory[k].day \in Nat /\ ChartRange \in Nat \ {0} /\ ovDays.chart \in Nat /\ ovPage.states \in Nat
  BY KeptAreRows
<1>2. ovHistory[k].day \in DateKeys(ChartRange, ovDays.chart)
  BY <1>1, DayHasKey
<1>3. ks \in SUBSET (0..ovPage.states) /\ k \in ks
  BY <1>1
<1>4. \E m \in ks : \A j \in ks : j <= m
  BY <1>1, <1>3, Largest
<1>5. LastOf(l) \in ks /\ \A j \in ks : j <= LastOf(l)
  BY <1>4 DEF LastOf
<1>6. LastOf(l) = k
  BY <1>1, <1>3, <1>5
<1>7. l \in MasteryOf(ovHistory[k].day)
  BY <1>6 DEF MasteryOf
<1>8. ~MasteryIsZero(ovHistory[k].day)
  BY <1>6, <1>7 DEF MasteryIsZero
<1> QED
  BY <1>2, <1>8

\* Cards, table and chart of the overview tell of the same decisions, for any number of
\* decisions, learners, ranges and days.
THEOREM OverviewAlwaysAgrees == OverviewSpec => []OverviewAgrees
<1>1. OverviewInv => OverviewTypeOK
  <2> SUFFICES ASSUME OverviewInv PROVE OverviewTypeOK
    OBVIOUS
  <2>1. \A k \in DOMAIN ovHistory : ovHistory[k] \in OvRows
    BY DEF OverviewInv
  <2>2. ovPage.decisions \in 0..ovPage.states /\ ovPage.states \in 0..Len(ovHistory)
        /\ ovPage.day \in OvDays \cup {0}
    BY DEF OverviewInv
  <2> QED
    BY <2>1, <2>2 DEF OverviewInv, OverviewTypeOK, OvRows, OvDays, OvFilters, OvLocals
<1>2. OverviewInv => OverviewAgrees
  BY <1>1, ChartPlotsKept, DeltaCounts, HidingIsShown, EmptyDayIsExplained DEF OverviewAgrees
<1> QED
  BY <1>2, InitOverview, OverviewStepKeeps, PTL DEF OverviewSpec

--------------------------------------------------------------------------------
\* The mapping gives columns of the file to fields, none to two, and the rest of them to the payload.
MappingInv ==
  /\ step \in 0..4
  /\ (step = 0 /\ file = NoFile) \/ file \in Files
  /\ mapping = [of |-> mapping.of, payload |-> mapping.payload]
  /\ DOMAIN mapping.of \subseteq EnvelopeFields
  /\ Range(mapping.of) \cup mapping.payload \subseteq Range(file.header)
  /\ \A f \in DOMAIN mapping.of :
       /\ mapping.of[f] \notin mapping.payload
       /\ \A g \in DOMAIN mapping.of : mapping.of[g] = mapping.of[f] => f = g

\* The rows have been checked, under the mapping and the defaults there are.
Checked ==
  results = [i \in DOMAIN file.rows |-> LET e == Mapped(file.rows[i]) IN [envelope |-> e, valid |-> PageFinds(e)]]
Answers == {VerdictOn(results[FirstGood].envelope), "disabled", "failed"}

\* From Validate on they are checked or not yet, with nothing else changed; what Review was
\* reached with is an answer for the first of them.
ReviewInv ==
  /\ check = [phase |-> check.phase, answer |-> check.answer] /\ check.phase \in {"none", "rows", "asking", "done"}
  /\ step \in {2, 3, 4} => Unassigned = {} /\ (results = <<>> \/ Checked)
  /\ step = 2 => check.phase # "none"
  /\ step = 2 /\ check.phase # "rows" => Checked
  /\ step = 2 /\ check.phase = "asking" => Good # {}
  /\ step = 2 /\ check.phase = "done" /\ Good # {} => check.answer \in Answers
  /\ step \in {3, 4} => Checked /\ verdict \in Answers \ {"pii_blocking"}

\* A post is of a good row, the first one of the first.
PostsInv ==
  /\ \E n \in Nat : DOMAIN posts = 1..n
  /\ posts # <<>> => step \in {3, 4}
  /\ \A k \in DOMAIN posts :
       /\ posts[k].row \in Good /\ posts[k].envelope = results[posts[k].row].envelope
       /\ k = 1 => posts[k].row = FirstGood

\* Of what the control layer was sent: a post of the last commit is under way, and was not dealt
\* with, or is dealt with as its status says; its outcome is that or a lost answer.
IsPost(p) ==
  /\ p = [row |-> p.row, envelope |-> p.envelope, sent |-> p.sent, status |-> p.status, outcome |-> p.outcome, lost |-> p.lost]
  /\ p.sent \in BOOLEAN /\ p.lost \in BOOLEAN
  /\ p.status \in {"none", "accepted", "rejected", "duplicate"}
  /\ p.outcome \in {"none", p.status} \/ (p.outcome = "rejected" /\ p.lost)
Mine(k) == {s \in stored : s.commit = commits /\ s.post = k}
OfPosts(r) == r.commit = commits /\ r.post \in DOMAIN posts
SendInv ==
  /\ commits \in 0..MaxCommits
  /\ \A k \in DOMAIN posts :
       /\ IsPost(posts[k])
       /\ posts[k].status # "none" => posts[k].sent
       /\ posts[k].status \in {"none", "rejected"} => Mine(k) = {}
       /\ posts[k].status = "accepted" => Mine(k) # {}
       /\ posts[k].status = "duplicate" =>
            Mine(k) = {} /\ \E s \in stored : IdOf(s.envelope) = IdOf(posts[k].envelope)
  /\ \A r \in flying \cup stored :
       /\ r = [commit |-> r.commit, post |-> r.post, envelope |-> r.envelope] /\ r.commit \in 0..commits
       /\ OfPosts(r) => r.envelope = posts[r.post].envelope /\ posts[r.post].sent
  /\ \A r \in flying : OfPosts(r) => posts[r.post].status = "none"
  /\ StoredOnce
  /\ Cardinality(InFlight) <= Workers

UploadInv == MappingInv /\ ReviewInv /\ PostsInv /\ SendInv

--------------------------------------------------------------------------------
\* The mapping.  What autoMap assigns is in the header, once.
LEMMA AutoMapIsMapping ==
    ASSUME NEW header, header \in Seq(Range(header))
    PROVE  LET m == AutoMap(header) IN
           /\ m = [of |-> m.of, payload |-> m.payload]
           /\ DOMAIN m.of \subseteq EnvelopeFields
           /\ Range(m.of) \cup m.payload \subseteq Range(header)
           /\ \A f \in DOMAIN m.of :
                /\ m.of[f] \notin m.payload
                /\ \A g \in DOMAIN m.of : m.of[g] = m.of[f] => f = g
<1> DEFINE Like(f) == {i \in DOMAIN header : HeaderField[header[i]] = f}
           of == [f \in {g \in EnvelopeFields : Like(g) # {}} |-> header[CHOOSE i \in Like(f) : \A j \in Like(f) : i <= j]]
<1>1. AutoMap(header) = [of |-> of, payload |-> Range(header) \ Range(of)]
  BY DEF AutoMap
<1>2. ASSUME NEW f \in DOMAIN of
      PROVE  f \in EnvelopeFields /\ HeaderField[of[f]] = f /\ \E i \in DOMAIN header : of[f] = header[i]
  <2>1. Like(f) # {} /\ Like(f) \in SUBSET Nat /\ f \in EnvelopeFields
    OBVIOUS
  <2>2. PICK m \in Like(f) : \A j \in Like(f) : m <= j
    BY <2>1, Smallest
  <2>3. (CHOOSE i \in Like(f) : \A j \in Like(f) : i <= j) \in Like(f)
    BY <2>2
  <2>4. of[f] = header[CHOOSE i \in Like(f) : \A j \in Like(f) : i <= j]
    OBVIOUS
  <2> HIDE DEF of
  <2> QED
    BY <2>1, <2>3, <2>4
<1> HIDE DEF of
<1>3. Range(of) \subseteq Range(header)
  BY <1>2 DEF Range
<1>4. \A f \in DOMAIN of : of[f] \in Range(of)
  BY DEF Range
<1> QED
  BY <1>1, <1>2, <1>3, <1>4

LEMMA InitMapping == UploadInit => MappingInv
BY DEF UploadInit, MappingInv, NoFile, NoMap, Range

LEMMA MappingStep == MappingInv /\ [UploadNext]_uploadVars => MappingInv'
<1> SUFFICES ASSUME MappingInv, [UploadNext]_uploadVars PROVE MappingInv'
  OBVIOUS
<1>2. ASSUME NEW f \in Files, ChooseFile(f) PROVE MappingInv'
  <2>1. f.header \in Seq(Range(f.header))
    BY UploadAssumption
  <2>2. file' = f /\ step' = 1 /\ mapping' = AutoMap(f.header)
    BY <1>2 DEF ChooseFile
  <2> DEFINE m == AutoMap(f.header)
  <2>3. /\ m = [of |-> m.of, payload |-> m.payload]
        /\ DOMAIN m.of \subseteq EnvelopeFields
        /\ Range(m.of) \cup m.payload \subseteq Range(f.header)
        /\ \A g \in DOMAIN m.of :
             /\ m.of[g] \notin m.payload
             /\ \A h \in DOMAIN m.of : m.of[h] = m.of[g] => g = h
    BY <2>1, AutoMapIsMapping
  <2> HIDE DEF m
  <2>4. mapping' = m
    BY <2>2 DEF m
  <2> QED
    BY <2>2, <2>3, <2>4 DEF MappingInv
<1>3. ASSUME ClearUpload PROVE MappingInv'
  BY <1>3 DEF ClearUpload, MappingInv, NoFile, NoMap, Range
<1>4. ASSUME NEW c \in Range(file.header), NEW target \in EnvelopeFields \cup {"payload", "none"}, AssignColumn(c, target)
      PROVE  MappingInv'
  <2> DEFINE m == Without(mapping, c)
  <2>1. /\ m = [of |-> m.of, payload |-> m.payload]
        /\ m.payload = mapping.payload \ {c}
        /\ DOMAIN m.of = {g \in DOMAIN mapping.of : mapping.of[g] # c}
        /\ \A f \in DOMAIN m.of : m.of[f] = mapping.of[f]
    BY DEF Without
  <2>2. step = 1 /\ UNCHANGED <<step, file>>
    BY <1>4 DEF AssignColumn
  <2>3. mapping' = CASE target = "payload" -> [m EXCEPT !.payload = @ \cup {c}]
                     [] target = "none" -> m
                     [] OTHER -> [m EXCEPT !.of = [f \in DOMAIN @ \cup {target} |-> IF f = target THEN c ELSE @[f]]]
    BY <1>4 DEF AssignColumn
  <2> HIDE DEF m
  <2>4. /\ DOMAIN m.of \subseteq EnvelopeFields /\ Range(m.of) \cup m.payload \subseteq Range(file.header) \ {c}
        /\ \A f \in DOMAIN m.of :
             /\ m.of[f] \notin m.payload
             /\ \A g \in DOMAIN m.of : m.of[g] = m.of[f] => f = g
    BY <2>1 DEF MappingInv, Range
  <2>5. file \in Files
    BY <2>2 DEF MappingInv
  <2>6. CASE target = "payload"
    <3>1. mapping' = [of |-> m.of, payload |-> m.payload \cup {c}]
      BY <2>1, <2>3, <2>6
    <3>2. \A f \in DOMAIN m.of : m.of[f] # c
      BY <2>4 DEF Range
    <3> QED
      BY <2>2, <2>4, <2>5, <3>1, <3>2 DEF MappingInv
  <2>7. CASE target = "none"
    <3>1. mapping' = m
      BY <2>3, <2>7
    <3> QED
      BY <2>1, <2>2, <2>4, <2>5, <3>1 DEF MappingInv
  <2>8. CASE target \in EnvelopeFields
    <3>1. target # "payload" /\ target # "none"
      BY <2>8 DEF EnvelopeFields, FieldOrder, Range
    <3> DEFINE of == [f \in DOMAIN m.of \cup {target} |-> IF f = target THEN c ELSE m.of[f]]
    <3>2. mapping' = [of |-> of, payload |-> m.payload]
      BY <2>1, <2>3, <3>1
    <3>3. /\ DOMAIN of = DOMAIN m.of \cup {target} /\ of[target] = c
          /\ \A f \in DOMAIN m.of : f # target => of[f] = m.of[f]
      OBVIOUS
    <3> HIDE DEF of
    <3>4. \A f \in DOMAIN m.of : m.of[f] # c /\ m.of[f] \in Range(file.header)
      BY <2>4 DEF Range
    <3>5. DOMAIN of \subseteq EnvelopeFields /\ Range(of) \cup m.payload \subseteq Range(file.header)
      <4>1. \A f \in DOMAIN of : of[f] \in Range(file.header)
        BY <3>3, <3>4
      <4> QED
        BY <2>4, <2>8, <3>3, <4>1 DEF Range
    <3>6. ASSUME NEW f \in DOMAIN of
          PROVE  of[f] \notin m.payload /\ \A g \in DOMAIN of : of[g] = of[f] => f = g
      BY <2>4, <3>3, <3>4
    <3> QED
      BY <2>2, <2>5, <3>2, <3>5, <3>6 DEF MappingInv
  <2> QED
    BY <2>6, <2>7, <2>8
<1>5. ASSUME \/ Continue \/ Back \/ MapNext \/ CheckRows \/ PreflightAnswers \/ ValidateNext
             \/ Commit \/ SendRow \/ Committed \/ UNCHANGED uploadVars
             \/ \E cell \in SourceDefault : SetDefault(cell)
             \/ \E r \in flying : Deliver(r)
             \/ \E k \in DOMAIN posts : RowAnswered(k) \/ RowTimesOut(k)
      PROVE  MappingInv'
  <2>1. CASE Continue
    BY <2>1 DEF Continue, MappingInv, mapVars
  <2>2. CASE Back
    BY <2>2 DEF Back, MappingInv, mapVars
  <2>3. CASE \/ MapNext \/ CheckRows \/ PreflightAnswers \/ ValidateNext \/ Commit \/ SendRow \/ Committed \/ UNCHANGED uploadVars
    <3>1. UNCHANGED <<file, mapping>> /\ step' \in 0..4 /\ (step' = step \/ step # 0)
      BY <2>3 DEF MappingInv, MapNext, CheckRows, PreflightAnswers, ValidateNext, Commit, SendRow, Committed,
                  uploadVars, mapVars
    <3> QED
      BY <3>1 DEF MappingInv
  <2>4. CASE \/ \E cell \in SourceDefault : SetDefault(cell)
             \/ \E r \in flying : Deliver(r)
             \/ \E k \in DOMAIN posts : RowAnswered(k) \/ RowTimesOut(k)
    <3>1. UNCHANGED <<file, mapping, step>>
      BY <2>4 DEF SetDefault, Deliver, RowAnswered, RowTimesOut, mapVars
    <3> QED
      BY <3>1 DEF MappingInv
  <2> QED
    BY <1>5, <2>1, <2>2, <2>3, <2>4
<1>6. ASSUME Restart PROVE MappingInv'
  BY <1>6 DEF Restart, MappingInv, NoFile, NoMap, Range
<1> QED
  BY <1>2, <1>3, <1>4, <1>5, <1>6 DEF UploadNext

--------------------------------------------------------------------------------
\* The review.  What is checked depends on the file, the mapping and the defaults only.
LEMMA SameReview ==
    ASSUME UNCHANGED <<file, mapping, defaults, results>>
    PROVE  Checked' = Checked /\ Good' = Good /\ Answers' = Answers /\ Unassigned' = Unassigned
BY DEF Checked, Mapped, FieldCell, PageFinds, Good, Answers, FirstGood, VerdictOn, PayloadHits, Unassigned

LEMMA InitReview == UploadInit => ReviewInv
BY DEF UploadInit, ReviewInv

LEMMA ReviewStep == ReviewInv /\ [UploadNext]_uploadVars => ReviewInv'
<1> SUFFICES ASSUME ReviewInv, [UploadNext]_uploadVars PROVE ReviewInv'
  OBVIOUS
<1>1. ASSUME \/ Continue \/ ClearUpload \/ Restart
             \/ \E f \in Files : ChooseFile(f)
             \/ \E c \in Range(file.header), target \in EnvelopeFields \cup {"payload", "none"} : AssignColumn(c, target)
             \/ \E cell \in SourceDefault : SetDefault(cell)
      PROVE  ReviewInv'
  <2>1. check' = check /\ step' \in {0, 1}
    BY <1>1 DEF Continue, ClearUpload, Restart, ChooseFile, AssignColumn, SetDefault
  <2> QED
    BY <2>1 DEF ReviewInv
<1>2. ASSUME \/ Commit \/ SendRow \/ Committed \/ UNCHANGED uploadVars
             \/ \E r \in flying : Deliver(r)
             \/ \E k \in DOMAIN posts : RowAnswered(k) \/ RowTimesOut(k)
      PROVE  ReviewInv'
  <2>1. /\ UNCHANGED <<file, mapping, defaults, results, check, verdict>>
        /\ step' = step \/ (step = 3 /\ step' = 4)
    BY <1>2 DEF Commit, SendRow, Committed, Deliver, RowAnswered, RowTimesOut, uploadVars, mapVars
  <2>2. Checked' = Checked /\ Good' = Good /\ Answers' = Answers /\ Unassigned' = Unassigned
    BY <2>1, SameReview
  <2> QED
    BY <2>1, <2>2 DEF ReviewInv
<1>3. ASSUME Back PROVE ReviewInv'
  <2>1. /\ UNCHANGED <<file, mapping, defaults, results, verdict>> /\ step' \in {0, 1, 2} /\ (step' = 2 <=> step = 3)
        /\ check' = [phase |-> "rows", answer |-> "none"] \/ (step # 3 /\ check' = [phase |-> "none", answer |-> "none"])
    BY <1>3 DEF Back, mapVars
  <2>2. Checked' = Checked /\ Unassigned' = Unassigned
    BY <2>1, SameReview
  <2> QED
    BY <2>1, <2>2 DEF ReviewInv
<1>4. ASSUME MapNext PROVE ReviewInv'
  <2>1. UNCHANGED <<file, mapping>> /\ results' = <<>> /\ step' = 2 /\ Unassigned = {}
        /\ check' = [phase |-> "rows", answer |-> "none"]
    BY <1>4 DEF MapNext, mapVars, MappingComplete
  <2>2. Unassigned' = {}
    BY <2>1 DEF Unassigned
  <2> QED
    BY <2>1, <2>2 DEF ReviewInv
<1>5. ASSUME CheckRows PROVE ReviewInv'
  <2>1. step = 2 /\ step' = 2 /\ UNCHANGED <<file, mapping, defaults>> /\ check.phase = "rows"
    BY <1>5 DEF CheckRows, mapVars
  <2>2. Checked' /\ Unassigned' = Unassigned
    BY <2>1, <1>5 DEF CheckRows, Checked, Mapped, FieldCell, PageFinds, Unassigned
  <2>3. check' = IF Good' = {} THEN [phase |-> "done", answer |-> "disabled"] ELSE [check EXCEPT !.phase = "asking"]
    BY <1>5 DEF CheckRows
  <2>4. Good' # {} => check' = [phase |-> "asking", answer |-> check.answer]
    BY <2>3 DEF ReviewInv
  <2> QED
    BY <2>1, <2>2, <2>3, <2>4 DEF ReviewInv
<1>6. ASSUME PreflightAnswers PROVE ReviewInv'
  <2>1. step = 2 /\ step' = 2 /\ UNCHANGED <<file, mapping, defaults, results, verdict>> /\ check.phase = "asking"
    BY <1>6 DEF PreflightAnswers, mapVars
  <2>2. Checked' = Checked /\ Good' = Good /\ Answers' = Answers /\ Unassigned' = Unassigned
    BY <2>1, SameReview
  <2>3. PICK answer \in Answers : check' = [phase |-> "done", answer |-> answer]
    BY <1>6 DEF PreflightAnswers, Answers
  <2> QED
    BY <2>1, <2>2, <2>3 DEF ReviewInv
<1>7. ASSUME ValidateNext PROVE ReviewInv'
  <2>1. /\ step = 2 /\ step' = 3 /\ UNCHANGED <<file, mapping, defaults, results, check>> /\ verdict' = check.answer
        /\ check.phase = "done" /\ check.answer # "pii_blocking" /\ Good # {}
    BY <1>7 DEF ValidateNext, mapVars
  <2>2. Checked' = Checked /\ Answers' = Answers /\ Unassigned' = Unassigned
    BY <2>1, SameReview
  <2> QED
    BY <2>1, <2>2 DEF ReviewInv
<1> QED
  BY <1>1, <1>2, <1>3, <1>4, <1>5, <1>6, <1>7 DEF UploadNext

--------------------------------------------------------------------------------
\* The posts.  Of numbers up to a bound there is one with any smaller number of them below it.
LEMMA Ranks ==
    ASSUME NEW n \in Nat, NEW S \in SUBSET (1..n)
    PROVE  \A k \in 1..Cardinality(S) : \E i \in S : Cardinality({j \in S : j < i}) = k - 1
<1> DEFINE Below(i) == {j \in S : j < i}
           T == {k \in 1..Cardinality(S) : ~\E i \in S : Cardinality(Below(i)) = k - 1}
<1>1. IsFiniteSet(S) /\ Cardinality(S) \in Nat
  <2>1. IsFiniteSet(1..n)
    BY FS_Interval
  <2>2. IsFiniteSet(S)
    BY <2>1, FS_Subset
  <2> QED
    BY <2>2, FS_CardinalityType
<1>2. \A R \in SUBSET S : IsFiniteSet(R) /\ Cardinality(R) \in Nat
  BY <1>1, FS_Subset, FS_CardinalityType
<1> SUFFICES T = {}
  OBVIOUS
<1> SUFFICES ASSUME T # {} PROVE FALSE
  OBVIOUS
<1>3. T \in SUBSET Nat
  BY <1>1
<1>4. PICK m \in T : \A k \in T : m <= k
  BY <1>3, Smallest
<1>5. m \in 1..Cardinality(S) /\ ~\E i \in S : Cardinality(Below(i)) = m - 1
  OBVIOUS
<1>6. CASE m = 1
  <2>1. S # {}
    BY <1>1, <1>5, FS_EmptySet
  <2>2. PICK i \in S : \A j \in S : i <= j
    BY <2>1, Smallest
  <2>3. \A j \in S : ~(j < i)
    BY <2>2
  <2>4. Below(i) = {}
    BY <2>3
  <2>5. Cardinality(Below(i)) = 0
    BY <2>4, FS_EmptySet
  <2>6. Cardinality(Below(i)) = m - 1
    BY <1>6, <2>5
  <2> QED
    BY <1>5, <2>6
<1>7. CASE m # 1
  <2>1. m - 1 \in 1..Cardinality(S) /\ m - 1 \notin T
    BY <1>1, <1>4, <1>5, <1>7
  <2>2. PICK i \in S : Cardinality(Below(i)) = m - 2
    BY <2>1, <1>1
  <2> DEFINE C == Below(i) \cup {i}
  <2>3. Cardinality(C) = m - 1
    <3>1. i \notin Below(i) /\ IsFiniteSet(Below(i))
      BY <1>2
    <3>2. Cardinality(C) = Cardinality(Below(i)) + 1
      BY <3>1, FS_AddElement
    <3> QED
      BY <2>2, <3>2, <1>1, <1>5
  <2>4. C # S
    <3>1. m - 1 # Cardinality(S)
      BY <1>1, <1>5
    <3> QED
      BY <2>3, <3>1
  <2>5. PICK y \in S \ C : \A x \in S \ C : y <= x
    <3>1. C \subseteq S
      OBVIOUS
    <3>2. S \ C # {}
      <4> HIDE DEF C
      <4> QED
        BY <2>4, <3>1
    <3>3. S \ C \in SUBSET Nat
      <4>1. \A x \in S : x \in Nat
        OBVIOUS
      <4> HIDE DEF C
      <4> QED
        BY <4>1
    <3> HIDE DEF C
    <3> QED
      BY <3>2, <3>3, Smallest
  <2>6. y > i
    BY <2>5
  <2>7. Below(y) = C
    <3>1. \A j \in S : j < y => j \in C
      BY <2>5
    <3>2. \A j \in C : j \in S /\ j < y
      BY <2>6
    <3> QED
      BY <3>1, <3>2
  <2> QED
    BY <1>5, <2>3, <2>7
<1> QED
  BY <1>6, <1>7

LEMMA GoodInOrder ==
    ASSUME MappingInv, ReviewInv, step = 3
    PROVE  /\ Cardinality(Good) \in Nat
           /\ \A k \in 1..Cardinality(Good) : GoodAt(k) \in Good /\ (k = 1 => GoodAt(k) = FirstGood)
<1>1. file \in Files /\ Checked
  BY DEF MappingInv, ReviewInv
<1>2. PICK n \in Nat : DOMAIN results = 1..n
  <2>1. file.rows \in Seq(Range(file.rows))
    BY <1>1, UploadAssumption
  <2>2. DOMAIN results = DOMAIN file.rows
    BY <1>1 DEF Checked
  <2> QED
    BY <2>1, <2>2
<1>3. Good \in SUBSET (1..n)
  BY <1>2 DEF Good
<1>4. IsFiniteSet(Good) /\ Cardinality(Good) \in Nat
  <2>1. IsFiniteSet(1..n)
    BY FS_Interval
  <2>2. IsFiniteSet(Good)
    BY <1>3, <2>1, FS_Subset
  <2> QED
    BY <2>2, FS_CardinalityType
<1>5. ASSUME NEW k \in 1..Cardinality(Good)
      PROVE  GoodAt(k) \in Good /\ (k = 1 => GoodAt(k) = FirstGood)
  <2>1. \E i \in Good : Cardinality({j \in Good : j < i}) = k - 1
    BY <1>3, Ranks
  <2>2. GoodAt(k) \in Good /\ Cardinality({j \in Good : j < GoodAt(k)}) = k - 1
    BY <2>1 DEF GoodAt
  <2>3. ASSUME k = 1 PROVE GoodAt(k) = FirstGood
    <3> DEFINE i == GoodAt(k)
    <3>1. {j \in Good : j < i} = {}
      <4>1. IsFiniteSet({j \in Good : j < i})
        BY <1>4, FS_Subset
      <4>2. Cardinality({j \in Good : j < i}) = 0
        BY <2>2, <2>3
      <4> QED
        BY <4>1, <4>2, FS_EmptySet
    <3>2. i \in Good
      BY <2>2
    <3> HIDE DEF i
    <3>3. \A j \in Good : i <= j
      BY <3>1, <3>2, <1>3
    <3>4. FirstGood \in Good /\ \A j \in Good : FirstGood <= j
      BY <3>2, <3>3 DEF FirstGood
    <3>5. i = FirstGood
      BY <3>2, <3>3, <3>4, <1>3
    <3> QED
      BY <3>5 DEF i
  <2> QED
    BY <2>2, <2>3
<1> QED
  BY <1>4, <1>5

LEMMA InitPosts == UploadInit => PostsInv
<1> SUFFICES ASSUME UploadInit PROVE PostsInv
  OBVIOUS
<1>1. posts = <<>>
  BY DEF UploadInit
<1>2. DOMAIN posts = 1..0
  BY <1>1
<1> QED
  BY <1>1, <1>2 DEF PostsInv

\* A step of a worker, or of the control layer, changes one post or none, and not what it is made of.
PostKept(k) ==
  /\ k \in DOMAIN posts /\ posts' = [posts EXCEPT ![k] = posts'[k]]
  /\ IsPost(posts'[k]) /\ posts'[k].row = posts[k].row /\ posts'[k].envelope = posts[k].envelope

LEMMA PostSent ==
    ASSUME NEW k \in DOMAIN posts, IsPost(posts[k]), 
           posts' = [posts EXCEPT ![k].sent = TRUE]
    PROVE  PostKept(k) /\ posts'[k].sent = TRUE /\ posts'[k].status = posts[k].status
<1>1. /\ posts' = [posts EXCEPT ![k] = posts'[k]]
      /\ posts'[k] = [row |-> posts[k].row, envelope |-> posts[k].envelope, sent |-> TRUE,
                       status |-> posts[k].status, outcome |-> posts[k].outcome, lost |-> posts[k].lost]
  BY DEF IsPost
<1>2. /\ posts[k].sent \in BOOLEAN /\ posts[k].lost \in BOOLEAN
      /\ posts[k].status \in {"none", "accepted", "rejected", "duplicate"}
      /\ posts[k].outcome \in {"none", posts[k].status} \/ (posts[k].outcome = "rejected" /\ posts[k].lost)
  BY DEF IsPost
<1> DEFINE q == posts'[k]
<1>3. /\ q = [row |-> q.row, envelope |-> q.envelope, sent |-> q.sent, status |-> q.status, outcome |-> q.outcome,
              lost |-> q.lost]
      /\ q.row = posts[k].row /\ q.envelope = posts[k].envelope
      /\ q.sent = TRUE /\ q.status = posts[k].status
      /\ q.outcome = posts[k].outcome /\ q.lost = posts[k].lost
  BY <1>1
<1> HIDE DEF q
<1>4. IsPost(q)
  BY <1>2, <1>3 DEF IsPost
<1> QED
  BY <1>1, <1>3, <1>4 DEF q, PostKept

LEMMA PostDealtWith ==
    ASSUME NEW k \in DOMAIN posts, IsPost(posts[k]), posts[k].status = "none",
           NEW st \in {"accepted", "rejected", "duplicate"},
           posts' = [posts EXCEPT ![k].status = st]
    PROVE  PostKept(k) /\ posts'[k].sent = posts[k].sent /\ posts'[k].status = st /\ posts'[k].outcome = posts[k].outcome
<1>1. /\ posts' = [posts EXCEPT ![k] = posts'[k]]
      /\ posts'[k] = [row |-> posts[k].row, envelope |-> posts[k].envelope, sent |-> posts[k].sent,
                       status |-> st, outcome |-> posts[k].outcome, lost |-> posts[k].lost]
  BY DEF IsPost
<1>2. /\ posts[k].sent \in BOOLEAN /\ posts[k].lost \in BOOLEAN
      /\ posts[k].status \in {"none", "accepted", "rejected", "duplicate"}
      /\ posts[k].outcome \in {"none", posts[k].status} \/ (posts[k].outcome = "rejected" /\ posts[k].lost)
  BY DEF IsPost
<1> DEFINE q == posts'[k]
<1>3. /\ q = [row |-> q.row, envelope |-> q.envelope, sent |-> q.sent, status |-> q.status, outcome |-> q.outcome,
              lost |-> q.lost]
      /\ q.row = posts[k].row /\ q.envelope = posts[k].envelope
      /\ q.sent = posts[k].sent /\ q.status = st
      /\ q.outcome = posts[k].outcome /\ q.lost = posts[k].lost
  BY <1>1
<1> HIDE DEF q
<1>4. IsPost(q)
  BY <1>2, <1>3 DEF IsPost
<1> QED
  BY <1>1, <1>3, <1>4 DEF q, PostKept

LEMMA PostReported ==
    ASSUME NEW k \in DOMAIN posts, IsPost(posts[k]), 
           posts' = [posts EXCEPT ![k].outcome = posts[k].status]
    PROVE  PostKept(k) /\ posts'[k].sent = posts[k].sent /\ posts'[k].status = posts[k].status
           /\ posts'[k].outcome = posts[k].status
<1>1. /\ posts' = [posts EXCEPT ![k] = posts'[k]]
      /\ posts'[k] = [row |-> posts[k].row, envelope |-> posts[k].envelope, sent |-> posts[k].sent,
                       status |-> posts[k].status, outcome |-> posts[k].status, lost |-> posts[k].lost]
  BY DEF IsPost
<1>2. /\ posts[k].sent \in BOOLEAN /\ posts[k].lost \in BOOLEAN
      /\ posts[k].status \in {"none", "accepted", "rejected", "duplicate"}
      /\ posts[k].outcome \in {"none", posts[k].status} \/ (posts[k].outcome = "rejected" /\ posts[k].lost)
  BY DEF IsPost
<1> DEFINE q == posts'[k]
<1>3. /\ q = [row |-> q.row, envelope |-> q.envelope, sent |-> q.sent, status |-> q.status, outcome |-> q.outcome,
              lost |-> q.lost]
      /\ q.row = posts[k].row /\ q.envelope = posts[k].envelope
      /\ q.sent = posts[k].sent /\ q.status = posts[k].status
      /\ q.outcome = posts[k].status /\ q.lost = posts[k].lost
  BY <1>1
<1> HIDE DEF q
<1>4. IsPost(q)
  BY <1>2, <1>3 DEF IsPost
<1> QED
  BY <1>1, <1>3, <1>4 DEF q, PostKept

LEMMA PostTimedOut ==
    ASSUME NEW k \in DOMAIN posts, IsPost(posts[k]), 
           posts' = [posts EXCEPT ![k].outcome = "rejected", ![k].lost = TRUE]
    PROVE  PostKept(k) /\ posts'[k].sent = posts[k].sent /\ posts'[k].status = posts[k].status
           /\ posts'[k].outcome = "rejected"
<1>1. /\ posts' = [posts EXCEPT ![k] = posts'[k]]
      /\ posts'[k] = [row |-> posts[k].row, envelope |-> posts[k].envelope, sent |-> posts[k].sent,
                       status |-> posts[k].status, outcome |-> "rejected", lost |-> TRUE]
  BY DEF IsPost
<1>2. /\ posts[k].sent \in BOOLEAN /\ posts[k].lost \in BOOLEAN
      /\ posts[k].status \in {"none", "accepted", "rejected", "duplicate"}
      /\ posts[k].outcome \in {"none", posts[k].status} \/ (posts[k].outcome = "rejected" /\ posts[k].lost)
  BY DEF IsPost
<1> DEFINE q == posts'[k]
<1>3. /\ q = [row |-> q.row, envelope |-> q.envelope, sent |-> q.sent, status |-> q.status, outcome |-> q.outcome,
              lost |-> q.lost]
      /\ q.row = posts[k].row /\ q.envelope = posts[k].envelope
      /\ q.sent = posts[k].sent /\ q.status = posts[k].status
      /\ q.outcome = "rejected" /\ q.lost = TRUE
  BY <1>1
<1> HIDE DEF q
<1>4. IsPost(q)
  BY <1>2, <1>3 DEF IsPost
<1> QED
  BY <1>1, <1>3, <1>4 DEF q, PostKept

LEMMA RowStep ==
    ASSUME SendInv,
           \/ SendRow
           \/ \E r \in flying : Deliver(r)
           \/ \E k \in DOMAIN posts : RowAnswered(k) \/ RowTimesOut(k)
    PROVE  UNCHANGED <<step, results, commits>> /\ (posts' = posts \/ \E k \in DOMAIN posts : PostKept(k))
<1>1. \A k \in DOMAIN posts : IsPost(posts[k])
  BY DEF SendInv
<1>2. ASSUME SendRow PROVE UNCHANGED <<step, results, commits>> /\ \E k \in DOMAIN posts : PostKept(k)
  <2>1. PICK k \in DOMAIN posts : posts' = [posts EXCEPT ![k].sent = TRUE]
    BY <1>2 DEF SendRow
  <2>2. PostKept(k)
    BY <1>1, <2>1, PostSent
  <2> QED
    BY <1>2, <2>2 DEF SendRow
<1>3. ASSUME NEW r \in flying, Deliver(r)
      PROVE  UNCHANGED <<step, results, commits>> /\ (posts' = posts \/ \E k \in DOMAIN posts : PostKept(k))
  <2>1. CASE OfPosts(r)
    <3>1. posts' = [posts EXCEPT ![r.post].status = StatusOf(r.envelope)] /\ r.post \in DOMAIN posts
      BY <1>3, <2>1 DEF Deliver, OfPosts
    <3>2. StatusOf(r.envelope) \in {"accepted", "rejected", "duplicate"}
      BY DEF StatusOf
    <3>3. posts[r.post].status = "none"
      BY <2>1 DEF SendInv
    <3>4. PostKept(r.post)
      BY <1>1, <3>1, <3>2, <3>3, PostDealtWith
    <3> QED
      BY <1>3, <3>1, <3>4 DEF Deliver
  <2>2. CASE ~OfPosts(r)
    BY <1>3, <2>2 DEF Deliver, OfPosts
  <2> QED
    BY <2>1, <2>2
<1>4. ASSUME NEW k \in DOMAIN posts, RowAnswered(k)
      PROVE  UNCHANGED <<step, results, commits>> /\ PostKept(k)
  BY <1>1, <1>4, PostReported DEF RowAnswered
<1>5. ASSUME NEW k \in DOMAIN posts, RowTimesOut(k)
      PROVE  UNCHANGED <<step, results, commits>> /\ PostKept(k)
  BY <1>1, <1>5, PostTimedOut DEF RowTimesOut
<1> QED
  BY <1>2, <1>3, <1>4, <1>5

LEMMA PostsStep ==
    MappingInv /\ ReviewInv /\ PostsInv /\ SendInv /\ [UploadNext]_uploadVars => PostsInv'
<1> SUFFICES ASSUME MappingInv, ReviewInv, PostsInv, SendInv, [UploadNext]_uploadVars PROVE PostsInv'
  OBVIOUS
<1>1. ASSUME posts' = <<>> PROVE PostsInv'
  <2>1. DOMAIN posts' = 1..0
    BY <1>1
  <2> QED
    BY <1>1, <2>1 DEF PostsInv
<1>2. ASSUME \/ Continue \/ ClearUpload \/ Back \/ MapNext \/ CheckRows \/ PreflightAnswers \/ ValidateNext
             \/ \E f \in Files : ChooseFile(f)
             \/ \E c \in Range(file.header), target \in EnvelopeFields \cup {"payload", "none"} : AssignColumn(c, target)
             \/ \E cell \in SourceDefault : SetDefault(cell)
      PROVE  PostsInv'
  <2>1. step \in {0, 1, 2} \/ posts = <<>>
    BY <1>2 DEF Continue, ClearUpload, Back, MapNext, CheckRows, PreflightAnswers, ValidateNext, ChooseFile, AssignColumn,
                SetDefault
  <2>2. posts' = posts
    BY <1>2 DEF Continue, ClearUpload, Back, MapNext, CheckRows, PreflightAnswers, ValidateNext, ChooseFile, AssignColumn,
                SetDefault, sendVars
  <2>3. posts = <<>>
    BY <2>1 DEF PostsInv
  <2> QED
    BY <1>1, <2>2, <2>3
<1>3. ASSUME Restart PROVE PostsInv'
  BY <1>1, <1>3 DEF Restart
<1>4. ASSUME Committed \/ UNCHANGED uploadVars PROVE PostsInv'
  <2>1. UNCHANGED <<posts, results>> /\ step' \in {step, 4}
    BY <1>4 DEF Committed, uploadVars, sendVars
  <2> QED
    BY <2>1 DEF PostsInv, Good, FirstGood
<1>5. ASSUME Commit PROVE PostsInv'
  <2>1. step = 3 /\ UNCHANGED <<step, results>>
    BY <1>5 DEF Commit
  <2>2. posts' = [k \in 1..Cardinality(Good) |->
                    [row |-> GoodAt(k), envelope |-> results[GoodAt(k)].envelope, sent |-> FALSE, status |-> "none",
                     outcome |-> "none", lost |-> FALSE]]
    BY <1>5 DEF Commit
  <2>3. Good' = Good /\ FirstGood' = FirstGood
    BY <2>1 DEF Good, FirstGood
  <2>4. /\ Cardinality(Good) \in Nat
        /\ \A k \in 1..Cardinality(Good) : GoodAt(k) \in Good /\ (k = 1 => GoodAt(k) = FirstGood)
    BY <2>1, GoodInOrder
  <2> QED
    BY <2>1, <2>2, <2>3, <2>4 DEF PostsInv
<1>6. ASSUME \/ SendRow
             \/ \E r \in flying : Deliver(r)
             \/ \E k \in DOMAIN posts : RowAnswered(k) \/ RowTimesOut(k)
      PROVE  PostsInv'
  <2>1. UNCHANGED <<step, results>> /\ (posts' = posts \/ \E k \in DOMAIN posts : PostKept(k))
    BY <1>6, RowStep
  <2>2. Good' = Good /\ FirstGood' = FirstGood
    BY <2>1 DEF Good, FirstGood
  <2>3. CASE posts' = posts
    BY <2>1, <2>2, <2>3 DEF PostsInv
  <2>4. ASSUME NEW k \in DOMAIN posts, PostKept(k) PROVE PostsInv'
    <3>1. DOMAIN posts' = DOMAIN posts
      BY <2>4 DEF PostKept
    <3>2. \A j \in DOMAIN posts : posts'[j].row = posts[j].row /\ posts'[j].envelope = posts[j].envelope
      BY <2>4 DEF PostKept
    <3>3. step \in {3, 4}
      BY DEF PostsInv
    <3> QED
      BY <2>1, <2>2, <3>1, <3>2, <3>3 DEF PostsInv
  <2> QED
    BY <2>1, <2>3, <2>4
<1> QED
  BY <1>2, <1>3, <1>4, <1>5, <1>6 DEF UploadNext

--------------------------------------------------------------------------------
\* What was sent.  The posts under way are no more than the workers.
LEMMA InFlightKept ==
    ASSUME PostsInv, SendInv, NEW T \in SUBSET InFlight
    PROVE  Cardinality(T) <= Workers
<1>1. PICK n \in Nat : DOMAIN posts = 1..n
  BY DEF PostsInv
<1>2. IsFiniteSet(InFlight)
  <2>1. IsFiniteSet(1..n)
    BY FS_Interval
  <2>2. InFlight \in SUBSET (1..n)
    BY <1>1 DEF InFlight
  <2> QED
    BY <2>1, <2>2, FS_Subset
<1>3. IsFiniteSet(T) /\ Cardinality(T) <= Cardinality(InFlight)
  BY <1>2, FS_Subset
<1>4. Cardinality(InFlight) \in Nat /\ Cardinality(T) \in Nat
  BY <1>2, <1>3, FS_CardinalityType
<1> QED
  BY <1>3, <1>4, UploadAssumption DEF SendInv

LEMMA InitSend == UploadInit => SendInv
<1> SUFFICES ASSUME UploadInit PROVE SendInv
  OBVIOUS
<1>1. posts = <<>> /\ flying = {} /\ stored = {} /\ commits = 0
  BY DEF UploadInit
<1>2. InFlight = {}
  BY <1>1 DEF InFlight
<1>3. Cardinality(InFlight) = 0
  BY <1>2, FS_EmptySet
<1> QED
  BY <1>1, <1>3, UploadAssumption DEF SendInv, StoredOnce

\* Between two commits, or in a step of the wizard.
LEMMA SendStepOfWizard ==
    ASSUME SendInv, UNCHANGED sendVars \/ (posts' = <<>> /\ UNCHANGED <<flying, stored, commits>>)
    PROVE  SendInv'
<1>1. CASE UNCHANGED sendVars
  BY <1>1 DEF SendInv, sendVars, Mine, OfPosts, StoredOnce, InFlight
<1>2. CASE posts' = <<>> /\ UNCHANGED <<flying, stored, commits>>
  <2>1. InFlight' = {}
    BY <1>2 DEF InFlight
  <2>2. Cardinality(InFlight') <= Workers
    BY <2>1, FS_EmptySet, UploadAssumption
  <2>3. DOMAIN posts' = {}
    BY <1>2
  <2> QED
    BY <1>2, <2>2, <2>3 DEF SendInv, StoredOnce, OfPosts
<1> QED
  BY <1>1, <1>2

LEMMA SendStepCommit ==
    ASSUME SendInv, Commit
    PROVE  SendInv'
<1>1. /\ commits < MaxCommits /\ commits' = commits + 1 /\ UNCHANGED <<flying, stored>>
      /\ posts' = [k \in 1..Cardinality(Good) |->
                    [row |-> GoodAt(k), envelope |-> results[GoodAt(k)].envelope, sent |-> FALSE, status |-> "none",
                     outcome |-> "none", lost |-> FALSE]]
  BY DEF Commit
<1>2. commits \in 0..MaxCommits /\ commits \in Nat
  BY UploadAssumption DEF SendInv
<1>3. ASSUME NEW k \in DOMAIN posts' PROVE IsPost(posts'[k]) /\ posts'[k].status = "none" /\ ~posts'[k].sent
  BY <1>1 DEF IsPost
<1>4. \A r \in flying \cup stored :
        /\ r = [commit |-> r.commit, post |-> r.post, envelope |-> r.envelope] /\ r.commit \in 0..commits'
        /\ r.commit # commits'
  BY <1>1, <1>2 DEF SendInv
<1>5. \A k : Mine(k)' = {}
  BY <1>1, <1>4 DEF Mine
<1>6. InFlight' = {}
  BY <1>3 DEF InFlight
<1>7. Cardinality(InFlight') <= Workers
  BY <1>6, FS_EmptySet, UploadAssumption
<1>8. StoredOnce'
  BY <1>1 DEF SendInv, StoredOnce
<1>9. \A r \in flying' \cup stored' : ~OfPosts(r)'
  BY <1>1, <1>4 DEF OfPosts
<1>10. commits' \in 0..MaxCommits
  BY <1>1, <1>2, UploadAssumption
<1>11. \A k \in DOMAIN posts' :
       /\ IsPost(posts'[k])
       /\ posts'[k].status # "none" => posts'[k].sent
       /\ posts'[k].status \in {"none", "rejected"} => Mine(k)' = {}
       /\ posts'[k].status = "accepted" => Mine(k)' # {}
       /\ posts'[k].status = "duplicate" =>
            Mine(k)' = {} /\ \E s \in stored' : IdOf(s.envelope) = IdOf(posts'[k].envelope)
  BY <1>3, <1>5
<1>12. \A r \in flying' \cup stored' :
        r = [commit |-> r.commit, post |-> r.post, envelope |-> r.envelope] /\ r.commit \in 0..commits'
  BY <1>1, <1>4
<1> QED
  BY <1>7, <1>8, <1>9, <1>10, <1>11, <1>12 DEF SendInv

\* What is stored and under way agrees with the posts when none of them was dealt with.
LEMMA SendStepOfWorker ==
    ASSUME PostsInv, SendInv, NEW k, PostKept(k), UNCHANGED <<stored, commits>>,
           posts'[k].status = posts[k].status, posts[k].sent => posts'[k].sent,
           \A r \in flying' : \/ r \in flying
                              \/ /\ r = [commit |-> commits, post |-> k, envelope |-> posts[k].envelope]
                                 /\ posts'[k].sent /\ posts[k].status = "none",
           Cardinality(InFlight') <= Workers
    PROVE  SendInv'
<1>1. /\ DOMAIN posts' = DOMAIN posts /\ k \in DOMAIN posts
      /\ \A j \in DOMAIN posts : j # k => posts'[j] = posts[j]
      /\ IsPost(posts'[k]) /\ posts'[k].envelope = posts[k].envelope
  BY DEF PostKept
<1>2. \A j : Mine(j)' = Mine(j)
  BY DEF Mine
<1>3. ASSUME NEW j \in DOMAIN posts'
      PROVE  /\ IsPost(posts'[j])
             /\ posts'[j].status # "none" => posts'[j].sent
             /\ posts'[j].status \in {"none", "rejected"} => Mine(j)' = {}
             /\ posts'[j].status = "accepted" => Mine(j)' # {}
             /\ posts'[j].status = "duplicate" =>
                  Mine(j)' = {} /\ \E s \in stored' : IdOf(s.envelope) = IdOf(posts'[j].envelope)
  BY <1>1, <1>2 DEF SendInv
<1>4. ASSUME NEW r \in flying' \cup stored', r \in flying \cup stored
      PROVE  /\ r = [commit |-> r.commit, post |-> r.post, envelope |-> r.envelope] /\ r.commit \in 0..commits'
             /\ OfPosts(r)' => r.envelope = posts'[r.post].envelope /\ posts'[r.post].sent
             /\ r \in flying' /\ OfPosts(r)' /\ r \in flying => posts'[r.post].status = "none"
  BY <1>1, <1>4 DEF SendInv, OfPosts
<1>5. ASSUME NEW r, r = [commit |-> commits, post |-> k, envelope |-> posts[k].envelope],
             posts'[k].sent, posts[k].status = "none"
      PROVE  /\ r = [commit |-> r.commit, post |-> r.post, envelope |-> r.envelope] /\ r.commit \in 0..commits'
             /\ OfPosts(r)' => r.envelope = posts'[r.post].envelope /\ posts'[r.post].sent
             /\ OfPosts(r)' => posts'[r.post].status = "none"
  <2>1. r.commit = commits /\ r.post = k /\ r.envelope = posts[k].envelope
    BY <1>5
  <2>2. commits \in 0..commits
    BY UploadAssumption DEF SendInv
  <2> QED
    BY <1>1, <1>5, <2>1, <2>2
<1>6. StoredOnce' /\ commits' \in 0..MaxCommits
  BY DEF SendInv, StoredOnce
<1>7. \A r \in flying' \cup stored' :
       /\ r = [commit |-> r.commit, post |-> r.post, envelope |-> r.envelope] /\ r.commit \in 0..commits'
       /\ OfPosts(r)' => r.envelope = posts'[r.post].envelope /\ posts'[r.post].sent
  BY <1>4, <1>5
<1>8. ASSUME NEW r \in flying' PROVE OfPosts(r)' => posts'[r.post].status = "none"
  <2>1. CASE r \in flying
    BY <1>4, <2>1
  <2>2. CASE r \notin flying
    BY <1>5, <2>2
  <2> QED
    BY <2>1, <2>2
<1> QED
  BY <1>3, <1>6, <1>7, <1>8 DEF SendInv

LEMMA SendStepRow ==
    ASSUME PostsInv, SendInv, SendRow
    PROVE  SendInv'
<1>1. PICK k \in DOMAIN posts :
        /\ ~posts[k].sent /\ posts' = [posts EXCEPT ![k].sent = TRUE]
        /\ flying' = flying \cup {[commit |-> commits, post |-> k, envelope |-> posts[k].envelope]}
  BY DEF SendRow
<1>2. UNCHANGED <<stored, commits>> /\ Cardinality(InFlight) < Workers
  BY DEF SendRow
<1>3. IsPost(posts[k])
  BY DEF SendInv
<1>4. PostKept(k) /\ posts'[k].sent = TRUE /\ posts'[k].status = posts[k].status
  BY <1>1, <1>3, PostSent
<1>5. posts[k].status = "none"
  BY <1>1 DEF SendInv
<1>6. Cardinality(InFlight') <= Workers
  <2>1. PICK n \in Nat : DOMAIN posts = 1..n
    BY DEF PostsInv
  <2>2. IsFiniteSet(InFlight)
    <3>1. IsFiniteSet(1..n)
      BY FS_Interval
    <3>2. InFlight \in SUBSET (1..n)
      BY <2>1 DEF InFlight
    <3> QED
      BY <3>1, <3>2, FS_Subset
  <2>3. InFlight' \subseteq InFlight \cup {k}
    BY <1>4 DEF PostKept, InFlight
  <2>4. IsFiniteSet(InFlight \cup {k}) /\ Cardinality(InFlight \cup {k}) <= Cardinality(InFlight) + 1
    <3>1. Cardinality(InFlight) \in Nat
      BY <2>2, FS_CardinalityType
    <3>2. /\ IsFiniteSet(InFlight \cup {k})
          /\ Cardinality(InFlight \cup {k}) = IF k \in InFlight THEN Cardinality(InFlight) ELSE Cardinality(InFlight) + 1
      BY <2>2, FS_AddElement
    <3> QED
      BY <3>1, <3>2
  <2>5. IsFiniteSet(InFlight') /\ Cardinality(InFlight') <= Cardinality(InFlight \cup {k})
    BY <2>3, <2>4, FS_Subset
  <2>6. Cardinality(InFlight) \in Nat /\ Cardinality(InFlight') \in Nat /\ Cardinality(InFlight \cup {k}) \in Nat
    BY <2>2, <2>4, <2>5, FS_CardinalityType
  <2> QED
    BY <1>2, <2>4, <2>5, <2>6, UploadAssumption
<1> QED
  BY <1>1, <1>2, <1>4, <1>5, <1>6, SendStepOfWorker

LEMMA SendStepAnswer ==
    ASSUME PostsInv, SendInv, NEW k \in DOMAIN posts, RowAnswered(k) \/ RowTimesOut(k)
    PROVE  SendInv'
<1>1. IsPost(posts[k])
  BY DEF SendInv
<1>2. PostKept(k) /\ posts'[k].sent = posts[k].sent /\ posts'[k].status = posts[k].status
      /\ posts'[k].outcome \in {posts[k].status, "rejected"}
  <2>1. CASE RowAnswered(k)
    BY <1>1, <2>1, PostReported DEF RowAnswered
  <2>2. CASE RowTimesOut(k)
    BY <1>1, <2>2, PostTimedOut DEF RowTimesOut
  <2> QED
    BY <2>1, <2>2
<1>3. UNCHANGED <<flying, stored, commits>> /\ posts[k].outcome = "none"
  BY DEF RowAnswered, RowTimesOut, InFlight
<1>4. InFlight' \subseteq InFlight
  BY <1>2, <1>3 DEF PostKept, InFlight
<1>5. Cardinality(InFlight') <= Workers
  BY <1>4, InFlightKept
<1> QED
  BY <1>2, <1>3, <1>5, SendStepOfWorker

LEMMA SendStepDeliver ==
    ASSUME PostsInv, SendInv, NEW r \in flying, Deliver(r)
    PROVE  SendInv'
<1> DEFINE st == StatusOf(r.envelope)
<1>1. /\ commits' = commits /\ flying' = flying \ {r}
      /\ stored' = IF st = "accepted" THEN stored \cup {r} ELSE stored
  BY DEF Deliver
<1>2. /\ st \in {"accepted", "rejected", "duplicate"}
      /\ st = "duplicate" => \E s \in stored : IdOf(s.envelope) = IdOf(r.envelope)
      /\ st = "accepted" => \A s \in stored : IdOf(s.envelope) # IdOf(r.envelope)
  BY DEF StatusOf
<1> HIDE DEF st
<1>3. StoredOnce'
  BY <1>1, <1>2 DEF SendInv, StoredOnce
<1>4. commits' \in 0..MaxCommits
  BY <1>1 DEF SendInv
<1>5. \A s \in flying' \cup stored' :
        s \in flying \cup stored /\ s = [commit |-> s.commit, post |-> s.post, envelope |-> s.envelope]
        /\ s.commit \in 0..commits'
  BY <1>1 DEF SendInv
<1>6. CASE ~OfPosts(r)
  <2>1. posts' = posts
    BY <1>6 DEF Deliver, OfPosts
  <2>2. \A j \in DOMAIN posts : Mine(j)' = Mine(j)
    BY <1>1, <1>6 DEF Mine, OfPosts
  <2>3. InFlight' \subseteq InFlight
    BY <2>1 DEF InFlight
  <2>4. Cardinality(InFlight') <= Workers
    BY <2>3, InFlightKept
  <2>5. ASSUME NEW j \in DOMAIN posts'
        PROVE  /\ IsPost(posts'[j])
               /\ posts'[j].status # "none" => posts'[j].sent
               /\ posts'[j].status \in {"none", "rejected"} => Mine(j)' = {}
               /\ posts'[j].status = "accepted" => Mine(j)' # {}
               /\ posts'[j].status = "duplicate" =>
                    Mine(j)' = {} /\ \E s \in stored' : IdOf(s.envelope) = IdOf(posts'[j].envelope)
    BY <1>1, <2>1, <2>2 DEF SendInv
  <2>6. \A s \in flying' \cup stored' : OfPosts(s)' => s.envelope = posts'[s.post].envelope /\ posts'[s.post].sent
    BY <1>1, <1>5, <2>1 DEF SendInv, OfPosts
  <2>7. \A s \in flying' : OfPosts(s)' => posts'[s.post].status = "none"
    BY <1>1, <2>1 DEF SendInv, OfPosts
  <2> QED
    BY <1>3, <1>4, <1>5, <2>4, <2>5, <2>6, <2>7 DEF SendInv
<1>7. CASE OfPosts(r)
  <2> DEFINE k == r.post
  <2>1. /\ k \in DOMAIN posts /\ r.commit = commits /\ r.envelope = posts[k].envelope /\ posts[k].sent
        /\ posts[k].status = "none" /\ IsPost(posts[k]) /\ Mine(k) = {}
    BY <1>7 DEF SendInv, OfPosts
  <2>2. posts' = [posts EXCEPT ![k].status = st]
    BY <1>7 DEF Deliver, OfPosts, st
  <2>3. r = [commit |-> commits, post |-> k, envelope |-> posts[k].envelope]
    BY <2>1 DEF SendInv
  <2>4. PostKept(k) /\ posts'[k].sent = posts[k].sent /\ posts'[k].status = st /\ posts'[k].outcome = posts[k].outcome
    BY <1>2, <2>1, <2>2, PostDealtWith
  <2>5. r.post = k
    OBVIOUS
  <2> HIDE DEF k
  <2>6. /\ DOMAIN posts' = DOMAIN posts /\ \A j \in DOMAIN posts : j # k => posts'[j] = posts[j]
        /\ IsPost(posts'[k]) /\ posts'[k].envelope = posts[k].envelope
    BY <2>1, <2>4 DEF PostKept
  <2>7. InFlight' \subseteq InFlight
    BY <2>4, <2>6 DEF InFlight
  <2>8. Cardinality(InFlight') <= Workers
    BY <2>7, InFlightKept
  <2>9. \A j \in DOMAIN posts : j # k => Mine(j)' = Mine(j)
    BY <1>1, <2>5 DEF Mine
  <2>10. Mine(k)' = IF st = "accepted" THEN {r} ELSE {}
    BY <1>1, <2>1, <2>5 DEF Mine
  <2>11. ASSUME NEW j \in DOMAIN posts', j = k
         PROVE  /\ IsPost(posts'[j])
                /\ posts'[j].status # "none" => posts'[j].sent
                /\ posts'[j].status \in {"none", "rejected"} => Mine(j)' = {}
                /\ posts'[j].status = "accepted" => Mine(j)' # {}
                /\ posts'[j].status = "duplicate" =>
                     Mine(j)' = {} /\ \E s \in stored' : IdOf(s.envelope) = IdOf(posts'[j].envelope)
    BY <1>1, <1>2, <2>1, <2>4, <2>6, <2>10, <2>11
  <2>12. ASSUME NEW j \in DOMAIN posts', j # k
         PROVE  /\ IsPost(posts'[j])
                /\ posts'[j].status # "none" => posts'[j].sent
                /\ posts'[j].status \in {"none", "rejected"} => Mine(j)' = {}
                /\ posts'[j].status = "accepted" => Mine(j)' # {}
                /\ posts'[j].status = "duplicate" =>
                     Mine(j)' = {} /\ \E s \in stored' : IdOf(s.envelope) = IdOf(posts'[j].envelope)
    BY <1>1, <2>6, <2>9, <2>12 DEF SendInv
  <2>13. \A s \in flying' \cup stored' : OfPosts(s)' => s.envelope = posts'[s.post].envelope /\ posts'[s.post].sent
    BY <1>1, <1>5, <2>1, <2>4, <2>6 DEF SendInv, OfPosts
  <2>14. ASSUME NEW s \in flying', OfPosts(s)' PROVE posts'[s.post].status = "none"
    <3>1. s \in flying /\ s # r /\ OfPosts(s)
      BY <1>1, <2>6, <2>14 DEF OfPosts
    <3>2. s = [commit |-> commits, post |-> s.post, envelope |-> posts[s.post].envelope]
      BY <3>1 DEF SendInv, OfPosts
    <3>3. s.post # k
      BY <2>3, <3>1, <3>2
    <3> QED
      BY <2>6, <3>1, <3>3 DEF SendInv, OfPosts
  <2> QED
    BY <1>3, <1>4, <1>5, <2>8, <2>11, <2>12, <2>13, <2>14 DEF SendInv
<1> QED
  BY <1>6, <1>7

LEMMA SendStep == PostsInv /\ SendInv /\ [UploadNext]_uploadVars => SendInv'
<1> SUFFICES ASSUME PostsInv, SendInv, [UploadNext]_uploadVars PROVE SendInv'
  OBVIOUS
<1>1. ASSUME \/ Continue \/ ClearUpload \/ Back \/ MapNext \/ CheckRows \/ PreflightAnswers \/ ValidateNext \/ Committed
             \/ \E f \in Files : ChooseFile(f)
             \/ \E c \in Range(file.header), target \in EnvelopeFields \cup {"payload", "none"} : AssignColumn(c, target)
             \/ \E cell \in SourceDefault : SetDefault(cell)
             \/ UNCHANGED uploadVars
      PROVE  SendInv'
  <2>1. UNCHANGED sendVars
    BY <1>1 DEF Continue, ClearUpload, Back, MapNext, CheckRows, PreflightAnswers, ValidateNext, Committed, ChooseFile,
                AssignColumn, SetDefault, uploadVars, sendVars
  <2> QED
    BY <2>1, SendStepOfWizard
<1>2. ASSUME Restart PROVE SendInv'
  BY <1>2, SendStepOfWizard DEF Restart
<1>3. ASSUME NEW k \in DOMAIN posts, RowAnswered(k) \/ RowTimesOut(k) PROVE SendInv'
  BY <1>3, SendStepAnswer
<1> QED
  BY <1>1, <1>2, <1>3, SendStepCommit, SendStepRow, SendStepDeliver DEF UploadNext

--------------------------------------------------------------------------------
LEMMA InvIsTyped == UploadInv => UploadTypeOK
<1> SUFFICES ASSUME UploadInv PROVE UploadTypeOK
  OBVIOUS
<1> USE DEF UploadInv
<1>1. /\ step \in 0..4 /\ (file = NoFile \/ file \in Files) /\ DOMAIN mapping.of \subseteq EnvelopeFields
      /\ Range(mapping.of) \cup mapping.payload \subseteq Range(file.header)
  BY DEF MappingInv
<1>2. step >= 2 => Len(results) \in {0, Len(file.rows)}
  <2> SUFFICES ASSUME step >= 2 PROVE Len(results) \in {0, Len(file.rows)}
    OBVIOUS
  <2>1. step \in {2, 3, 4}
    BY <1>1
  <2>2. results = <<>> \/ Checked
    BY <2>1 DEF ReviewInv
  <2>3. CASE Checked
    <3>1. file.rows \in Seq(Range(file.rows))
      BY <2>1, UploadAssumption DEF MappingInv
    <3>2. results = [i \in 1..Len(file.rows) |-> results[i]]
      BY <2>3, <3>1 DEF Checked
    <3>3. Len(results) = Len(file.rows)
      BY <3>1, <3>2
    <3> QED
      BY <3>3
  <2> QED
    BY <2>2, <2>3
<1>3. check.phase \in {"none", "rows", "asking", "done"}
  BY DEF ReviewInv
<1>4. \A k \in DOMAIN posts : posts[k].outcome \in {"none", "accepted", "rejected", "duplicate"}
  BY DEF SendInv, IsPost
<1>5. commits \in 0..MaxCommits /\ Cardinality(InFlight) <= Workers
  BY DEF SendInv
<1> QED
  BY <1>1, <1>2, <1>3, <1>4, <1>5 DEF UploadTypeOK

LEMMA InvIsReviewed == UploadInv => ReviewIsOfMapping
<1> SUFFICES ASSUME UploadInv, step = 3 PROVE ReviewIsOfMapping
  BY DEF ReviewIsOfMapping
<1>1. Checked /\ file \in Files
  BY DEF UploadInv, ReviewInv, MappingInv
<1>2. file.rows \in Seq(Range(file.rows))
  BY <1>1, UploadAssumption
<1>3. results = [i \in 1..Len(file.rows) |-> results[i]]
  BY <1>1, <1>2 DEF Checked
<1>4. Len(results) = Len(file.rows)
  BY <1>2, <1>3
<1>5. \A i \in DOMAIN results : results[i].envelope = Mapped(file.rows[i])
  BY <1>1 DEF Checked
<1> QED
  BY <1>4, <1>5 DEF ReviewIsOfMapping

LEMMA InvCoversColumns == UploadInv => EveryColumnOnce
<1> SUFFICES ASSUME UploadInv, step \in {2, 3}, NEW c \in Range(file.header)
             PROVE  Cardinality({f \in DOMAIN mapping.of : mapping.of[f] = c}) + (IF c \in mapping.payload THEN 1 ELSE 0) = 1
  BY DEF EveryColumnOnce
<1> DEFINE F == {f \in DOMAIN mapping.of : mapping.of[f] = c}
<1>1. c \in Range(mapping.of) \cup mapping.payload
  BY DEF UploadInv, ReviewInv, Unassigned
<1>2. CASE c \in mapping.payload
  <2>1. F = {}
    BY <1>2 DEF UploadInv, MappingInv
  <2>2. Cardinality(F) = 0
    BY <2>1, FS_EmptySet
  <2> QED
    BY <1>2, <2>2
<1>3. CASE c \notin mapping.payload
  <2>1. PICK f \in DOMAIN mapping.of : mapping.of[f] = c
    BY <1>1, <1>3 DEF Range
  <2>2. F = {f}
    BY <2>1 DEF UploadInv, MappingInv
  <2>3. Cardinality(F) = 1
    BY <2>2, FS_Singleton
  <2> QED
    BY <1>3, <2>3
<1> QED
  BY <1>2, <1>3

LEMMA InvCarriesCells == UploadInv => CellsArrive
<1> SUFFICES ASSUME UploadInv, NEW k \in DOMAIN posts, step = 3,
                    NEW c \in DOMAIN file.rows[posts[k].row] \cap Range(file.header)
             PROVE  LET row == file.rows[posts[k].row]  e == posts[k].envelope IN
                    \/ c \in DOMAIN e.payload /\ e.payload[c] = row[c]
                    \/ \E f \in DOMAIN mapping.of : mapping.of[f] = c /\ (e.of[f] = row[c] \/ row[c].class = "empty")
  BY DEF CellsArrive
<1> DEFINE i == posts[k].row
           row == file.rows[i]
           e == posts[k].envelope
<1>1. i \in Good /\ e = results[i].envelope
  BY DEF UploadInv, PostsInv
<1>2. Checked /\ file \in Files /\ Unassigned = {}
  BY DEF UploadInv, ReviewInv, MappingInv
<1>3. i \in DOMAIN file.rows /\ e = Mapped(row)
  BY <1>1, <1>2 DEF Checked, Good
<1>4. row[c].class # "absent"
  BY <1>2, <1>3, UploadAssumption
<1>5. c \in mapping.payload \/ c \in Range(mapping.of)
  BY <1>2 DEF Unassigned
<1>6. CASE c \in mapping.payload
  <2>1. c \in mapping.payload \cap DOMAIN row
    BY <1>6
  <2> HIDE DEF row
  <2>2. c \in DOMAIN Mapped(row).payload /\ Mapped(row).payload[c] = row[c]
    BY <2>1 DEF Mapped
  <2> QED
    BY <1>3, <2>2 DEF row
<1>7. CASE c \in Range(mapping.of)
  <2>1. PICK f \in DOMAIN mapping.of : mapping.of[f] = c
    BY <1>7 DEF Range
  <2>2. f \in EnvelopeFields
    BY <2>1 DEF UploadInv, MappingInv
  <2>3. c \in DOMAIN row
    OBVIOUS
  <2> HIDE DEF row
  <2>4. Mapped(row).of[f] = FieldCell(row, f)
    BY <2>2 DEF Mapped
  <2>5. FieldCell(row, f) = row[c] \/ row[c].class = "empty"
    BY <1>4, <2>1, <2>3 DEF FieldCell
  <2> QED
    BY <1>3, <2>1, <2>4, <2>5 DEF row
<1> QED
  BY <1>5, <1>6, <1>7

LEMMA InvReports == UploadInv => ReportAgrees
<1> SUFFICES ASSUME UploadInv, NEW k \in DOMAIN posts
             PROVE  /\ posts[k].outcome = "accepted" => Mine(k) # {}
                    /\ posts[k].outcome = "duplicate" =>
                         Mine(k) = {} /\ \E s \in stored : IdOf(s.envelope) = IdOf(posts[k].envelope)
                    /\ posts[k].outcome = "rejected" /\ ~posts[k].lost => Mine(k) = {}
  BY DEF ReportAgrees, Mine
<1> QED
  BY DEF UploadInv, SendInv, IsPost

LEMMA InvDrifts == UploadInv => DriftIsLength
<1> SUFFICES ASSUME UploadInv, NEW k \in DOMAIN posts, Refusal(posts[k].envelope) = "envelope"
             PROVE  \E f \in {"source_system", "learner_reference"} : posts[k].envelope.of[f].class = "long"
  BY DEF DriftIsLength
<1> DEFINE i == posts[k].row
           e == posts[k].envelope
<1>1. i \in Good /\ e = results[i].envelope
  BY DEF UploadInv, PostsInv
<1>2. step \in {3, 4}
  BY DEF UploadInv, PostsInv
<1>3. Checked
  BY <1>2 DEF UploadInv, ReviewInv
<1>4. PageFinds(e)
  BY <1>1, <1>3 DEF Good, Checked
<1>5. BadText(e)
  BY DEF Refusal
<1> HIDE DEF e
<1>6. EnvelopeFields = {"signal_id", "source_system", "learner_reference", "timestamp", "schema_version"}
  BY DEF EnvelopeFields, FieldOrder, Range
<1>7. /\ \A f \in {"signal_id", "timestamp", "schema_version"} : e.of[f].class = "ok"
      /\ \A f \in {"source_system", "learner_reference"} : e.of[f].class \in {"ok", "long", "bad"}
  BY <1>4, <1>6 DEF PageFinds
<1>8. \E f \in {"source_system", "learner_reference"} : e.of[f].class = "long"
  BY <1>5, <1>7 DEF BadText
<1> QED
  BY <1>8 DEF e

LEMMA InvHidesNothingSeen == UploadInv => PersonalDataUnseen
<1> SUFFICES ASSUME UploadInv, NEW k \in DOMAIN posts, "pii" \in PayloadHits(posts[k].envelope), ~(k > 1)
             PROVE  verdict \in {"disabled", "failed"}
  BY DEF PersonalDataUnseen
<1>1. k = 1
  BY DEF UploadInv, PostsInv
<1>2. posts[k].envelope = results[FirstGood].envelope
  BY <1>1 DEF UploadInv, PostsInv
<1>3. step \in {3, 4}
  BY DEF UploadInv, PostsInv
<1>4. verdict \in Answers \ {"pii_blocking"}
  BY <1>3 DEF UploadInv, ReviewInv
<1>5. VerdictOn(results[FirstGood].envelope) = "pii_blocking"
  BY <1>2 DEF VerdictOn
<1> QED
  BY <1>4, <1>5 DEF Answers

\* From the file to the report every row of an upload is the one that was reviewed, and the report says
\* what became of it: whatever the files, the defaults and the number of workers, however the mapping
\* and the steps of the wizard are gone through, and whenever the proxy gives up on a request.
THEOREM UploadAlwaysKeepsRows == UploadSpec => []UploadKeepsRows
<1>1. UploadInit => UploadInv
  BY InitMapping, InitReview, InitPosts, InitSend DEF UploadInv
<1>2. UploadInv /\ [UploadNext]_uploadVars => UploadInv'
  BY MappingStep, ReviewStep, PostsStep, SendStep DEF UploadInv
<1>3. UploadInv => UploadKeepsRows
  <2>1. UploadInv => StoredOnce
    BY DEF UploadInv, SendInv
  <2> QED
    BY <2>1, InvIsTyped, InvIsReviewed, InvCoversColumns, InvCarriesCells, InvReports, InvDrifts, InvHidesNothingSeen
       DEF UploadKeepsRows
<1> QED
  BY <1>1, <1>2, <1>3, PTL DEF UploadSpec
================================================================================
