------------------------------ MODULE ReviewDesk ------------------------------
(***************************************************************************)
(* An educator at the attention queue of the dashboard.  A review is first *)
(* written to the log in the browser's localStorage, which takes the       *)
(* decision off the queue; the feedback is posted meanwhile; for eight     *)
(* seconds the review can be undone, in the browser only; a post that      *)
(* fails takes the review back.  The server's latest_action, fetched again *)
(* after a post, hides what it knows to be answered.                       *)
(***************************************************************************)
EXTENDS Feedback

VARIABLES
  reviews,  \* executeReviewAction, one record per call: its request and what the page holds of it
  log,      \* 8p3p-review-log:v1, the record of each decision
  known,    \* the latest_action that the page has of each decision
  sheet     \* the decision open in the review sheet, 0 when it is closed

deskVars == <<reviews, log, known, sheet>>

NoRecord == [action |-> "none", source |-> "none"]
Origins == {"table", "sheet", "bar"}

\* Every review has a submission of its own, and the log and what the page knows name actions.
DeskTypeOK ==
  /\ FeedbackTypeOK
  /\ \A k \in DOMAIN reviews : LET r == reviews[k] IN
       /\ requests[r.request].kind = "submit"
       /\ r.page \in {"waiting", "answered", "failed", "left"}
       /\ r.undoable \in BOOLEAN /\ r.undone \in BOOLEAN /\ r.origin \in Origins
  /\ \A d \in Decisions :
       /\ log[d] = NoRecord \/ (log[d].source \in {"local", "api"} /\ log[d].action \in Actions)
       /\ known[d] \in Actions \cup {"none"}
  /\ sheet \in Decisions \cup {0}

DeskInit ==
  /\ FeedbackInit
  /\ reviews = <<>> /\ log = [d \in Decisions |-> NoRecord]
  /\ known = [d \in Decisions |-> "none"] /\ sheet = 0

\* buildPendingAttentionQueue, and the entry after one in it.
InQueue(d) == log[d] = NoRecord /\ known[d] = "none"
After(d) ==
  LET later == {e \in Decisions : InQueue(e) /\ e > d} IN
  IF later = {} THEN 0 ELSE CHOOSE e \in later : \A f \in later : e <= f

--------------------------------------------------------------------------------

\* The body that the forms can send: an approval bare, a rejection with a reason
\* and, if and only if the reason is a wrong type, the type expected.
DeskSends(b) ==
  \/ b = [action |-> "approve", reason |-> "none", text |-> "none", suggested |-> "none"]
  \/ /\ b.action = "reject" /\ b.reason \in Reasons("reject") /\ b.text \in {"none", "short"}
     /\ b.suggested = IF b.reason = "wrong_decision_type" THEN "valid" ELSE "none"

\* A decision that comes into the sheet is posted as viewed, and the post may be
\* lost: nothing waits for it.
Show(d, sent) ==
  /\ sheet' = d
  /\ \/ requests' = sent
     \/ /\ d # 0 /\ d # sheet /\ Count("view") < MaxViewed
        /\ requests' = Append(sent, Request("view", d, "none"))

\* executeReviewAction up to its await.
Review(d, action, origin, next) ==
  /\ Count("submit") < MaxSubmitted
  /\ Show(next, Append(requests, Request("submit", d, action)))
  /\ reviews' = Append(reviews, [request |-> Len(requests) + 1, decision |-> d, action |-> action,
                                 page |-> "waiting", undoable |-> TRUE, undone |-> FALSE, origin |-> origin,
                                 after |-> {k \in DOMAIN reviews : reviews[k].page = "answered"}])
  /\ log' = [log EXCEPT ![d] = [action |-> action, source |-> "local"]]
  /\ UNCHANGED <<store, now, feedback, viewLog, known>>

\* Approved in the table; rejecting there opens the sheet.
ReviewInTable(d) ==
  /\ InQueue(d)
  /\ Review(d, "approve", "table", IF sheet = d THEN 0 ELSE sheet)

\* In the sheet, which goes on to the next of the queue.
ReviewInSheet(action) ==
  /\ sheet # 0
  /\ Review(sheet, action, "sheet", IF InQueue(sheet) THEN After(sheet) ELSE 0)

\* In the bar of the learner's page, which nothing takes the decision from.
ReviewInBar(d, action) ==
  /\ sheet = 0
  /\ Review(d, action, "bar", 0)

OpenSheet(d) ==
  /\ InQueue(d) /\ sheet # d /\ Show(d, requests)
  /\ UNCHANGED <<store, now, feedback, viewLog, reviews, log, known>>

CloseSheet ==
  /\ sheet # 0 /\ sheet' = 0
  /\ UNCHANGED <<feedbackVars, reviews, log, known>>

--------------------------------------------------------------------------------
UndoReview(d) == log' = [log EXCEPT ![d] = NoRecord]

\* Undo, within eight seconds (the time is left open): nothing is sent, and a
\* review made in the sheet opens it again.
Undo(k) ==
  LET r == reviews[k] IN
  /\ r.undoable
  /\ reviews' = [reviews EXCEPT ![k].undoable = FALSE, ![k].undone = TRUE]
  /\ UndoReview(r.decision)
  /\ IF r.origin = "sheet" THEN Show(r.decision, requests)
                           ELSE UNCHANGED <<sheet, requests>>
  /\ UNCHANGED <<store, now, feedback, viewLog, known>>

Fetch(d) == \E a \in LatestAction(d) : known' = [known EXCEPT ![d] = a]

\* The answer: merged into the record, if there is one, and the feedback of the
\* decision is fetched again (the bar leaves that to the next page).
Answered(k) ==
  LET r == reviews[k] IN
  /\ r.page = "waiting" /\ requests[r.request].stage = "done"
  /\ reviews' = [reviews EXCEPT ![k].page = "answered"]
  /\ log' = IF log[r.decision] = NoRecord THEN log
            ELSE [log EXCEPT ![r.decision].source = "api"]
  /\ UNCHANGED <<feedbackVars, known, sheet>>

\* Mutant: a review whose post failed stays in the log.
FailedSilently(k) ==
  /\ reviews[k].page = "waiting"
  /\ reviews' = [reviews EXCEPT ![k].page = "failed", ![k].undoable = FALSE]
  /\ UNCHANGED <<feedbackVars, log, known, sheet>>

\* Refused, or no answer: whatever becomes of the request, the review is taken
\* back and its toast, with the undo in it, dismissed.
Failed(k) ==
  /\ reviews[k].page = "waiting"
  /\ reviews' = [reviews EXCEPT ![k].page = "failed", ![k].undoable = FALSE]
  /\ UndoReview(reviews[k].decision)
  /\ UNCHANGED <<feedbackVars, known, sheet>>

\* GET /v1/decisions/:id/feedback: after a post, on a visit, when it is stale.
Refetch(d) ==
  /\ Fetch(d)
  /\ UNCHANGED <<feedbackVars, reviews, log, sheet>>

\* The page is left, or loaded again: the log stays, what waited is forgotten.
Reload ==
  /\ reviews # <<>>
  /\ reviews' = [k \in DOMAIN reviews |->
                   [reviews[k] EXCEPT !.undoable = FALSE, !.page = IF @ = "waiting" THEN "left" ELSE @]]
  /\ known' = [d \in Decisions |-> "none"] /\ sheet' = 0
  /\ UNCHANGED <<feedbackVars, log>>

DeskNext ==
  \/ FeedbackNext /\ UNCHANGED deskVars
  \/ \E d \in Decisions : ReviewInTable(d) \/ OpenSheet(d) \/ Refetch(d)
  \/ \E a \in Actions : ReviewInSheet(a) \/ \E d \in Decisions : ReviewInBar(d, a)
  \/ \E k \in DOMAIN reviews : Undo(k) \/ Answered(k) \/ Failed(k)
  \/ CloseSheet \/ Reload

DeskSpec == DeskInit /\ [][DeskNext]_<<feedbackVars, deskVars>>

--------------------------------------------------------------------------------
Of(d) == {k \in DOMAIN reviews : reviews[k].decision = d}

\* Whatever form a review was made in, the handler stores what arrives of it.
DeskBodiesStored ==
  \A i \in {i \in DOMAIN requests : requests[i].kind = "submit" /\ requests[i].stage = "arrived"} :
    \A b \in Bodies : b.action = requests[i].action /\ DeskSends(b) => Verdict(b) = "stored"

\* A decision that still counts as pending at the server is in the queue, unless
\* its feedback is on its way or the page was left before the post was answered.
PendingIsShown ==
  \A d \in Pending : ~InQueue(d) => \E k \in Of(d) : reviews[k].page \in {"waiting", "left"}

\* A decision is reviewed a second time only when an earlier review of it was
\* undone or failed, or in the bar.
SecondReviewHasCause ==
  \A k \in DOMAIN reviews, l \in DOMAIN reviews :
    k < l /\ reviews[k].decision = reviews[l].decision =>
      \/ \E j \in Of(reviews[k].decision) : j < l /\ (reviews[j].undone \/ reviews[j].page = "failed")
      \/ reviews[l].origin = "bar"

\* A record that is said to come from the server names the action that was
\* stored, unless the decision was reviewed more than once.
SavedRecordIsStored ==
  \A d \in Decisions : log[d].source = "api" /\ Cardinality(Of(d)) = 1 =>
    \E i \in FeedbackOf(d) : feedback[i].action = log[d].action

\* A review chosen after another was answered is the one that latest_action
\* shows once it is stored, but for a tie of the clock on DynamoDB.
LatestIsLast ==
  \A d \in Decisions : \A i \in LatestFeedback(d), j \in FeedbackOf(d) :
    \A k, l \in Of(d) :
      reviews[k].request = feedback[i].request /\ reviews[l].request = feedback[j].request =>
        k \notin reviews[l].after \/ (store = "dynamodb" /\ feedback[i].at = feedback[j].at)

\* The desk agrees with the server under every order of reviews, undos, late answers and
\* failed posts: what waits for a review is shown, what is called saved is stored, the last
\* review is the one that is shown, a second one has a cause, and a view is counted once.
DeskAgrees ==
  /\ DeskTypeOK /\ DeskBodiesStored /\ OneViewPerWindow /\ PendingIsShown
  /\ SecondReviewHasCause /\ SavedRecordIsStored /\ LatestIsLast
===============================================================================
