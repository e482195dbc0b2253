------------------------------- MODULE Feedback -------------------------------
(***************************************************************************)
(* Educator feedback on decisions: POST /v1/decisions/:id/feedback and     *)
(* /view, GET /v1/decisions/:id/feedback and /feedback/pending, over       *)
(* SQLite and over DynamoDB.  A handler takes the time when it is called   *)
(* and then waits for the decision to be looked up; over DynamoDB a view   *)
(* is looked for and put in two calls.                                     *)
(***************************************************************************)
EXTENDS Integers, Sequences, FiniteSets

CONSTANTS
  Decisions,     \* the decisions that ask for a review, in the order of the queue
  Window,        \* how long a view of one session is not recorded again: 60 s
  MaxTime,       \* bound on the clock
  MaxSubmitted,  \* bound on the feedback sent
  MaxViewed      \* bound on the views sent

ASSUME FeedbackAssumption ==
  /\ Decisions \subseteq Nat \ {0}
  /\ MaxTime \in Nat \ {0} /\ {Window, MaxSubmitted, MaxViewed} \subseteq Nat

VARIABLES
  store,     \* which of the two repositories is deployed
  now,
  requests,  \* the requests of one session, in the order they were sent
  feedback,  \* the table decision_feedback, in the order of insertion
  viewLog    \* the table decision_view_log

feedbackVars == <<store, now, requests, feedback, viewLog>>

Times == 1..MaxTime
Actions == {"approve", "reject"}
Stages == {"sent", "arrived", "looked", "done"}

FeedbackTypeOK ==
  /\ store \in {"sqlite", "dynamodb"} /\ now \in Times
  /\ \A i \in DOMAIN requests : LET r == requests[i] IN
       /\ r.kind \in {"submit", "view"} /\ r.decision \in Decisions
       /\ r.action \in Actions \cup {"none"} /\ r.stage \in Stages
       /\ r.at \in 0..now /\ (r.at = 0 <=> r.stage = "sent") /\ r.recent \in BOOLEAN
  /\ \A i \in DOMAIN feedback : LET f == feedback[i] IN
       f.request \in DOMAIN requests /\ f.action \in Actions /\ f.at \in Times
  /\ \A i \in DOMAIN viewLog : LET v == viewLog[i] IN
       v.decision \in Decisions /\ v.at \in Times /\ v.put \in v.at..now

FeedbackInit ==
  /\ store \in {"sqlite", "dynamodb"} /\ now = 1
  /\ requests = <<>> /\ feedback = <<>> /\ viewLog = <<>>

--------------------------------------------------------------------------------
\* The body of a submission, field by field, and what the handler says of it.
Reasons(action) ==
  CASE action = "approve" -> {"agree_primary"}
    [] action = "reject" -> {"not_at_risk", "wrong_decision_type"}
    [] action = "ignore" -> {"deferred"}
Bodies == [action : {"approve", "reject", "ignore", "other"},
           reason : {"none", "agree_primary", "not_at_risk", "wrong_decision_type", "deferred", "unknown"},
           text : {"none", "short", "too_long"},
           suggested : {"none", "blank", "valid", "invalid"}]

SuggestionAsked(b) == b.action = "reject" /\ b.reason = "wrong_decision_type"

Verdict(b) ==
  CASE b.action = "other" -> "invalid_action"
    [] b.action # "other" /\ b.reason \notin {"none"} \cup Reasons(b.action) -> "invalid_reason_category"
    [] OTHER ->
       CASE b.text = "too_long" -> "reason_text_too_long"
         [] b.text # "too_long" /\ SuggestionAsked(b) /\ b.suggested \in {"none", "blank"} -> "suggested_decision_type_required"
         [] b.text # "too_long" /\ SuggestionAsked(b) /\ b.suggested = "invalid" -> "invalid_reason_category"
         [] b.text # "too_long" /\ ~SuggestionAsked(b) /\ b.suggested \in {"valid", "invalid"} -> "suggested_decision_type_forbidden"
         [] OTHER -> "stored"

--------------------------------------------------------------------------------
Count(kind) == Cardinality({i \in DOMAIN requests : requests[i].kind = kind})

\* What the dashboard sends; the answer of a view is not looked at.
Request(kind, d, action) ==
  [kind |-> kind, decision |-> d, action |-> action, at |-> 0, stage |-> "sent", recent |-> FALSE]

Arrive(i) ==
  /\ requests[i].stage = "sent"
  /\ requests' = [requests EXCEPT ![i].stage = "arrived", ![i].at = now]
  /\ UNCHANGED <<store, now, feedback, viewLog>>

\* saveFeedback, when the decision has been looked up: dated when it arrived.
SaveFeedback(i) ==
  /\ requests[i].stage = "arrived" /\ requests[i].kind = "submit"
  /\ requests' = [requests EXCEPT ![i].stage = "done"]
  /\ feedback' = Append(feedback, [request |-> i, decision |-> requests[i].decision,
                                   action |-> requests[i].action, at |-> requests[i].at])
  /\ UNCHANGED <<store, now, viewLog>>

PutView(r) ==
  viewLog' = Append(viewLog, [decision |-> r.decision, at |-> r.at, put |-> now])

\* The latest view of the decision among those seen is within the window.
WithinWindow(seen, r) ==
  LET same == {i \in seen : viewLog[i].decision = r.decision} IN
  \E i \in same : /\ \A j \in same : viewLog[j].at <= viewLog[i].at
                  /\ r.at - viewLog[i].at < Window

\* recordView on SQLite: found and inserted in one step.
RecordView(i) ==
  /\ store = "sqlite" /\ requests[i].stage = "arrived" /\ requests[i].kind = "view"
  /\ requests' = [requests EXCEPT ![i].stage = "done"]
  /\ IF WithinWindow(DOMAIN viewLog, requests[i]) THEN UNCHANGED viewLog ELSE PutView(requests[i])
  /\ UNCHANGED <<store, now, feedback>>

\* On DynamoDB: an eventually consistent query, which may miss what was put at
\* this very moment, then a put.
LookForView(i) ==
  /\ store = "dynamodb" /\ requests[i].stage = "arrived" /\ requests[i].kind = "view"
  /\ \E missed \in SUBSET {j \in DOMAIN viewLog : viewLog[j].put = now} :
       requests' = [requests EXCEPT ![i].stage = "looked",
                      ![i].recent = WithinWindow(DOMAIN viewLog \ missed, requests[i])]
  /\ UNCHANGED <<store, now, feedback, viewLog>>

FinishView(i) ==
  /\ requests[i].stage = "looked"
  /\ requests' = [requests EXCEPT ![i].stage = "done"]
  /\ IF requests[i].recent THEN UNCHANGED viewLog ELSE PutView(requests[i])
  /\ UNCHANGED <<store, now, feedback>>

Tick ==
  /\ now < MaxTime /\ now' = now + 1
  /\ UNCHANGED <<store, requests, feedback, viewLog>>

FeedbackNext ==
  \/ \E i \in DOMAIN requests :
       Arrive(i) \/ SaveFeedback(i) \/ RecordView(i) \/ LookForView(i) \/ FinishView(i)
  \/ Tick

--------------------------------------------------------------------------------
FeedbackOf(d) == {i \in DOMAIN feedback : feedback[i].decision = d}

\* The rows that may come last in a listing ordered by created_at: of equal times
\* SQLite has the one inserted last, DynamoDB goes by a random id.
LatestFeedback(d) ==
  {i \in FeedbackOf(d) : \A j \in FeedbackOf(d) :
     /\ feedback[j].at <= feedback[i].at
     /\ store = "sqlite" /\ feedback[j].at = feedback[i].at => j <= i}

\* latest_action, and what countPendingByType counts (answered 501 on DynamoDB).
LatestAction(d) ==
  IF FeedbackOf(d) = {} THEN {"none"} ELSE {feedback[i].action : i \in LatestFeedback(d)}
Pending == {d \in Decisions : FeedbackOf(d) = {}}

\* A decision is not recorded as viewed twice within the window by one session:
\* on SQLite never, on DynamoDB only by a request that came before the first
\* view was in the table.
OneViewPerWindow ==
  \A i, j \in DOMAIN viewLog :
    /\ i # j /\ viewLog[i].decision = viewLog[j].decision
    /\ viewLog[i].at <= viewLog[j].at /\ viewLog[j].at - viewLog[i].at < Window
    => store = "dynamodb" /\ viewLog[j].at <= viewLog[i].put
===============================================================================
