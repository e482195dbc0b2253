----------------------------- MODULE LearnerSummary -----------------------------
(***************************************************************************)
(* GET /v1/learners/:learner_reference/summary while signals go on being   *)
(* ingested.  The server assembles it in one synchronous stretch.  The     *)
(* Lambda reads the current state first and then sends six queries at      *)
(* once, each of which sees the tables of its own moment; the state        *)
(* versions come in pages, up to a cap.  Queries are taken to see what     *)
(* has been written; the lag of an index would add its own.  The recent    *)
(* decisions, a sixth query, are shown as they are and left out.           *)
(***************************************************************************)
EXTENDS IngestedTables

CONSTANTS
  VersionsPerPage,  \* TRAJECTORY_PAGE_SIZE
  PageCaps,         \* TRAJECTORY_SAFETY_CAP_PAGES; a behaviour has one of them
  RecentLimit,      \* recent_decisions_limit
  MinAdvance,       \* MIN_ADVANCE_DECISIONS
  Advances          \* the signals whose decision, if there is one, is to advance

ASSUME SummaryAssumption ==
  /\ PageCaps \cup {VersionsPerPage, RecentLimit, MinAdvance} \subseteq Nat \ {0}
  /\ Advances \subseteq Signals

VARIABLE
  summary  \* the request: the queries unanswered, and the answers so far

Queries == {"types", "count", "first", "last", "trajectory"}
NoSummary == [stage |-> "none"]

SummaryTypeOK ==
  \/ summary.stage \in {"none", "not_found"}
  \/ /\ summary.stage \in {"reading", "answered"}
     /\ summary.learner \in Learners /\ summary.waiting \subseteq Queries
     /\ summary.version \in Nat /\ summary.made \in 0..MaxTime
     /\ summary.total \in Nat /\ summary.advance \in 0..summary.total
     /\ summary.count \in Nat /\ {summary.first, summary.last} \subseteq 0..MaxTime
     /\ summary.versions \in Nat /\ summary.cap \in PageCaps /\ summary.pages \in 0..summary.cap
     /\ summary.decided \subseteq DOMAIN decisions

--------------------------------------------------------------------------------
\* What each query answers, of the tables as they are.
MinOf(S) == CHOOSE x \in S : \A y \in S : x <= y
MaxOf(S) == CHOOSE x \in S : \A y \in S : x >= y
DecisionsOf(l) == {i \in DOMAIN decisions : LearnerOf[decisions[i].signal] = l}
SignalTimes(l) == {signals[i].at : i \in {j \in DOMAIN signals : LearnerOf[signals[j].signal] = l}}

\* getDecisionTypeSummaryForLearner: counted over the whole history.
TypeCounts(l) ==
  [total |-> Cardinality(DecisionsOf(l)),
   advance |-> Cardinality({i \in DecisionsOf(l) : decisions[i].signal \in Advances})]

SignalCount(l) == Cardinality({i \in DOMAIN signals : LearnerOf[signals[i].signal] = l})
FirstSignalAt(l) == IF SignalTimes(l) = {} THEN 0 ELSE MinOf(SignalTimes(l))
LastSignalAt(l) == IF SignalTimes(l) = {} THEN 0 ELSE MaxOf(SignalTimes(l))

\* One page of state versions up to the version of the state that was read.
AfterPage(s) == MinOf({s.versions + VersionsPerPage, s.version, Len(states[s.learner])})

\* Mutant: a full page is taken for the last.
LastPageWhenFull(s) == AfterPage(s) = s.versions + VersionsPerPage \/ s.pages + 1 = s.cap
LastPage(s) == AfterPage(s) >= s.version \/ s.pages + 1 = s.cap

\* The state was there, made when its last signal was accepted: what is still to be asked for, beside its version.
Found(l, waiting, cap) ==
  [stage |-> "reading", learner |-> l, waiting |-> waiting,
   version |-> Len(states[l]), made |-> states[l][Len(states[l])],
   total |-> 0, advance |-> 0, count |-> 0, first |-> 0, last |-> 0,
   versions |-> 0, pages |-> 0, cap |-> cap, decided |-> DecisionsOf(l)]

\* collectAllStateVersions in one go: whole pages, up to the cap.
AllVersions(l, cap) == MinOf({Len(states[l]), cap * VersionsPerPage})

--------------------------------------------------------------------------------
\* The learner has no state: 404, on both deployments.
NotFound(l) ==
  /\ summary = NoSummary /\ states[l] = <<>>
  /\ summary' = [stage |-> "not_found"]
  /\ UNCHANGED tableVars

\* handleLearnerSummaryCore: nothing is awaited.
SummarizeOnServer(l) ==
  /\ store = "sqlite" /\ summary = NoSummary /\ states[l] # <<>>
  /\ \E cap \in PageCaps : summary' = [Found(l, {}, cap) EXCEPT
       !.stage = "answered",
       !.total = TypeCounts(l).total, !.advance = TypeCounts(l).advance,
       !.count = SignalCount(l), !.first = FirstSignalAt(l), !.last = LastSignalAt(l),
       !.versions = AllVersions(l, cap),
       !.pages = (AllVersions(l, cap) + VersionsPerPage - 1) \div VersionsPerPage]
  /\ UNCHANGED tableVars

\* handleGetLearnerSummary: the state first, then the queries.
GetState(l) ==
  /\ store = "dynamodb" /\ summary = NoSummary /\ states[l] # <<>>
  /\ \E cap \in PageCaps : summary' = Found(l, Queries, cap)
  /\ UNCHANGED tableVars

\* The answer to one of the queries of Promise.all.
Answered(q) ==
  /\ summary.stage = "reading" /\ q \in summary.waiting
  /\ LET l == summary.learner
         s == [summary EXCEPT !.waiting = @ \ {q}]
     IN summary' =
          CASE q = "types" -> [s EXCEPT !.total = TypeCounts(l).total, !.advance = TypeCounts(l).advance]
            [] q = "count" -> [s EXCEPT !.count = SignalCount(l)]
            [] q = "first" -> [s EXCEPT !.first = FirstSignalAt(l)]
            [] q = "last" -> [s EXCEPT !.last = LastSignalAt(l)]
            [] q = "trajectory" ->
                 [s EXCEPT !.versions = AfterPage(s), !.pages = @ + 1,
                           !.waiting = IF LastPage(s) THEN @ ELSE @ \cup {q}]
  /\ UNCHANGED tableVars

Assemble ==
  /\ summary.stage = "reading" /\ summary.waiting = {}
  /\ summary' = [summary EXCEPT !.stage = "answered"]
  /\ UNCHANGED tableVars

\* G3, G4 and G5 of evaluateGiftedInterest; the mastery of the state, which the
\* other rules ask for, is taken to qualify.
Gifted == /\ summary.total >= 1 /\ summary.advance >= MinAdvance
          /\ summary.total = summary.advance

\* While it is read, only what a summary can see is let happen.
SummaryNext ==
  \/ summary.stage = "none" /\ TablesNext /\ UNCHANGED summary
  \/ /\ summary.stage = "reading" /\ UNCHANGED summary
     /\ Tick \/ \E r \in Requests : Accept(r) \/ Decide(r)
  \/ \E l \in Learners : NotFound(l) \/ SummarizeOnServer(l) \/ GetState(l)
  \/ \E q \in Queries : Answered(q)
  \/ Assemble

SummarySpec == TablesInit /\ summary = NoSummary /\ [][SummaryNext]_<<tableVars, summary>>

--------------------------------------------------------------------------------
Shown == summary.stage = "answered"

\* The parts of a summary are of different moments, but never older than the
\* state it shows: the signals counted are at least those merged into the state,
\* and the last of them was not accepted before the one that made the state.
SummaryCoversState ==
  Shown => /\ summary.count >= summary.version
           /\ summary.first # 0 /\ summary.first <= summary.made
           /\ summary.last >= summary.made

\* The trajectory ends at the state that is shown, whatever is saved while it is
\* read; a history longer than the cap is cut at its new end, and the latest value
\* is then not the current one.
TrajectoryEndsAtState ==
  Shown => summary.versions = MinOf({summary.version, summary.cap * VersionsPerPage})

\* Nobody is flagged as gifted over a decision against it that was there when
\* the summary was asked for, however long ago it was made.
GiftedSeesHistory ==
  Shown /\ Gifted => \A i \in summary.decided : decisions[i].signal \in Advances

\* The parts of a summary are of different moments but belong together: the signals, the decisions
\* and the trajectory reach at least to the state that is shown.
SummaryHolds ==
  /\ SummaryTypeOK /\ SummaryCoversState /\ TrajectoryEndsAtState /\ GiftedSeesHistory
===============================================================================
