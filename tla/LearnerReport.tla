------------------------------ MODULE LearnerReport ------------------------------
(***************************************************************************)
(* What is reported of a learner's versions: the trajectory of a field     *)
(* over a page of versions with its overall direction (GET                 *)
(* /v1/state/trajectory, and the same again in the Lambda), the fields of  *)
(* the current state that a summary shows, the gaps in the breakdown by    *)
(* subject, and the flag of an interest in gifted learners.  All of it is  *)
(* computed from the versions of module LearnerState when it is asked for. *)
(***************************************************************************)
EXTENDS LearnerState

CONSTANTS
  GapThreshold, AbsoluteThreshold, MaxGaps,                  \* of a learning gap
  GiftedMastery, MinSkillsForGifted, MinAdvance, MinEvidence \* of the flag

ASSUME LearnerReportAssumption ==
  /\ {GapThreshold, AbsoluteThreshold, MaxGaps, GiftedMastery, MinEvidence} \subseteq Nat
  /\ AbsoluteThreshold <= GiftedMastery

--------------------------------------------------------------------------------
\* buildVersions: the field of a version with the direction that was saved with it.
PointAt(v) == [value |-> versions[v].top.score, direction |-> versions[v].top.direction]

\* buildSummary over the versions lo to hi: a page of them, or all.
SummaryOf(lo, hi) ==
  LET numbers == {v \in lo..hi : PointAt(v).value # None} IN
  IF numbers = {} THEN [count |-> 0, first |-> None, latest |-> None, direction |-> "none"]
  ELSE LET first == PointAt(Min(numbers)).value  latest == PointAt(Max(numbers)).value IN
       [count |-> Cardinality(numbers), first |-> first, latest |-> latest,
        direction |-> IF Cardinality(numbers) < 2 THEN "none" ELSE DirectionOf(first, latest)]

--------------------------------------------------------------------------------
\* isAllowedURSKey: a score is shown with its companions up to the third order.
ShownOrders == 1..3

\* projectLearnerState.
ShownLevels(v) == versions[v].top.levels \cap ShownOrders

\* readLearnerAggregation, projectMasteryBreakdown: there is a breakdown when there are
\* skills and an aggregation.
HasBreakdown(v) ==
  /\ \E s \in Skills : versions[v].skills[s].present
  /\ versions[v].aggregation # NoAggregation

SubjectIn(agg, s) == CHOOSE u \in DOMAIN agg.subjects : s \in agg.subjects[u].skills

\* How far a skill is below the mean of its subject.
Shortfall(v, s) ==
  LET agg == versions[v].aggregation IN
  agg.subjects[SubjectIn(agg, s)].mean - versions[v].skills[s].measure.score

\* computeLearningGaps: of the skills that are far enough below, and low, the first
\* MaxGaps by their shortfall.
GapCandidates(v) ==
  {s \in DOMAIN versions[v].aggregation.skills :
     Shortfall(v, s) > GapThreshold /\ versions[v].skills[s].measure.score < AbsoluteThreshold}
Gaps(v) ==
  LET ahead(s) == {r \in GapCandidates(v) : Shortfall(v, r) > Shortfall(v, s)
                                              \/ (Shortfall(v, r) = Shortfall(v, s) /\ r < s)}
  IN {s \in GapCandidates(v) : Cardinality(ahead(s)) < MaxGaps}

\* evaluateGiftedInterest, rules G1 to G6, for a learner who had this many decisions.
Flagged(v, advances, total) ==
  LET agg == versions[v].aggregation  scored == DOMAIN agg.skills IN
  /\ Cardinality(scored) >= MinSkillsForGifted
  /\ \A s \in scored : /\ versions[v].skills[s].measure.score >= GiftedMastery
                       /\ agg.skills[s].evidence >= MinEvidence
  /\ total >= 1 /\ advances >= MinAdvance /\ total = advances

--------------------------------------------------------------------------------
\* A page whose overall direction is down contains a version that was saved with the
\* direction down, or one without the score, and likewise for up; or one that was computed on
\* a version further back, from which its direction counts.
OverallHasStep ==
  \A hi \in DOMAIN versions : \A lo \in 1..hi :
    LET overall == SummaryOf(lo, hi).direction IN
    overall \in {"improving", "declining"} =>
      \E v \in (lo + 1)..hi : PointAt(v).direction = overall \/ PointAt(v - 1).value = None \/ merged[v].base # v - 1

\* A difference of higher order is shown without the one below it only of a learner
\* whose score was missing from an earlier version that had a difference: what the
\* removal of a score leaves behind.
OrphansAreOfRemoval ==
  \A v \in DOMAIN versions : \A n \in ShownLevels(v) :
    n > 1 /\ n - 1 \notin ShownLevels(v) =>
      \E u \in merged[v].of : versions[u].top.score = None /\ Before(u).top.levels # {}

\* A gap is never the strongest skill of its subject; of a subject with a gap the
\* weakest skill is one too, unless gaps were cut.
GapsAreOfWeakest ==
  \A v \in DOMAIN versions : HasBreakdown(v) =>
    LET agg == versions[v].aggregation IN
    \A s \in Gaps(v) : LET u == agg.subjects[SubjectIn(agg, s)] IN
      /\ s # u.strongest
      /\ u.weakest \in Gaps(v) \/ Cardinality(Gaps(v)) = MaxGaps

\* A learner who is flagged has no gap, and was scored in every skill by as many
\* signals as the rule asks for: except where a computation repeated after a conflict
\* counted one signal twice.
FlaggedHasEvidence ==
  \A v \in DOMAIN versions : HasBreakdown(v) /\ Flagged(v, MinAdvance + 1, MinAdvance + 1) =>
    /\ Gaps(v) = {}
    /\ \A s \in DOMAIN versions[v].aggregation.skills :
         Cardinality(Scoring(s, v)) >= MinEvidence \/ \E u \in Scoring(s, v) : merged[u].first < merged[u].base
===============================================================================
