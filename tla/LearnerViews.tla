------------------------------ MODULE LearnerViews ------------------------------
\* How the dashboard words a learner's state, on the screens that each derive it for
\* themselves: the roster (learners.ts), the problem areas of the attention queue
\* (learner-problem-areas.ts), the skill rows behind the overview's card, the struggles
\* tab and the panels (state-skills.ts).  The history of LearnerState is that of mastery.
\* What else the screens read, stability above all, is of a course of its own: at every
\* version it may be any of Others.
EXTENDS LearnerReport

CONSTANTS LevelBounds,       \* the scores above which another level begins
          RiskBelow,         \* stability of status "At risk", of the roster
          AtRiskFrom,        \* risk signal of the same status
          RetentionBelow,    \* low stability, of the tab and of the problem areas
          ElevatedFrom,      \* elevated risk signal, of the problem areas
          StruggleBelow,     \* low mastery, of the problem areas
          Others             \* the fields beside mastery, of the state and of its skills

\* A score with the direction saved with it, none without it, and the one of its trajectory.
Reported ==
  {r \in [score : Scores \cup {None}, direction : Directions, overall : Directions] :
     r.direction # "none" => r.score # None}

ASSUME LearnerViewsAssumption ==
  /\ LevelBounds \subseteq Scores
  /\ {RiskBelow, AtRiskFrom, RetentionBelow, ElevatedFrom, StruggleBelow} \subseteq Nat
  /\ RiskBelow <= RetentionBelow /\ ElevatedFrom <= AtRiskFrom
  /\ Others \subseteq [stability : Reported, risk : Reported, unpractised : BOOLEAN, skills : [Skills -> Reported]]

Below(score, bound) == score # None /\ score < bound
AtLeast(score, bound) == score # None /\ score >= bound
Level(score) == Cardinality({b \in LevelBounds : score > b})
FirstOf(direction, other) == IF direction # "none" THEN direction ELSE other

\* The rows of a state: its skills when it has any, even if all were removed, else one
\* row for the scores at the top level.
SkillRows(v, o) ==
  LET st == versions[v] IN
  IF st.has
  THEN {[of |-> s, mastery |-> st.skills[s].measure, stability |-> o.skills[s]] : s \in {r \in Skills : st.skills[r].present}}
  ELSE IF st.top.score = None /\ o.stability.score = None THEN {}
  ELSE {[of |-> 0, mastery |-> st.top, stability |-> o.stability]}

\* The card of improving learners counts those with such a row.
CardImproving(v, o) == \E row \in SkillRows(v, o) : row.mastery.direction = "improving"

\* The tab: whose stability is declining or low, and whose mastery rose to a higher level.
\* The difference that is saved with the score gives the score before.
Struggles(v, o) == {row.of : row \in {x \in SkillRows(v, o) :
  x.stability.direction = "declining" \/ Below(x.stability.score, RetentionBelow)}}
ScoreBefore(v, of) == IF of = 0 THEN Before(v).top.score ELSE Before(v).skills[of].measure.score
Progress(v, o) == {row.of : row \in {x \in SkillRows(v, o) :
  x.mastery.direction = "improving" /\ Level(x.mastery.score) > Level(ScoreBefore(v, x.of))}}

\* The roster, from the fields of the summary.
Trend(v, o) == FirstOf(FirstOf(versions[v].top.direction, o.stability.direction), "stable")
AtRisk(o) == AtLeast(o.risk.score, AtRiskFrom) \/ Below(o.stability.score, RiskBelow)
Status(v, o) ==
  CASE AtRisk(o) -> "At risk"
    [] ~AtRisk(o) /\ Trend(v, o) = "declining" -> "Needs attention"
    [] ~AtRisk(o) /\ Trend(v, o) = "improving" -> "Improving"
    [] OTHER -> "On track"

\* Mutant: the skills that are low, without the declining ones.
LowSkillAreas(v) == {s \in DOMAIN versions[v].aggregation.skills : versions[v].skills[s].measure.score < StruggleBelow}

\* The problem areas: the gaps, else the skills of the breakdown that are low or declining
\* as the aggregation has it, else what the fields say.
SkillAreas(v) ==
  {s \in DOMAIN versions[v].aggregation.skills :
     \/ versions[v].skills[s].measure.score < StruggleBelow
     \/ versions[v].aggregation.skills[s].direction = "declining"}
FieldDirection(field) == FirstOf(field.direction, field.overall)
MasteryField(v) == [score |-> versions[v].top.score, direction |-> versions[v].top.direction,
                    overall |-> SummaryOf(1, v).direction]

Falling(field) == field.score # None /\ FieldDirection(field) = "declining"
FieldAreas(v, o) ==
  {area \in {"Retention", "Regression risk", "Proficiency", "Practice gap"} :
     \/ area = "Retention" /\ (Below(o.stability.score, RetentionBelow) \/ Falling(o.stability))
     \/ area = "Regression risk" /\ (AtLeast(o.risk.score, ElevatedFrom) \/ Falling(o.risk))
     \/ /\ area = "Proficiency" /\ Below(versions[v].top.score, StruggleBelow)
        /\ FieldDirection(MasteryField(v)) # "improving"
     \/ area = "Practice gap" /\ o.unpractised}
ProblemAreas(v, o) ==
  CASE HasBreakdown(v) /\ Gaps(v) # {} -> [from |-> "gaps", areas |-> Gaps(v)]
    [] HasBreakdown(v) /\ Gaps(v) = {} /\ SkillAreas(v) # {} -> [from |-> "skills", areas |-> SkillAreas(v)]
    [] OTHER -> [from |-> "fields", areas |-> FieldAreas(v, o)]

\* The skill of the state was the same at the version before, with a score at both.
SameSkill(v) ==
  LET of == versions[v].skill IN
  of = Before(v).skill /\ of # 0 /\ None \notin {w.skills[of].measure.score : w \in {versions[v], Before(v)}}

\* A learner whom the roster shows as improving and the overview's card does not count is
\* one whose direction is that of stability, or whose score at the top level was not that of
\* the same skill at both versions.  Conversely the roster shows as improving whoever made
\* progress, for the tab, in the skill that was the state's at both.
TrendNamesSkill ==
  \A v \in DOMAIN versions, o \in Others :
    /\ Trend(v, o) = "improving" /\ ~CardImproving(v, o) => versions[v].top.direction = "none" \/ ~SameSkill(v)
    /\ SameSkill(v) /\ versions[v].skill \in Progress(v, o) => Trend(v, o) = "improving"

\* Whoever the roster says is at risk has a problem area in the queue, and so has whoever
\* needs attention, for all that one screen goes by the present direction and the other by
\* the former: but for a decline of mastery, from high to not yet low, with nothing else.
StatusHasArea ==
  \A v \in DOMAIN versions, o \in Others :
    Status(v, o) \in {"At risk", "Needs attention"} /\ ProblemAreas(v, o).areas = {} =>
      /\ Status(v, o) = "Needs attention"
      /\ versions[v].top.direction = "declining" /\ versions[v].top.score >= StruggleBelow

\* A decline of a skill comes into the queue one version late: the version computed on it
\* has an area whatever became of the skill, and a skill there whose score is not low was
\* declining at the version before, for all the progress the tab may show of it now.
AreasLagBehind ==
  \A v \in DOMAIN versions, o \in Others, s \in Skills :
    LET declined == merged[v].base > 0 /\ Before(v).skills[s].measure.direction = "declining" IN
    /\ declined /\ versions[v].skills[s].measure.score # None => ProblemAreas(v, o).areas # {}
    /\ ProblemAreas(v, o).from = "skills" /\ s \in ProblemAreas(v, o).areas =>
         versions[v].skills[s].measure.score < StruggleBelow \/ declined

\* A learner at risk for a low stability has a struggle on the tab, unless the state has
\* skills and the stability is not that of one of them.  Without skills the tab has a struggle
\* exactly when the queue has retention, unless the score came back after it was removed.
RetentionIsStruggle ==
  \A v \in DOMAIN versions, o \in Others :
    /\ Below(o.stability.score, RiskBelow) /\ Struggles(v, o) = {} =>
         versions[v].has /\ \A s \in Skills : versions[v].skills[s].present => o.skills[s].score # o.stability.score
    /\ ~versions[v].has /\ ~(o.stability.direction = "none" /\ o.stability.overall = "declining") =>
         (Struggles(v, o) # {} <=> "Retention" \in ProblemAreas(v, o).areas)

\* What a trajectory, a summary and three screens say of a learner follows from the versions and
\* does not contradict itself, but for the cases that are named: a removed score, a version
\* computed on an older one, a computation repeated, another dominant skill, a decline of
\* mastery alone.
ReportsFollowState ==
  /\ OverallHasStep /\ OrphansAreOfRemoval /\ GapsAreOfWeakest /\ FlaggedHasEvidence
  /\ TrendNamesSkill /\ StatusHasArea /\ AreasLagBehind /\ RetentionIsStruggle /\ AggregationBounds
================================================================================
