------------------------------ MODULE LearnerState ------------------------------
(***************************************************************************)
(* What the STATE engine makes of one learner's signals: a payload is      *)
(* merged into the state (null removes a key), evidence is counted, the    *)
(* scores of the dominant skill are copied to the top level, the skills    *)
(* are aggregated by subject, and only then the difference to the version  *)
(* before is written beside every number.  masteryScore stands for every   *)
(* metric, in units of the last decimal that is kept.  The numbers that    *)
(* accompany a score are numbers too and get companions of their own, so   *)
(* of these the model keeps the levels: 1 is masteryScore_delta, 2 is      *)
(* masteryScore_delta_delta.  On DynamoDB a version may be computed on one *)
(* that others have replaced by the time it is numbered (ApplySignals has  *)
(* the reads).  When a version conflict made the engine compute again, it  *)
(* merges the payload objects that the first computation has counted in:   *)
(* see Spoiled.                                                            *)
(***************************************************************************)
EXTENDS Integers, Sequences, FiniteSets, FiniteSetsExt

CONSTANTS
  Skills,       \* skill ids, in lexicographic order
  Scores,       \* the scores that signals carry
  Subjects,     \* the default subject is one of them
  OwnSubject,   \* the subject that the signals of a skill name, or "none"
  Configs,      \* what subjects.json of the organisation may hold
  Payloads,     \* the payloads that signals carry
  MaxVersions   \* bound on the signals

ASSUME LearnerStateAssumption ==
  /\ IsFiniteSet(Skills) /\ Skills \subseteq Nat /\ Scores \subseteq Nat /\ MaxVersions \in Nat
  /\ OwnSubject \in [Skills -> Subjects \cup {"none"}]
  /\ "General" \in Subjects
  /\ \A c \in Configs : /\ c.explicit \in [Skills -> Subjects \cup {"none"}]
                        /\ c.prefixed \in Seq([skills : SUBSET Skills, subject : Subjects])
                        /\ c.default \in Subjects
  /\ Payloads \subseteq
       [skill : Skills \cup {0},
        score : [kind : {"number"}, value : Scores] \cup [kind : {"absent", "null"}],
        skills : [Skills -> [kind : {"number"}, value : Scores] \cup [kind : {"absent", "null", "null_score"}]]]

VARIABLES
  config,    \* subjects.json as it was read, once
  versions,  \* state_versions of the learner
  merged     \* of each version: its signal, the version its state was first computed on, the
             \* one it was computed on at last, and the versions that it goes back to

stateVars == <<config, versions, merged>>

None == -1
NoAggregation == [skills |-> <<>>]
Directions == {"none", "improving", "stable", "declining"}
Measure == [score : Scores \cup {None}, direction : Directions,
            levels : SUBSET (1..MaxVersions)]
NoMeasure == [score |-> None, direction |-> "none", levels |-> {}]
NoEntry == [measure |-> NoMeasure, evidence |-> 0, present |-> FALSE]
Empty == [skill |-> 0, top |-> NoMeasure, has |-> FALSE, skills |-> [s \in Skills |-> NoEntry],
          aggregation |-> NoAggregation]

\* A version per signal merged, each computed from versions before it, and scores of the scale only.
StateTypeOK ==
  /\ config \in Configs /\ Len(merged) = Len(versions) /\ Len(versions) <= MaxVersions
  /\ \A v \in DOMAIN versions : LET st == versions[v] IN
       /\ merged[v].payload \in Payloads /\ merged[v].first <= merged[v].base /\ merged[v].base \in 0..(v - 1) /\ st.has \in BOOLEAN
       /\ st.skill \in Skills \cup {0} /\ st.top \in Measure
       /\ \A s \in Skills : /\ st.skills[s].measure \in Measure /\ st.skills[s].evidence \in Nat
                            /\ st.skills[s] # NoEntry => st.skills[s].present

StateInit == config \in Configs /\ versions = <<>> /\ merged = <<>>
StateAt(v) == IF v = 0 THEN Empty ELSE versions[v]

--------------------------------------------------------------------------------
\* deepMerge of the payload into the state.
SetScore(measure, field) ==
  CASE field.kind = "absent" -> measure
    [] field.kind \in {"null", "null_score"} -> [measure EXCEPT !.score = None]
    [] field.kind = "number" -> [measure EXCEPT !.score = field.value]

\* The payload has a skills record.
HasSkills(p) == \E s \in Skills : p.skills[s].kind # "absent"

MergeEntry(entry, field) ==
  CASE field.kind = "absent" -> entry
    [] field.kind = "null" -> NoEntry
    [] OTHER -> [entry EXCEPT !.present = TRUE, !.measure = SetScore(@, field)]

Merge(st, p) ==
  [st EXCEPT !.skill = IF p.skill = 0 THEN @ ELSE p.skill,
             !.top = SetScore(@, p.score),
             !.has = @ \/ HasSkills(p),
             !.skills = [s \in Skills |-> MergeEntry(@[s], p.skills[s])]]

\* Mutant: a score at the top level is no evidence for the skill it names.
NestedEvidence(p) == {s \in Skills : p.skills[s].kind = "number"}

\* incrementSkillEvidenceCounts: the skills that the signal is evidence for.
Evidenced(p) ==
  {s \in Skills : p.skills[s].kind = "number" \/ (p.score.kind = "number" /\ p.skill = s)}

Counted(entry) == [entry EXCEPT !.present = TRUE, !.evidence = @ + 1]
CountEvidence(st, p) ==
  [st EXCEPT !.has = @ \/ Evidenced(p) # {},
             !.skills = [s \in Skills |-> IF s \in Evidenced(p) THEN Counted(@[s]) ELSE @[s]]]

\* promoteDominantSkillScores.
Promote(st) ==
  IF st.skill # 0 /\ st.skills[st.skill].measure.score # None
  THEN [st EXCEPT !.top.score = st.skills[st.skill].measure.score] ELSE st

--------------------------------------------------------------------------------
\* resolveSubjectForSkill: the first of five that says something.
SubjectOf(s) ==
  LET rules == {i \in DOMAIN config.prefixed : s \in config.prefixed[i].skills} IN
  CASE OwnSubject[s] # "none" -> OwnSubject[s]
    [] OwnSubject[s] = "none" /\ config.explicit[s] # "none" -> config.explicit[s]
    [] OwnSubject[s] = "none" /\ config.explicit[s] = "none" /\ rules # {} -> config.prefixed[Min(rules)].subject
    [] OTHER -> config.default

\* The arithmetic mean, rounded to the last decimal.
MeanOf(f, S) == (2 * MapThenSumSet(LAMBDA x : f[x], S) + Cardinality(S)) \div (2 * Cardinality(S))

\* pickExtremeSkill: of equal scores the first skill.
Strongest(f, S) == Min({s \in S : \A r \in S : f[r] <= f[s]})
Weakest(f, S) == Min({s \in S : \A r \in S : f[r] >= f[s]})

\* computeLearnerAggregation: none without a score.
Aggregate(st, version) ==
  LET score == [s \in Skills |-> st.skills[s].measure.score]
      scored == {s \in Skills : score[s] # None}
      named == {SubjectOf(s) : s \in scored}
      subjects == [u \in named |-> LET of == {s \in scored : SubjectOf(s) = u} IN
                     [mean |-> MeanOf(score, of), skills |-> of,
                      strongest |-> Strongest(score, of), weakest |-> Weakest(score, of)]]
  IN IF scored = {} THEN [st EXCEPT !.aggregation = NoAggregation]
     ELSE [st EXCEPT !.aggregation =
             [version |-> version, subjects |-> subjects,
              overall |-> MeanOf([u \in named |-> subjects[u].mean], named),
              skills |-> [s \in scored |-> [direction |-> st.skills[s].measure.direction,
                                            evidence |-> st.skills[s].evidence]]]]

--------------------------------------------------------------------------------
DirectionOf(before, after) ==
  CASE after > before -> "improving" [] after < before -> "declining" [] OTHER -> "stable"

\* computeStateDeltas and computeNestedDeltas on one score: a number that is in
\* both versions gets a companion, a companion that is in both gets one of its
\* own, and when the score was removed its own companion is removed with it.
Companions(before, after) ==
  LET higher == after.levels \cup {i + 1 : i \in before.levels \cap after.levels} IN
  CASE before.score # None /\ after.score # None ->
         [after EXCEPT !.direction = DirectionOf(before.score, after.score), !.levels = higher \cup {1}]
    [] before.score # None /\ after.score = None -> [after EXCEPT !.direction = "none", !.levels = higher \ {1}]
    [] OTHER -> [after EXCEPT !.levels = higher]

EntryDeltas(before, after) ==
  IF before.present /\ after.present
  THEN [after EXCEPT !.measure = Companions(before.measure, @)] ELSE after

Deltas(before, after) ==
  [after EXCEPT !.top = Companions(before.top, @),
                !.skills = [s \in Skills |-> EntryDeltas(before.skills[s], @[s])]]

ComputeNewState(st, p, version) == Aggregate(Promote(CountEvidence(Merge(st, p), p)), version)

\* Where the state lacks a key the merge puts the payload's own object, and the
\* count is then written into the payload: the skills for which it was.
Spoiled(st, p) ==
  {s \in Evidenced(p) :
     \/ p.skills[s].kind \in {"number", "null_score"} /\ ~st.skills[s].present
     \/ HasSkills(p) /\ ~st.has}

\* The merge of a payload that carries a count of 1 for the spoiled skills; the
\* entry of a skill that it named with null, or not at all, is now an object.
Bare(p, spoiled) ==
  [p EXCEPT !.skills = [s \in Skills |->
     IF s \in spoiled /\ @[s].kind = "null" THEN [kind |-> "absent"] ELSE @[s]]]
CountOfOne(entry) == [entry EXCEPT !.present = TRUE, !.evidence = 1]
MergeSpoiled(st, p, spoiled) ==
  LET plain == Merge(st, Bare(p, spoiled)) IN
  [plain EXCEPT !.skills = [s \in Skills |-> IF s \in spoiled THEN CountOfOne(@[s]) ELSE @[s]]]

Save(new, p, first, base) ==
  /\ Len(versions) < MaxVersions
  /\ versions' = Append(versions, Deltas(StateAt(base), new))
  /\ merged' = Append(merged, [payload |-> p, first |-> first, base |-> base,
                              of |-> {Len(versions) + 1} \cup IF base = 0 THEN {} ELSE merged[base].of])
  /\ UNCHANGED config

\* One signal becomes the next version; the version it was computed on may be an earlier
\* one than the one before.
ApplyOne(p, base) == Save(ComputeNewState(StateAt(base), p, base + 1), p, base, base)

\* The same after a conflict: the state was first computed on an earlier version.
ApplyAgain(p, first, base) ==
  LET counted == CountEvidence(MergeSpoiled(StateAt(base), p, Spoiled(StateAt(first), p)), p) IN
  first < base /\ Save(Aggregate(Promote(counted), base + 1), p, first, base)

StateNext == \E p \in Payloads, base \in 0..Len(versions) :
  ApplyOne(p, base) \/ \E first \in 0..Len(versions) : ApplyAgain(p, first, base)

StateSpec == StateInit /\ [][StateNext]_stateVars

--------------------------------------------------------------------------------
Before(v) == StateAt(merged[v].base)
\* The last version that removed the skill, 0 when none did.
Removed(s, v) == Max({0} \cup {u \in merged[v].of : merged[u].payload.skills[s].kind = "null"})
ScoredBy(u, s) == LET p == merged[u].payload IN
  p.skills[s].kind = "number" \/ (p.score.kind = "number" /\ p.skill = s)
\* The signals that scored the skill, of those the version goes back to.
Scoring(s, v) == {u \in merged[v].of : u >= Removed(s, v) /\ ScoredBy(u, s)}

\* The signal scored the skill and was merged again after a conflict, when its first base
\* lacked the skill or all skills.
Recounted(u, s) ==
  LET first == StateAt(merged[u].first) IN
  merged[u].first < merged[u].base /\ ScoredBy(u, s) /\ (~first.has \/ ~first.skills[s].present)

\* evidenceCount is the number of signals that scored the skill, in either of the
\* two places where a signal may carry a score, since the skill was last removed:
\* unless one of them was recounted, which leaves a count of 2.  Signals of versions that
\* were numbered past are not counted.
EvidenceIsCounted ==
  \A v \in DOMAIN versions, s \in Skills :
    (\A u \in Scoring(s, v) : ~Recounted(u, s)) =>
      versions[v].skills[s].evidence = Cardinality(Scoring(s, v))

\* A score has a delta and a direction exactly when the version it was computed on had
\* the score, and the direction is that of the change: also after it was removed and has
\* come back.
DeltaHasBaseline ==
  \A v \in DOMAIN versions, s \in Skills :
    LET after == versions[v].skills[s].measure
        before == Before(v).skills[s].measure
        both == before.score # None /\ after.score # None
    IN /\ (1 \in after.levels <=> both)
       /\ after.direction = IF both THEN DirectionOf(before.score, after.score) ELSE "none"

\* What a score leaves behind only grows: as long as the skill is there, every
\* version adds a level of companions, also when the score itself is gone.
CompanionsGrow ==
  \A v \in DOMAIN versions, s \in Skills :
    Before(v).skills[s].measure.levels # {} /\ Removed(s, v) # v =>
      Max(versions[v].skills[s].measure.levels) = Max(Before(v).skills[s].measure.levels) + 1

\* The aggregation is made before the differences are: the direction it shows for
\* a skill is the one of the version it was computed on, and computed_at_version is that
\* version's successor, which another call may have saved in the meantime.
AggregationLagsBehind ==
  \A v \in DOMAIN versions : versions[v].aggregation # NoAggregation =>
    /\ versions[v].aggregation.version = merged[v].base + 1
    /\ \A s \in DOMAIN versions[v].aggregation.skills :
         versions[v].aggregation.skills[s].direction = Before(v).skills[s].measure.direction

\* Every skill with a score is in one subject.
SkillsHaveSubject ==
  \A v \in DOMAIN versions, s \in Skills : LET st == versions[v] IN
    st.aggregation # NoAggregation /\ st.skills[s].measure.score # None =>
      Cardinality({u \in DOMAIN st.aggregation.subjects : s \in st.aggregation.subjects[u].skills}) = 1

\* A subject's mean lies between its weakest and its strongest skill, the overall one
\* between two subjects.
AggregationBounds ==
  \A v \in DOMAIN versions : versions[v].aggregation # NoAggregation =>
    LET agg == versions[v].aggregation
        score(s) == versions[v].skills[s].measure.score
        means == {agg.subjects[u].mean : u \in DOMAIN agg.subjects}
    IN /\ \A u \in DOMAIN agg.subjects :
            /\ score(agg.subjects[u].weakest) <= agg.subjects[u].mean
            /\ agg.subjects[u].mean <= score(agg.subjects[u].strongest)
       /\ Min(means) <= agg.overall /\ agg.overall <= Max(means)

\* The score at the top level is that of the state's skill when it has one, and
\* changes only with a score for it, or for the top level itself.
TopScoreIsOfSkill ==
  \A v \in DOMAIN versions :
    LET st == versions[v]  own == IF st.skill = 0 THEN None ELSE st.skills[st.skill].measure.score IN
    /\ own # None => st.top.score = own
    /\ own = None /\ merged[v].payload.score.kind = "absent" => st.top.score = Before(v).top.score

\* Every stored version is accounted for by the signals merged into the versions it was computed
\* on: its counts, its differences, its companions, its subjects and its top level.
StateIsOfSignals ==
  /\ StateTypeOK /\ EvidenceIsCounted /\ DeltaHasBaseline /\ CompanionsGrow
  /\ AggregationLagsBehind /\ SkillsHaveSubject /\ TopScoreIsOfSkill
===============================================================================
