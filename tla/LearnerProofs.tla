---------------------------- MODULE LearnerProofs ----------------------------
(***************************************************************************)
(* The STATE engine's computation, for every set of skills, payloads,      *)
(* configurations and scores, any number of versions, and recomputations   *)
(* after conflicts. The properties of LearnerState are nearly inductive.   *)
(* What is added says that a version is a state built on one before it     *)
(* and goes back to what that one goes back to (VersionSound): what is     *)
(* counted in the base is then counted in the version, plus its own        *)
(* signal. The merge, the count and the promotion are described by what    *)
(* each keeps of a state (Kept, Counted..., Computed), so that the first   *)
(* computation and the recomputation share one proof.  The reports rest on *)
(* four facts more of a version (VersionTold), on a mean being between the *)
(* bounds of what it is of, and on the first k of a strict order being k.  *)
(* The checks of a payload before it becomes state go by what each step of *)
(* a mapping keeps of the payload and adds to it (Told, Mapped): the       *)
(* answer and the preflight's verdict are of the same function.            *)
(***************************************************************************)
EXTENDS LearnerViews, SignalChecks, FiniteSetTheorems, WellFoundedInduction, TLAPS

\* The types of what a version is made of.
Fields == [kind : {"number"}, value : Scores] \cup [kind : {"absent", "null", "null_score"}]
Measures == [score : Scores \cup {None}, direction : Directions, levels : SUBSET Nat]
Entries == [measure : Measures, evidence : Nat, present : BOOLEAN]
MergedRows == [payload : Payloads, first : Nat, base : Nat, of : SUBSET Nat]
IsSeq(q) == \E S : q \in Seq(S)

\* A state, whatever its aggregation.
IsState(st) ==
  /\ st = [skill |-> st.skill, top |-> st.top, has |-> st.has, skills |-> st.skills,
           aggregation |-> st.aggregation]
  /\ st.skill \in Skills \cup {0} /\ st.top \in Measures /\ st.has \in BOOLEAN
  /\ st.skills \in [Skills -> Entries]
  /\ \A s \in Skills : st.skills[s] # NoEntry => st.skills[s].present

\* Companions up to a level, and none of the first level without a score.
LevelsUpTo(st, n) ==
  /\ st.top.levels \subseteq 1..n
  /\ st.top.score = None => 1 \notin st.top.levels /\ st.top.direction = "none"
  /\ \A s \in Skills : LET m == st.skills[s].measure IN
       /\ m.levels \subseteq 1..n
       /\ m.score = None => 1 \notin m.levels /\ m.direction = "none"

\* An entry is removed, or what accompanies its score stays.
EntriesKept(st, new, p) ==
  \A s \in Skills : LET old == st.skills[s]  e == new.skills[s] IN
    \/ e.measure.levels = old.measure.levels /\ e.measure.direction = old.measure.direction
         /\ (old.present => e.present)
    \/ e.measure = NoMeasure /\ p.skills[s].kind = "null"

\* A state with a skill has a record of skills.
SkillsHeld(st) == \A s \in Skills : st.skills[s].present => st.has

\* What the merge leaves of a state, and the merge with the count.
Kept(st, new, p) ==
  /\ IsState(new) /\ new.top.levels = st.top.levels /\ new.top.direction = st.top.direction
  /\ EntriesKept(st, new, p)
  /\ SkillsHeld(st) => \A s \in Skills : new.skills[s].present => new.has \/ s \in Evidenced(p)
  /\ p.score.kind = "absent" => new.top.score = st.top.score
CountLeft(st, new, p, spoiled) ==
  \A s \in Skills \ spoiled :
    new.skills[s].evidence = IF p.skills[s].kind = "null" THEN 0 ELSE st.skills[s].evidence
CountGiven(st, new, p, spoiled) ==
  \A s \in Skills \ spoiled :
    new.skills[s].evidence = (IF p.skills[s].kind = "null" THEN 0 ELSE st.skills[s].evidence)
                               + (IF s \in Evidenced(p) THEN 1 ELSE 0)

\* The aggregation of a state: its version, its directions and the subject of every skill.
OwnScore(st) == IF st.skill = 0 THEN None ELSE st.skills[st.skill].measure.score
AggregatedAs(st, version) ==
  st.aggregation # NoAggregation => LET agg == st.aggregation IN
    /\ agg.version = version
    /\ \A s \in DOMAIN agg.skills :
         /\ s \in Skills /\ st.skills[s].measure.score # None
         /\ agg.skills[s].direction = st.skills[s].measure.direction
    /\ \A s \in Skills : st.skills[s].measure.score # None =>
         \E u : {w \in DOMAIN agg.subjects : s \in agg.subjects[w].skills} = {u}

\* The aggregation as a breakdown by subject: of every subject its skills, their mean, the
\* strongest and the weakest, and the mean of the means; none only without a score.
ScoreOf(st) == [s \in Skills |-> st.skills[s].measure.score]
ScoredIn(st) == {s \in Skills : st.skills[s].measure.score # None}
BrokenDown(st) ==
  /\ st.aggregation = NoAggregation => ScoredIn(st) = {}
  /\ st.aggregation # NoAggregation => LET agg == st.aggregation  names == DOMAIN agg.subjects IN
    /\ IsFiniteSet(names) /\ names # {} /\ DOMAIN agg.skills = ScoredIn(st)
    /\ \A s \in ScoredIn(st) : agg.skills[s].evidence = st.skills[s].evidence
    /\ agg.overall = MeanOf([u \in names |-> agg.subjects[u].mean], names)
    /\ \A u \in names : LET x == agg.subjects[u] IN
         /\ x.skills # {} /\ x.skills \subseteq ScoredIn(st) /\ x.mean = MeanOf(ScoreOf(st), x.skills)
         /\ x.strongest = Strongest(ScoreOf(st), x.skills) /\ x.weakest = Weakest(ScoreOf(st), x.skills)

\* What a computation makes of a state, before the differences are written.
Computed(st, new, p, spoiled, version) ==
  /\ IsState(new) /\ new.top.levels = st.top.levels /\ new.top.direction = st.top.direction
  /\ EntriesKept(st, new, p) /\ (SkillsHeld(st) => SkillsHeld(new))
  /\ CountGiven(st, new, p, spoiled) /\ AggregatedAs(new, version) /\ BrokenDown(new)
  /\ OwnScore(new) # None => new.top.score = OwnScore(new)
  /\ OwnScore(new) = None /\ p.score.kind = "absent" => new.top.score = st.top.score

\* The difference that is written at the top level; a companion without the one below it
\* was one before, or the score is gone.
TopFollows(before, after) ==
  LET both == before.score # None /\ after.score # None IN
  /\ (1 \in after.levels <=> both)
  /\ after.direction = IF both THEN DirectionOf(before.score, after.score) ELSE "none"
  /\ \A i \in after.levels : i > 1 /\ i - 1 \notin after.levels =>
       \/ i \in before.levels /\ i - 1 \notin before.levels
       \/ after.score = None /\ before.levels # {}

\* A row for every version, and no more versions than the bound.
VersionsTyped ==
  /\ config \in Configs /\ IsSeq(versions) /\ merged \in Seq(MergedRows)
  /\ Len(merged) = Len(versions) /\ Len(versions) <= MaxVersions

\* Each version is a state, computed on one before it, and goes back to what that one goes
\* back to; what it holds is accounted for.
VersionSound(v) ==
  /\ IsState(versions[v]) /\ LevelsUpTo(versions[v], v)
  /\ merged[v].first <= merged[v].base /\ merged[v].base < v
  /\ merged[v].of = {v} \cup (IF merged[v].base = 0 THEN {} ELSE merged[merged[v].base].of)
  /\ merged[v].of \subseteq 1..v

\* What the reports rest on: the record of skills, the breakdown, the difference at the top
\* level, and where a companion comes from that has none below it.
VersionTold(v) ==
  /\ SkillsHeld(versions[v]) /\ BrokenDown(versions[v])
  /\ TopFollows(Before(v).top, versions[v].top)
  /\ \A i \in versions[v].top.levels : i > 1 /\ i - 1 \notin versions[v].top.levels =>
       \E u \in merged[v].of : versions[u].top.score = None /\ Before(u).top.levels # {}

\* The inductive invariant: the properties, over versions that are sound.
StateInv ==
  /\ VersionsTyped /\ \A v \in DOMAIN versions : VersionSound(v) /\ VersionTold(v)
  /\ EvidenceIsCounted /\ DeltaHasBaseline /\ CompanionsGrow
  /\ AggregationLagsBehind /\ SkillsHaveSubject /\ TopScoreIsOfSkill

--------------------------------------------------------------------------------
\* A number of the set that no other exceeds is its maximum.
LEMMA MaxIs ==
    ASSUME NEW S \in SUBSET Nat, NEW m \in S, \A n \in S : n <= m
    PROVE  Max(S) = m
<1>1. \A k \in S : (\A n \in S : k >= n) => k = m
  OBVIOUS
<1>2. \A n \in S : m >= n
  OBVIOUS
<1> DEFINE g == Max(S)
<1>3. g \in S /\ \A n \in S : g >= n
  BY <1>2 DEF Max
<1> QED
  BY <1>1, <1>3

\* Natural numbers of a set that is not empty have a smallest one among them.
LEMMA Smallest == \A T \in SUBSET Nat : T # {} => \E m \in T : \A n \in T : m <= n
<1> SUFFICES ASSUME NEW T \in SUBSET Nat, T # {} PROVE \E m \in T : \A n \in T : m <= n
  OBVIOUS
<1> DEFINE less == OpToRel(<, Nat)
<1>1. \A m \in Nat, n \in Nat : (<<m, n>> \in less) <=> (m < n)
  BY DEF OpToRel
<1>2. IsWellFoundedOn(less, Nat)
  BY NatLessThanWellFounded
<1> HIDE DEF less
<1>3. PICK m \in T : \A n \in T : ~(<<n, m>> \in less)
  BY <1>2, WFMin
<1>4. \A n \in T : m <= n
  <2> SUFFICES ASSUME NEW n \in T PROVE m <= n
    OBVIOUS
  <2>1. m \in Nat /\ n \in Nat
    OBVIOUS
  <2>2. ~(n < m)
    BY <1>1, <1>3, <2>1
  <2> QED
    BY <2>1, <2>2
<1> QED
  BY <1>4

\* A sum over a finite set is a function of its subsets: one element and the sum of the rest.
Picked(s) == CHOOSE x \in s : TRUE
AddsUp(g, f, D) == g = [s \in D |-> IF s = {} THEN 0 ELSE f[Picked(s)] + g[s \ {Picked(s)}]]

\* There is such a sum for every finite set.
LEMMA SumExists ==
    ASSUME NEW S, IsFiniteSet(S), NEW f
    PROVE  \E g : AddsUp(g, f, SUBSET S)
<1> DEFINE D(n) == {s \in SUBSET S : Cardinality(s) <= n}
          T == {n \in Nat : ~\E g : AddsUp(g, f, D(n))}
<1>1. \A s \in SUBSET S : IsFiniteSet(s) /\ Cardinality(s) \in Nat /\ (Cardinality(s) <= 0 => s = {})
  BY FS_Subset, FS_CardinalityType, FS_EmptySet
<1>2. \A s \in SUBSET S : s # {} => /\ Picked(s) \in s /\ s \ {Picked(s)} \in SUBSET S
                                    /\ Cardinality(s \ {Picked(s)}) = Cardinality(s) - 1
  BY <1>1, FS_RemoveElement DEF Picked
<1>3. ASSUME T # {} PROVE FALSE
  <2>1. PICK n \in T : \A k \in T : n <= k
    <3>1. T \in SUBSET Nat
      OBVIOUS
    <3> HIDE DEF T
    <3> QED
      BY <3>1, <1>3, Smallest
  <2>2. CASE n = 0
    <3> DEFINE g == [s \in D(0) |-> 0]
    <3>1. \A s \in D(0) : s = {}
      BY <1>1
    <3>2. AddsUp(g, f, D(0))
      BY <3>1 DEF AddsUp
    <3> QED
      BY <3>2, <2>2
  <2>3. CASE n # 0
    <3>6. n \in Nat
      BY <2>1
    <3>7. n - 1 \in Nat /\ n - 1 \notin T
      <4> HIDE DEF T
      <4> QED
        BY <3>6, <2>1, <2>3
    <3>1. n - 1 \in Nat /\ \E g : AddsUp(g, f, D(n - 1))
      BY <3>7
    <3>2. PICK h : AddsUp(h, f, D(n - 1))
      BY <3>1
    <3> DEFINE g == [s \in D(n) |-> IF s = {} THEN 0 ELSE f[Picked(s)] + h[s \ {Picked(s)}]]
    <3>3. ASSUME NEW s \in D(n), s # {} PROVE s \ {Picked(s)} \in D(n - 1) /\ s \ {Picked(s)} \in D(n)
      BY <3>1, <3>3, <1>1, <1>2
    <3>4. ASSUME NEW s \in D(n - 1) PROVE s \in D(n) /\ g[s] = h[s]
      <4>1. s \in D(n)
        BY <3>1, <1>1
      <4>2. h[s] = IF s = {} THEN 0 ELSE f[Picked(s)] + h[s \ {Picked(s)}]
        BY <3>2 DEF AddsUp
      <4> QED
        BY <4>1, <4>2
    <3>5. AddsUp(g, f, D(n))
      <4>1. \A s \in D(n) : g[s] = IF s = {} THEN 0 ELSE f[Picked(s)] + g[s \ {Picked(s)}]
        BY <3>3, <3>4
      <4>2. g = [s \in D(n) |-> g[s]]
        OBVIOUS
      <4> HIDE DEF g
      <4> QED
        BY <4>1, <4>2 DEF AddsUp
    <3> QED
      BY <3>5, <2>1
  <2> QED
    BY <2>2, <2>3
<1>4. PICK g : AddsUp(g, f, D(Cardinality(S)))
  BY <1>1, <1>3, FS_CardinalityType
<1>5. D(Cardinality(S)) = SUBSET S
  BY FS_Subset
<1> QED
  BY <1>4, <1>5

\* The mean is the sum, divided and rounded.
LEMMA MeanIs ==
    ASSUME NEW S, IsFiniteSet(S), NEW f
    PROVE  \E g : /\ AddsUp(g, f, SUBSET S)
                  /\ MeanOf(f, S) = (2 * g[S] + Cardinality(S)) \div (2 * Cardinality(S))
<1> DEFINE g == CHOOSE h : AddsUp(h, f, SUBSET S)
<1>1. AddsUp(g, f, SUBSET S)
  BY SumExists
<1>2. MeanOf(f, S) = (2 * g[S] + Cardinality(S)) \div (2 * Cardinality(S))
  BY DEF MeanOf, MapThenSumSet, MapThenFoldSet, AddsUp, Picked
<1> QED
  BY <1>1, <1>2

\* The sum of numbers between two bounds is between as many of these.
LEMMA SumBetween ==
    ASSUME NEW S, IsFiniteSet(S), NEW f, NEW lo \in Int, NEW hi \in Int,
           \A x \in S : f[x] \in Int /\ lo <= f[x] /\ f[x] <= hi,
           NEW g, AddsUp(g, f, SUBSET S)
    PROVE  /\ g[S] \in Int /\ lo * Cardinality(S) <= g[S] /\ g[S] <= hi * Cardinality(S)
<1> DEFINE Good(s) == /\ g[s] \in Int /\ lo * Cardinality(s) <= g[s] /\ g[s] <= hi * Cardinality(s)
          T == {n \in Nat : \E s \in SUBSET S : Cardinality(s) = n /\ ~Good(s)}
<1>1. \A s \in SUBSET S : IsFiniteSet(s) /\ Cardinality(s) \in Nat /\ (Cardinality(s) = 0 => s = {})
  BY FS_Subset, FS_CardinalityType, FS_EmptySet
<1>2. \A s \in SUBSET S : s # {} => /\ Picked(s) \in s /\ s \ {Picked(s)} \in SUBSET S
                                    /\ Cardinality(s \ {Picked(s)}) = Cardinality(s) - 1
  BY <1>1, FS_RemoveElement DEF Picked
<1>3. ASSUME T # {} PROVE FALSE
  <2>1. PICK n \in T : \A k \in T : n <= k
    <3>1. T \in SUBSET Nat
      OBVIOUS
    <3> HIDE DEF T
    <3> QED
      BY <3>1, <1>3, Smallest
  <2>2. PICK s \in SUBSET S : Cardinality(s) = n /\ ~Good(s)
    BY <2>1
  <2>3. s # {}
    <3>1. SUFFICES ASSUME s = {} PROVE Good(s)
      BY <2>2
    <3>2. Cardinality(s) = 0 /\ g[s] = 0
      BY <3>1, FS_EmptySet DEF AddsUp
    <3>3. lo * 0 = 0 /\ hi * 0 = 0
      OBVIOUS
    <3> QED
      BY <3>2, <3>3
  <2> DEFINE x == Picked(s)  r == s \ {x}
  <2>4. x \in S /\ r \in SUBSET S /\ Cardinality(r) = n - 1 /\ n \in Nat /\ n - 1 \in Nat
    BY <1>1, <1>2, <2>2, <2>3
  <2>5. Good(r)
    <3>1. n - 1 \notin T
      <4> HIDE DEF T
      <4> QED
        BY <2>1, <2>4
    <3> HIDE DEF Good, r
    <3> QED
      BY <3>1, <2>4
  <2>6. g[s] = f[x] + g[r]
    BY <2>3 DEF AddsUp
  <2>7. f[x] \in Int /\ lo <= f[x] /\ f[x] <= hi
    BY <2>4
  <2>8. lo * n = lo * (n - 1) + lo /\ hi * n = hi * (n - 1) + hi /\ lo * n \in Int /\ hi * n \in Int
        /\ lo * (n - 1) \in Int /\ hi * (n - 1) \in Int
    BY <2>4
  <2>9. g[r] \in Int /\ lo * (n - 1) <= g[r] /\ g[r] <= hi * (n - 1)
    BY <2>4, <2>5
  <2> HIDE DEF x, r
  <2>10. g[s] \in Int /\ lo * n <= g[s] /\ g[s] <= hi * n
    BY <2>6, <2>7, <2>8, <2>9
  <2> QED
    BY <2>2, <2>10
<1> QED
  BY <1>1, <1>3

\* A quotient of rounding to the nearest is between the bounds of what it is of.
LEMMA RoundedBetween ==
    ASSUME NEW n \in Nat, n # 0, NEW sum \in Int, NEW lo \in Int, NEW hi \in Int,
           lo * n <= sum, sum <= hi * n
    PROVE  LET q == (2 * sum + n) \div (2 * n) IN q \in Int /\ lo <= q /\ q <= hi
<1> DEFINE a == 2 * sum + n  b == 2 * n  q == a \div b
<1>1. a \in Int /\ b \in Int /\ b > 0
  OBVIOUS
<1> HIDE DEF a, b
<1>2. q \in Int /\ b * q <= a /\ a < b * (q + 1)
  BY <1>1
<1> HIDE DEF q
<1>3. b * lo <= a /\ a < b * (hi + 1)
  <2>1. b * lo = 2 * (lo * n) /\ b * (hi + 1) = 2 * (hi * n) + 2 * n
    BY DEF b
  <2>2. lo * n \in Int /\ hi * n \in Int
    OBVIOUS
  <2> QED
    BY <2>1, <2>2 DEF a
<1>4. \A i \in Int, j \in Int : b * i < b * j => i < j
  <2> SUFFICES ASSUME NEW i \in Int, NEW j \in Int, j <= i PROVE b * j <= b * i
    BY <1>1
  <2>1. i - j \in Nat
    OBVIOUS
  <2>2. b * (i - j) >= 0 /\ b * (i - j) = b * i - b * j
    BY <1>1, <2>1
  <2> QED
    BY <2>2, <1>1
<1>5. b * lo < b * (q + 1) /\ b * q < b * (hi + 1)
  <2>1. b * lo \in Int /\ b * (q + 1) \in Int /\ b * q \in Int /\ b * (hi + 1) \in Int
    BY <1>1, <1>2
  <2> QED
    BY <2>1, <1>1, <1>2, <1>3
<1>6. lo < q + 1 /\ q < hi + 1
  BY <1>2, <1>4, <1>5
<1> QED
  BY <1>2, <1>6 DEF q, a, b

\* The rounded mean of a set that is not empty.
LEMMA MeanBetween ==
    ASSUME NEW S, IsFiniteSet(S), S # {}, NEW f, NEW lo \in Int, NEW hi \in Int,
           \A x \in S : f[x] \in Int /\ lo <= f[x] /\ f[x] <= hi
    PROVE  MeanOf(f, S) \in Int /\ lo <= MeanOf(f, S) /\ MeanOf(f, S) <= hi
<1>1. PICK g : /\ AddsUp(g, f, SUBSET S)
               /\ MeanOf(f, S) = (2 * g[S] + Cardinality(S)) \div (2 * Cardinality(S))
  BY MeanIs
<1>2. /\ g[S] \in Int /\ lo * Cardinality(S) <= g[S] /\ g[S] <= hi * Cardinality(S)
  BY <1>1, SumBetween
<1>3. Cardinality(S) \in Nat /\ Cardinality(S) # 0
  BY FS_CardinalityType, FS_EmptySet
<1> QED
  BY <1>1, <1>2, <1>3, RoundedBetween

\* Of the members of a finite set one has the highest score.
LEMMA HighestScore ==
    ASSUME NEW S, IsFiniteSet(S), S # {}, NEW f, \A x \in S : f[x] \in Int
    PROVE  \E m \in S : \A x \in S : f[x] <= f[m]
<1> DEFINE Over(m) == {x \in S : f[x] > f[m]}
          T == {Cardinality(Over(m)) : m \in S}
<1>1. \A m \in S : IsFiniteSet(Over(m)) /\ Cardinality(Over(m)) \in Nat
  BY FS_Subset, FS_CardinalityType
<1>2. T \in SUBSET Nat /\ T # {}
  <2> HIDE DEF Over
  <2> QED
    BY <1>1
<1>3. PICK n \in T : \A k \in T : n <= k
  <2> HIDE DEF T
  <2> QED
    BY <1>2, Smallest
<1>4. PICK m \in S : n = Cardinality(Over(m))
  BY DEF T
<1>5. ASSUME NEW x \in S, f[x] > f[m] PROVE FALSE
  <2>1. f[x] \in Int /\ f[m] \in Int /\ \A y \in S : f[y] \in Int
    OBVIOUS
  <2>2. Over(x) \subseteq Over(m)
    BY <1>5, <2>1
  <2>3. x \in Over(m) /\ x \notin Over(x)
    BY <1>5, <2>1
  <2>4. Cardinality(Over(m)) <= Cardinality(Over(x))
    BY <1>3, <1>4
  <2> HIDE DEF Over
  <2>5. Cardinality(Over(x)) <= Cardinality(Over(m))
    BY <2>2, <1>1, FS_Subset
  <2>6. Cardinality(Over(m)) = Cardinality(Over(x))
    BY <2>4, <2>5, <1>1
  <2> QED
    BY <2>2, <2>3, <2>6, <1>1, FS_Subset
<1> QED
  BY <1>5

\* A smallest number is the minimum.
LEMMA MinIs ==
    ASSUME NEW S \in SUBSET Nat, S # {}
    PROVE  Min(S) \in S /\ \A n \in S : Min(S) <= n
<1>1. PICK m \in S : \A n \in S : m <= n
  BY Smallest
<1> QED
  BY <1>1 DEF Min

\* The strongest and the weakest of the skills that are scored.
LEMMA ExtremesAre ==
    ASSUME NEW S \in SUBSET Nat, IsFiniteSet(S), S # {}, NEW f, \A x \in S : f[x] \in Int
    PROVE  /\ Strongest(f, S) \in S /\ \A x \in S : f[x] <= f[Strongest(f, S)]
           /\ Weakest(f, S) \in S /\ \A x \in S : f[Weakest(f, S)] <= f[x]
<1> DEFINE H == {s \in S : \A r \in S : f[r] <= f[s]}
          L == {s \in S : \A r \in S : f[r] >= f[s]}
          g == [x \in S |-> 0 - f[x]]
<1>1. H \in SUBSET Nat /\ H # {}
  <2>1. PICK m \in S : \A x \in S : f[x] <= f[m]
    BY HighestScore
  <2> QED
    BY <2>1
<1>2. L \in SUBSET Nat /\ L # {}
  <2>1. \A x \in S : g[x] \in Int /\ g[x] = 0 - f[x]
    OBVIOUS
  <2> HIDE DEF g
  <2>2. PICK m \in S : \A x \in S : g[x] <= g[m]
    BY <2>1, HighestScore
  <2>3. \A x \in S : f[x] >= f[m]
    BY <2>1, <2>2
  <2> QED
    BY <2>3
<1>3. Min(H) \in H /\ Min(L) \in L
  <2> HIDE DEF H, L
  <2> QED
    BY <1>1, <1>2, MinIs
<1>4. Strongest(f, S) = Min(H) /\ Weakest(f, S) = Min(L)
  BY DEF Strongest, Weakest
<1> QED
  BY <1>3, <1>4

\* The highest of a finite set of numbers is the maximum.
LEMMA MaxOfFinite ==
    ASSUME NEW S, IsFiniteSet(S), S # {}, \A x \in S : x \in Int
    PROVE  Max(S) \in S /\ \A n \in S : n <= Max(S)
<1> DEFINE g == [x \in S |-> x]
<1>1. PICK m \in S : \A x \in S : g[x] <= g[m]
  <2>1. \A x \in S : g[x] \in Int
    OBVIOUS
  <2> HIDE DEF g
  <2> QED
    BY <2>1, HighestScore
<1>2. \A x \in S : x <= m
  BY <1>1
<1> QED
  BY <1>2 DEF Max

\* Of numbers up to a bound there is a largest.
LEMMA Largest ==
    ASSUME NEW k \in Nat, NEW S \in SUBSET (0..k), S # {}
    PROVE  \E m \in S : \A n \in S : n <= m
<1> DEFINE T == {k - n : n \in S}
<1>1. T \in SUBSET Nat /\ T # {}
  <2>1. \A n \in S : n \in Nat /\ k - n \in Nat
    OBVIOUS
  <2>2. PICK n \in S : TRUE
    OBVIOUS
  <2>3. k - n \in T
    OBVIOUS
  <2> QED
    BY <2>1, <2>3
<1> HIDE DEF T
<1>2. PICK m \in T : \A n \in T : m <= n
  BY <1>1, Smallest
<1>3. PICK x \in S : m = k - x
  BY DEF T
<1>4. ASSUME NEW y \in S PROVE y <= x
  <2>1. m <= k - y
    BY <1>2 DEF T
  <2> QED
    BY <2>1, <1>3
<1> QED
  BY <1>4

--------------------------------------------------------------------------------
\* The payloads that signals carry, and those that a first computation has left.
PayloadRows ==
  [skill : Skills \cup {0},
   score : [kind : {"number"}, value : Scores] \cup [kind : {"absent", "null"}],
   skills : [Skills -> Fields]]

\* A field sets the score and leaves what accompanies it.
LEMMA ScoreIsSet ==
    ASSUME NEW m \in Measures,
           NEW f \in Fields
    PROVE  /\ SetScore(m, f) \in Measures
           /\ SetScore(m, f).levels = m.levels /\ SetScore(m, f).direction = m.direction
           /\ f.kind = "absent" => SetScore(m, f) = m
<1>1. f.kind \in {"number", "absent", "null", "null_score"} /\ (f.kind = "number" => f.value \in Scores)
  BY DEF Fields
<1>2. CASE f.kind = "absent"
  BY <1>2 DEF SetScore
<1>3. CASE f.kind \in {"null", "null_score"}
  <2>1. SetScore(m, f) = [m EXCEPT !.score = None]
    BY <1>3 DEF SetScore
  <2> QED
    BY <2>1, <1>3 DEF Measures
<1>4. CASE f.kind = "number"
  <2>1. SetScore(m, f) = [m EXCEPT !.score = f.value]
    BY <1>4 DEF SetScore
  <2> QED
    BY <2>1, <1>1, <1>4 DEF Measures
<1> QED
  BY <1>1, <1>2, <1>3, <1>4

\* The merge of a payload into a state.
LEMMA MergeKeeps ==
    ASSUME NEW st, IsState(st), NEW p \in PayloadRows
    PROVE  LET new == Merge(st, p) IN
           /\ Kept(st, new, p)
           /\ CountLeft(st, new, p, {})
<1> DEFINE new == Merge(st, p)
          e(s) == MergeEntry(st.skills[s], p.skills[s])
<1>1. /\ p.skill \in Skills \cup {0} /\ p.skills \in [Skills -> Fields] /\ p.score \in Fields
      /\ HasSkills(p) \in BOOLEAN
  BY DEF PayloadRows, Fields, HasSkills
<1>2. new = [skill |-> IF p.skill = 0 THEN st.skill ELSE p.skill, top |-> SetScore(st.top, p.score),
             has |-> (st.has \/ HasSkills(p)), skills |-> [s \in Skills |-> e(s)],
             aggregation |-> st.aggregation]
  <2> DEFINE skill == IF p.skill = 0 THEN st.skill ELSE p.skill
            top == SetScore(st.top, p.score)
            has == st.has \/ HasSkills(p)
            skills == [s \in Skills |-> e(s)]
  <2>1. new = [st EXCEPT !.skill = skill, !.top = top, !.has = has, !.skills = skills]
    BY DEF Merge
  <2> HIDE DEF new, skill, top, has, skills
  <2>2. new = [skill |-> skill, top |-> top, has |-> has, skills |-> skills, aggregation |-> st.aggregation]
    BY <2>1 DEF IsState
  <2> QED
    BY <2>2 DEF skill, top, has, skills
<1>3. ASSUME NEW s \in Skills
      PROVE  /\ e(s) \in Entries
             /\ e(s) # NoEntry => e(s).present
             /\ IF p.skills[s].kind = "null" THEN e(s) = NoEntry
                ELSE /\ e(s).evidence = st.skills[s].evidence /\ (st.skills[s].present => e(s).present)
                     /\ e(s).measure.levels = st.skills[s].measure.levels
                     /\ e(s).measure.direction = st.skills[s].measure.direction
  <2>1. /\ st.skills[s] \in Entries /\ st.skills[s].measure \in Measures /\ p.skills[s] \in Fields
        /\ st.skills[s] # NoEntry => st.skills[s].present
    BY <1>1 DEF IsState, Entries
  <2>2. CASE p.skills[s].kind = "absent"
    BY <2>1, <2>2 DEF MergeEntry
  <2>3. CASE p.skills[s].kind = "null"
    BY <2>3 DEF MergeEntry, NoEntry, NoMeasure, Entries, Measures, Directions
  <2>4. CASE p.skills[s].kind \notin {"absent", "null"}
    <3>1. e(s) = [st.skills[s] EXCEPT !.present = TRUE, !.measure = SetScore(@, p.skills[s])]
      BY <2>4 DEF MergeEntry
    <3> HIDE DEF e
    <3>2. /\ SetScore(st.skills[s].measure, p.skills[s]) \in Measures
          /\ SetScore(st.skills[s].measure, p.skills[s]).levels = st.skills[s].measure.levels
          /\ SetScore(st.skills[s].measure, p.skills[s]).direction = st.skills[s].measure.direction
      BY <2>1, ScoreIsSet
    <3> QED
      BY <3>1, <3>2, <2>1, <2>4 DEF Entries
  <2> QED
    BY <2>2, <2>3, <2>4
<1>4. /\ SetScore(st.top, p.score) \in Measures /\ SetScore(st.top, p.score).levels = st.top.levels
      /\ SetScore(st.top, p.score).direction = st.top.direction
      /\ p.score.kind = "absent" => SetScore(st.top, p.score) = st.top
  BY <1>1, ScoreIsSet DEF IsState
<1> HIDE DEF e
<1>5. /\ new.skill \in Skills \cup {0} /\ new.has \in BOOLEAN /\ new.skills = [s \in Skills |-> e(s)]
      /\ new.has = (st.has \/ HasSkills(p))
      /\ new.top = SetScore(st.top, p.score)
  BY <1>1, <1>2 DEF IsState
<1>9. \A s \in Skills : e(s).present => st.skills[s].present \/ HasSkills(p)
  <2> SUFFICES ASSUME NEW s \in Skills, ~HasSkills(p) PROVE e(s) = st.skills[s]
    OBVIOUS
  <2> QED
    BY DEF HasSkills, MergeEntry, e
<1>6. new.skills \in [Skills -> Entries] /\ \A s \in Skills : new.skills[s] # NoEntry => new.skills[s].present
  BY <1>3, <1>5
<1>7. IsState(new)
  <2>1. new = [skill |-> new.skill, top |-> new.top, has |-> new.has, skills |-> new.skills,
               aggregation |-> new.aggregation]
    BY <1>2
  <2> HIDE DEF new
  <2> QED
    BY <2>1, <1>4, <1>5, <1>6 DEF IsState
<1>8. Kept(st, new, p)
  <2>1. ASSUME NEW s \in Skills
        PROVE \/ new.skills[s].measure.levels = st.skills[s].measure.levels
                   /\ new.skills[s].measure.direction = st.skills[s].measure.direction
                   /\ (st.skills[s].present => new.skills[s].present)
              \/ new.skills[s].measure = NoMeasure /\ p.skills[s].kind = "null"
    BY <1>3, <1>5 DEF NoEntry
  <2>2. SkillsHeld(st) => \A s \in Skills : new.skills[s].present => new.has
    BY <1>5, <1>9 DEF SkillsHeld
  <2> HIDE DEF new
  <2> QED
    BY <2>1, <2>2, <1>7, <1>4, <1>5 DEF Kept, EntriesKept
<1> QED
  BY <1>8, <1>3, <1>5 DEF CountLeft, NoEntry

\* Another record of skills, in a state that has one or had none.
LEMMA SkillsReplaced ==
    ASSUME NEW st, IsState(st), NEW f \in [Skills -> Entries], NEW h \in BOOLEAN,
           \A s \in Skills : f[s] # NoEntry => f[s].present,
           NEW new,
           new = [skill |-> st.skill, top |-> st.top, has |-> h, skills |-> f, aggregation |-> st.aggregation]
    PROVE  /\ IsState(new) /\ new.skills = f /\ new.top = st.top /\ new.has = h
  BY DEF IsState

\* The merge of a payload that a first computation has spoiled.
LEMMA SpoiledMergeKeeps ==
    ASSUME NEW st, IsState(st), NEW p \in PayloadRows, NEW spoiled \in SUBSET Skills,
           \A s \in spoiled : s \in Evidenced(p)
    PROVE  LET new == MergeSpoiled(st, p, spoiled) IN
           Kept(st, new, p) /\ CountLeft(st, new, p, spoiled)
<1> DEFINE bare == Bare(p, spoiled)  plain == Merge(st, bare)  new == MergeSpoiled(st, p, spoiled)
          e(s) == IF s \in spoiled THEN CountOfOne(plain.skills[s]) ELSE plain.skills[s]
<1>1. /\ bare \in PayloadRows /\ bare.score = p.score
      /\ \A s \in Skills : /\ s \in spoiled => bare.skills[s].kind # "null"
                           /\ s \notin spoiled => bare.skills[s] = p.skills[s]
  BY DEF Bare, PayloadRows, Fields
<1> HIDE DEF bare
<1>2. Kept(st, plain, bare) /\ CountLeft(st, plain, bare, {})
  BY <1>1, MergeKeeps
<1>3. new = [plain EXCEPT !.skills = [s \in Skills |-> e(s)]]
  BY DEF MergeSpoiled, bare
<1> HIDE DEF plain, new
<1>4. ASSUME NEW s \in Skills
      PROVE  /\ e(s) \in Entries /\ (e(s) # NoEntry => e(s).present)
             /\ e(s).measure = plain.skills[s].measure /\ (plain.skills[s].present => e(s).present)
             /\ e(s).present => plain.skills[s].present \/ s \in spoiled
             /\ s \notin spoiled => e(s).evidence = plain.skills[s].evidence
  BY <1>2 DEF Kept, IsState, CountOfOne, Entries
<1> HIDE DEF e
<1>5. IsState(new) /\ new.skills = [s \in Skills |-> e(s)] /\ new.top = plain.top /\ new.has = plain.has
  <2> DEFINE f == [s \in Skills |-> e(s)]
  <2>1. f \in [Skills -> Entries] /\ \A s \in Skills : f[s] # NoEntry => f[s].present
    BY <1>4
  <2>2. new = [plain EXCEPT !.skills = f]
    BY <1>3
  <2> HIDE DEF f
  <2>3. IsState(new) /\ new.skills = f /\ new.top = plain.top /\ new.has = plain.has
    <3>1. IsState(plain)
      BY <1>2 DEF Kept
    <3>2. /\ plain.has \in BOOLEAN
          /\ new = [skill |-> plain.skill, top |-> plain.top, has |-> plain.has, skills |-> f,
                    aggregation |-> plain.aggregation]
      BY <2>2, <3>1 DEF IsState
    <3> QED
      BY <2>1, <3>1, <3>2, SkillsReplaced
  <2> QED
    BY <2>3 DEF f
<1>6. CountLeft(st, new, p, spoiled)
  BY <1>1, <1>2, <1>4, <1>5 DEF CountLeft
<1>7. EntriesKept(st, new, p)
  <2> SUFFICES ASSUME NEW s \in Skills
               PROVE  LET old == st.skills[s] IN
                      \/ e(s).measure.levels = old.measure.levels /\ e(s).measure.direction = old.measure.direction
                           /\ (old.present => e(s).present)
                      \/ e(s).measure = NoMeasure /\ p.skills[s].kind = "null"
    BY <1>5 DEF EntriesKept
  <2>1. EntriesKept(st, plain, bare)
    BY <1>2 DEF Kept
  <2>2. bare.skills[s].kind = "null" => p.skills[s].kind = "null"
    BY <1>1
  <2> QED
    BY <2>1, <2>2, <1>4 DEF EntriesKept
<1>9. SkillsHeld(st) => \A s \in Skills : new.skills[s].present => new.has \/ s \in Evidenced(p)
  <2>1. Evidenced(bare) = Evidenced(p)
    BY DEF Evidenced, Bare, bare
  <2>2. SkillsHeld(st) => \A s \in Skills : plain.skills[s].present => plain.has \/ s \in Evidenced(bare)
    BY <1>2 DEF Kept
  <2> QED
    BY <2>1, <2>2, <1>4, <1>5
<1>8. Kept(st, new, p)
  BY <1>1, <1>2, <1>5, <1>7, <1>9 DEF Kept
<1> QED
  BY <1>6, <1>8 DEF new

\* The count of the signal.
LEMMA CountKeeps ==
    ASSUME NEW st, NEW p, NEW spoiled, NEW mid, Kept(st, mid, p), CountLeft(st, mid, p, spoiled)
    PROVE  LET new == CountEvidence(mid, p) IN
           Kept(st, new, p) /\ CountGiven(st, new, p, spoiled) /\ (SkillsHeld(st) => SkillsHeld(new))
<1> DEFINE new == CountEvidence(mid, p)
          e(s) == IF s \in Evidenced(p) THEN Counted(mid.skills[s]) ELSE mid.skills[s]
          f == [s \in Skills |-> e(s)]
          h == mid.has \/ Evidenced(p) # {}
<1>1. new = [mid EXCEPT !.has = h, !.skills = f]
  BY DEF CountEvidence
<1> HIDE DEF new
<1>2. ASSUME NEW s \in Skills
      PROVE  /\ e(s) \in Entries /\ (e(s) # NoEntry => e(s).present)
             /\ e(s).measure = mid.skills[s].measure /\ (mid.skills[s].present => e(s).present)
             /\ e(s).present => mid.skills[s].present \/ s \in Evidenced(p)
             /\ e(s).evidence = mid.skills[s].evidence + (IF s \in Evidenced(p) THEN 1 ELSE 0)
  <2>1. mid.skills[s] \in Entries /\ (mid.skills[s] # NoEntry => mid.skills[s].present)
    BY DEF Kept, IsState
  <2>2. CASE s \in Evidenced(p)
    <3> DEFINE c == Counted(mid.skills[s])
    <3>1. /\ c \in Entries /\ c.measure = mid.skills[s].measure /\ c.present
          /\ c.evidence = mid.skills[s].evidence + 1
      <4> DEFINE r == mid.skills[s]
      <4>1. r = [measure |-> r.measure, evidence |-> r.evidence, present |-> r.present]
            /\ r.measure \in Measures /\ r.evidence \in Nat
        BY <2>1 DEF Entries
      <4>2. c = [r EXCEPT !.present = TRUE, !.evidence = r.evidence + 1]
        BY DEF Counted
      <4> HIDE DEF r, c
      <4>3. c = [measure |-> r.measure, evidence |-> r.evidence + 1, present |-> TRUE]
        BY <4>1, <4>2
      <4> QED
        BY <4>1, <4>3 DEF Entries, r
    <3>2. e(s) = c
      BY <2>2
    <3> HIDE DEF c, e
    <3> QED
      BY <3>1, <3>2, <2>2
  <2>3. CASE s \notin Evidenced(p)
    <3>1. e(s) = mid.skills[s]
      BY <2>3
    <3>2. mid.skills[s].evidence \in Nat
      BY <2>1 DEF Entries
    <3> HIDE DEF e
    <3> QED
      BY <3>1, <3>2, <2>1, <2>3
  <2> QED
    BY <2>2, <2>3
<1> HIDE DEF e
<1>3. f \in [Skills -> Entries] /\ \A s \in Skills : f[s] = e(s) /\ (f[s] # NoEntry => f[s].present)
  BY <1>2
<1>4. h \in BOOLEAN /\ (mid.has => h) /\ \A s \in Evidenced(p) : h
  OBVIOUS
<1> HIDE DEF f, h
<1>5. IsState(new) /\ new.skills = f /\ new.top = mid.top /\ (new.has <=> h)
  <2>0. PICK g \in BOOLEAN : h = g
    BY <1>4
  <2>3. IsState(mid)
    BY DEF Kept
  <2>1. new = [skill |-> mid.skill, top |-> mid.top, has |-> g, skills |-> f, aggregation |-> mid.aggregation]
    BY <1>1, <2>0, <2>3 DEF IsState
  <2>2. f \in [Skills -> Entries] /\ \A s \in Skills : f[s] # NoEntry => f[s].present
    BY <1>3
  <2> QED
    BY <2>0, <2>1, <2>2, <2>3, SkillsReplaced
<1>6. CountGiven(st, new, p, spoiled)
  BY <1>2, <1>3, <1>5 DEF CountGiven, CountLeft
<1>7. EntriesKept(st, new, p)
  BY <1>2, <1>3, <1>5 DEF EntriesKept, Kept
<1>9. SkillsHeld(st) => SkillsHeld(new)
  <2>1. SkillsHeld(st) => \A s \in Skills : mid.skills[s].present => mid.has \/ s \in Evidenced(p)
    BY DEF Kept
  <2> QED
    BY <2>1, <1>2, <1>3, <1>4, <1>5 DEF SkillsHeld
<1>8. Kept(st, new, p)
  <2>1. new.top.levels = st.top.levels /\ new.top.direction = st.top.direction
        /\ (p.score.kind = "absent" => new.top.score = st.top.score)
    BY <1>5 DEF Kept
  <2> QED
    BY <2>1, <1>5, <1>7, <1>9 DEF Kept, SkillsHeld
<1> QED
  BY <1>6, <1>8, <1>9 DEF new

\* The score of the dominant skill.
LEMMA PromoteKeeps ==
    ASSUME NEW st, IsState(st)
    PROVE  LET new == Promote(st) IN
           /\ IsState(new) /\ new.skills = st.skills /\ new.skill = st.skill
           /\ new.top.levels = st.top.levels /\ new.top.direction = st.top.direction /\ new.has = st.has
           /\ IF OwnScore(st) # None THEN new.top.score = OwnScore(st) ELSE new.top = st.top
<1> DEFINE own == OwnScore(st)
<1>1. CASE own = None
  BY <1>1 DEF Promote, OwnScore
<1>2. CASE own # None
  <2>1. Promote(st) = [st EXCEPT !.top.score = own]
    BY <1>2 DEF Promote, OwnScore
  <2>2. own \in Scores \cup {None}
    BY DEF OwnScore, IsState, Entries, Measures
  <2> HIDE DEF own
  <2>3. Promote(st) = [skill |-> st.skill, top |-> [st.top EXCEPT !.score = own], has |-> st.has,
                       skills |-> st.skills, aggregation |-> st.aggregation]
    BY <2>1 DEF IsState
  <2>4. [st.top EXCEPT !.score = own] \in Measures /\ [st.top EXCEPT !.score = own].score = own
        /\ [st.top EXCEPT !.score = own].levels = st.top.levels
        /\ [st.top EXCEPT !.score = own].direction = st.top.direction
    BY <2>2 DEF IsState, Measures
  <2> DEFINE top == [st.top EXCEPT !.score = own]  new == Promote(st)
  <2>5. new.skill = st.skill /\ new.top = top /\ new.has = st.has /\ new.skills = st.skills
        /\ new.aggregation = st.aggregation
    BY <2>3
  <2>6. new = [skill |-> new.skill, top |-> new.top, has |-> new.has, skills |-> new.skills,
               aggregation |-> new.aggregation]
    BY <2>3, <2>5
  <2> HIDE DEF top, new
  <2>7. top \in Measures /\ top.score = own /\ top.levels = st.top.levels /\ top.direction = st.top.direction
    BY <2>4 DEF top
  <2>8. IsState(new)
    BY <2>5, <2>6, <2>7 DEF IsState
  <2> QED
    BY <2>5, <2>7, <2>8, <1>2 DEF own, new
<1> QED
  BY <1>1, <1>2

\* The aggregation by subject.
LEMMA AggregateKeeps ==
    ASSUME NEW st, IsState(st), NEW version
    PROVE  LET new == Aggregate(st, version) IN
           /\ IsState(new) /\ new.skills = st.skills /\ new.skill = st.skill /\ new.top = st.top
           /\ new.has = st.has /\ AggregatedAs(new, version) /\ BrokenDown(new)
<1> DEFINE score == [s \in Skills |-> st.skills[s].measure.score]
          scored == {s \in Skills : score[s] # None}
          named == {SubjectOf(s) : s \in scored}
          of(u) == {s \in scored : SubjectOf(s) = u}
          subjects == [u \in named |-> [mean |-> MeanOf(score, of(u)), skills |-> of(u),
                        strongest |-> Strongest(score, of(u)), weakest |-> Weakest(score, of(u))]]
          skills == [s \in scored |-> [direction |-> st.skills[s].measure.direction,
                                       evidence |-> st.skills[s].evidence]]
          overall == MeanOf([u \in named |-> subjects[u].mean], named)
          agg == [version |-> version, subjects |-> subjects, overall |-> overall, skills |-> skills]
          a == IF scored = {} THEN NoAggregation ELSE agg
          new == Aggregate(st, version)
<1>1. new = [st EXCEPT !.aggregation = a]
  BY DEF Aggregate
<1>2. \A s \in Skills : score[s] = st.skills[s].measure.score
  OBVIOUS
<1>3. \A s \in scored : {u \in DOMAIN subjects : s \in subjects[u].skills} = {SubjectOf(s)}
  OBVIOUS
<1>4. DOMAIN skills = scored /\ \A s \in scored : /\ skills[s].direction = st.skills[s].measure.direction
                                                  /\ skills[s].evidence = st.skills[s].evidence
  OBVIOUS
<1>5. scored \subseteq Skills /\ \A s \in Skills : s \in scored <=> score[s] # None
  OBVIOUS
<1>9. DOMAIN subjects = named /\ (scored # {} => named # {}) /\ IsFiniteSet(named)
  <2>1. IsFiniteSet(scored)
    BY <1>5, LearnerStateAssumption, FS_Subset
  <2> DEFINE g == [s \in scored |-> SubjectOf(s)]
  <2>2. g \in Surjection(scored, named)
    BY DEF Surjection
  <2> HIDE DEF g, scored
  <2>3. IsFiniteSet(named)
    BY <2>1, <2>2, FS_Surjection
  <2>4. scored # {} => named # {}
    OBVIOUS
  <2> QED
    BY <2>3, <2>4
<1>10. \A u \in named : LET x == subjects[u] IN
         /\ x.skills # {} /\ x.skills \subseteq scored /\ x.mean = MeanOf(score, x.skills)
         /\ x.strongest = Strongest(score, x.skills) /\ x.weakest = Weakest(score, x.skills)
  <2> SUFFICES ASSUME NEW u \in named
               PROVE  LET x == subjects[u] IN
                      /\ x.skills # {} /\ x.skills \subseteq scored /\ x.mean = MeanOf(score, x.skills)
                      /\ x.strongest = Strongest(score, x.skills) /\ x.weakest = Weakest(score, x.skills)
    OBVIOUS
  <2>1. of(u) # {} /\ of(u) \subseteq scored
    OBVIOUS
  <2>2. subjects[u] = [mean |-> MeanOf(score, of(u)), skills |-> of(u),
                       strongest |-> Strongest(score, of(u)), weakest |-> Weakest(score, of(u))]
    OBVIOUS
  <2> HIDE DEF subjects, of, score, scored
  <2> QED
    BY <2>1, <2>2
<1>12. overall = MeanOf([u \in named |-> subjects[u].mean], named)
  OBVIOUS
<1> HIDE DEF new, subjects, skills, overall, scored, score
<1>6. /\ agg.version = version /\ agg.subjects = subjects /\ agg.skills = skills /\ agg.overall = overall
  OBVIOUS
<1> HIDE DEF agg, named
<1>7. IsState(new) /\ new.skills = st.skills /\ new.skill = st.skill /\ new.top = st.top
      /\ new.has = st.has /\ new.aggregation = a
  <2> HIDE DEF a
  <2>1. new = [skill |-> st.skill, top |-> st.top, has |-> st.has, skills |-> st.skills, aggregation |-> a]
    BY <1>1 DEF IsState
  <2> QED
    BY <2>1 DEF IsState
<1>8. AggregatedAs(new, version)
  <2> SUFFICES ASSUME new.aggregation # NoAggregation PROVE AggregatedAs(new, version)
    BY DEF AggregatedAs
  <2>1. new.aggregation = agg
    BY <1>7
  <2>2. \A s \in DOMAIN agg.skills :
          /\ s \in Skills /\ new.skills[s].measure.score # None
          /\ agg.skills[s].direction = new.skills[s].measure.direction
    BY <1>2, <1>4, <1>5, <1>6, <1>7
  <2>3. \A s \in Skills : new.skills[s].measure.score # None =>
          {u \in DOMAIN agg.subjects : s \in agg.subjects[u].skills} = {SubjectOf(s)}
    BY <1>2, <1>3, <1>5, <1>6, <1>7
  <2> QED
    BY <2>1, <2>2, <2>3, <1>6 DEF AggregatedAs
<1>11. BrokenDown(new)
  <2>2. ScoredIn(new) = scored /\ ScoreOf(new) = score
    <3>1. ScoreOf(new) = score
      BY <1>7 DEF ScoreOf, score
    <3>2. ScoredIn(new) = scored
      BY <1>2, <1>5, <1>7 DEF ScoredIn
    <3> QED
      BY <3>1, <3>2
  <2>6. new.aggregation = NoAggregation => ScoredIn(new) = {}
    <3>1. NoAggregation.skills = <<>> /\ DOMAIN NoAggregation.skills = {}
      BY DEF NoAggregation
    <3>2. scored # {} => new.aggregation = agg /\ DOMAIN agg.skills = scored
      BY <1>4, <1>6, <1>7
    <3> QED
      BY <3>1, <3>2, <2>2
  <2> SUFFICES ASSUME new.aggregation # NoAggregation PROVE BrokenDown(new)
    BY <2>6 DEF BrokenDown
  <2>1. new.aggregation = agg /\ scored # {}
    BY <1>7
  <2>3. \A s \in scored : agg.skills[s].evidence = new.skills[s].evidence
    BY <1>4, <1>6, <1>7
  <2>4. DOMAIN agg.subjects = named
    BY <1>6, <1>9
  <2>5. agg.overall = MeanOf([u \in DOMAIN agg.subjects |-> agg.subjects[u].mean], DOMAIN agg.subjects)
    BY <1>6, <1>9, <1>12
  <2> QED
    BY <2>1, <2>2, <2>3, <2>4, <2>5, <1>4, <1>6, <1>9, <1>10 DEF BrokenDown
<1> QED
  BY <1>7, <1>8, <1>11 DEF new

\* The whole computation.
LEMMA Computing ==
    ASSUME NEW st, NEW p, NEW spoiled, NEW mid, NEW version,
           Kept(st, mid, p), CountGiven(st, mid, p, spoiled), SkillsHeld(st) => SkillsHeld(mid)
    PROVE  Computed(st, Aggregate(Promote(mid), version), p, spoiled, version)
<1> DEFINE prom == Promote(mid)  new == Aggregate(prom, version)
<1>1. /\ IsState(prom) /\ prom.skills = mid.skills /\ prom.skill = mid.skill
      /\ prom.top.levels = mid.top.levels /\ prom.top.direction = mid.top.direction /\ prom.has = mid.has
      /\ IF OwnScore(mid) # None THEN prom.top.score = OwnScore(mid) ELSE prom.top = mid.top
  BY PromoteKeeps DEF Kept
<1> HIDE DEF prom
<1>2. /\ IsState(new) /\ new.skills = prom.skills /\ new.skill = prom.skill /\ new.top = prom.top
      /\ new.has = prom.has /\ AggregatedAs(new, version) /\ BrokenDown(new)
  BY <1>1, AggregateKeeps
<1> HIDE DEF new
<1>3. OwnScore(new) = OwnScore(mid)
  BY <1>1, <1>2 DEF OwnScore
<1>4. EntriesKept(st, new, p) /\ CountGiven(st, new, p, spoiled) /\ (SkillsHeld(st) => SkillsHeld(new))
  BY <1>1, <1>2 DEF Kept, EntriesKept, CountGiven, SkillsHeld
<1>5. Computed(st, new, p, spoiled, version)
  BY <1>1, <1>2, <1>3, <1>4 DEF Kept, Computed
<1> QED
  BY <1>5 DEF new, prom


--------------------------------------------------------------------------------
\* The companions of a score reach one level further, and the first is there with a baseline.
LEMMA CompanionsReach ==
    ASSUME NEW before \in Measures, NEW after \in Measures, NEW n \in Nat,
           before.levels \subseteq 1..n, after.levels \subseteq before.levels
    PROVE  LET new == Companions(before, after)
               both == before.score # None /\ after.score # None
           IN /\ new \in Measures /\ new.score = after.score /\ new.levels \subseteq 1..(n + 1)
              /\ before.score = None => new.direction = after.direction
              /\ before.score # None =>
                   new.direction = IF both THEN DirectionOf(before.score, after.score) ELSE "none"
              /\ before.score # None => (1 \in new.levels <=> both)
              /\ 1 \notin before.levels /\ before.score = None => 1 \notin new.levels
              /\ after.levels = before.levels /\ before.levels # {} =>
                   Max(new.levels) = Max(before.levels) + 1
              /\ after.levels = before.levels =>
                   \A i \in new.levels : i > 1 /\ i - 1 \notin new.levels =>
                     \/ i \in before.levels /\ i - 1 \notin before.levels
                     \/ new.score = None /\ before.levels # {}
<1> DEFINE new == Companions(before, after)
          both == before.score # None /\ after.score # None
          higher == after.levels \cup {i + 1 : i \in before.levels \cap after.levels}
          d == DirectionOf(before.score, after.score)
          L == IF both THEN higher \cup {1} ELSE IF before.score # None THEN higher \ {1} ELSE higher
          D == IF both THEN d ELSE IF before.score # None THEN "none" ELSE after.direction
<1>1. higher \subseteq 1..(n + 1) /\ (1 \notin before.levels => 1 \notin higher)
  OBVIOUS
<1>2. d \in Directions
  BY DEF DirectionOf, Directions
<1>3. new = [score |-> after.score, direction |-> D, levels |-> L]
  <2>1. after = [score |-> after.score, direction |-> after.direction, levels |-> after.levels]
    BY DEF Measures
  <2>2. CASE both
    <3>1. new = [after EXCEPT !.direction = d, !.levels = higher \cup {1}]
      BY <2>2 DEF Companions
    <3> HIDE DEF new, d, higher
    <3>2. new = [score |-> after.score, direction |-> d, levels |-> higher \cup {1}]
      BY <2>1, <3>1
    <3> QED
      BY <3>2, <2>2
  <2>3. CASE before.score # None /\ after.score = None
    <3>1. new = [after EXCEPT !.direction = "none", !.levels = higher \ {1}]
      BY <2>3 DEF Companions
    <3> HIDE DEF new, d, higher
    <3>2. new = [score |-> after.score, direction |-> "none", levels |-> higher \ {1}]
      BY <2>1, <3>1
    <3> QED
      BY <3>2, <2>3
  <2>4. CASE before.score = None
    <3>1. new = [after EXCEPT !.levels = higher]
      BY <2>4 DEF Companions
    <3> HIDE DEF new, d, higher
    <3>2. new = [score |-> after.score, direction |-> after.direction, levels |-> higher]
      BY <2>1, <3>1
    <3> QED
      BY <3>2, <2>4
  <2> QED
    BY <2>2, <2>3, <2>4
<1>4. ASSUME after.levels = before.levels, before.levels # {}
      PROVE  Max(L) = Max(before.levels) + 1
  <2>1. before.levels \subseteq 0..n /\ before.levels \subseteq Nat
    OBVIOUS
  <2>2. PICK m \in before.levels : \A i \in before.levels : i <= m
    BY <2>1, <1>4, Largest
  <2>3. Max(before.levels) = m
    BY <2>1, <2>2, MaxIs
  <2>4. m + 1 \in L /\ L \subseteq Nat
    <3>1. m \in 1..n
      BY <2>2
    <3>2. m + 1 \in higher /\ m + 1 # 1 /\ higher \subseteq Nat
      BY <3>1, <1>4, <1>1
    <3> HIDE DEF higher, both
    <3> QED
      BY <3>2
  <2>5. \A i \in L : i <= m + 1
    <3>1. \A i \in higher : i <= m + 1
      BY <2>2, <2>1, <1>4
    <3>2. 1 <= m + 1
      BY <2>1, <2>2
    <3> HIDE DEF higher, both
    <3> QED
      BY <3>1, <3>2
  <2> HIDE DEF L
  <2>6. Max(L) = m + 1
    BY <2>4, <2>5, MaxIs
  <2> QED
    BY <2>3, <2>6
<1>5. L \in SUBSET Nat /\ L \subseteq 1..(n + 1)
  <2> HIDE DEF higher
  <2> QED
    BY <1>1
<1>6. D \in Directions
  BY <1>2 DEF Measures, Directions
<1>12. ASSUME after.levels = before.levels, NEW i \in L, i > 1, i - 1 \notin L
       PROVE  \/ i \in before.levels /\ i - 1 \notin before.levels
              \/ after.score = None /\ before.levels # {}
  <2>1. before.levels \subseteq higher /\ \A j \in before.levels : j \in Nat
    BY <1>12
  <2>2. i \in before.levels \/ i - 1 \in before.levels
    <3>1. i \in higher
      BY <1>12
    <3>2. \A j \in Int : j + 1 = i => i - 1 = j
      OBVIOUS
    <3> QED
      BY <3>1, <3>2, <2>1, <1>12
  <2>3. i - 1 \in before.levels => ~both /\ before.score # None
    BY <2>1, <1>12
  <2> QED
    BY <2>2, <2>3
<1> HIDE DEF higher, d, new
<1>7. new \in Measures
  <2> HIDE DEF L, D, both
  <2> QED
    BY <1>3, <1>5, <1>6 DEF Measures
<1>8. before.score # None => (1 \in L <=> both)
  OBVIOUS
<1>9. 1 \notin before.levels /\ before.score = None => 1 \notin L
  BY <1>1
<1>10. /\ before.score = None => D = after.direction
       /\ before.score # None => D = IF both THEN d ELSE "none"
  OBVIOUS
<1>11. new.score = after.score /\ new.direction = D /\ new.levels = L
  BY <1>3
<1> HIDE DEF L, D, both
<1> QED
  BY <1>4, <1>5, <1>7, <1>8, <1>9, <1>10, <1>11, <1>12 DEF new, both, d


\* What is saved differs from what was computed by its companions and directions only.
LEMMA DeltasKeep ==
    ASSUME NEW st, IsState(st), NEW n \in Nat, LevelsUpTo(st, n),
           NEW p, NEW spoiled, NEW version, NEW new, Computed(st, new, p, spoiled, version)
    PROVE  LET last == Deltas(st, new) IN
           /\ IsState(last) /\ LevelsUpTo(last, n + 1)
           /\ TopFollows(st.top, last.top) /\ BrokenDown(last) /\ (SkillsHeld(st) => SkillsHeld(last))
           /\ last.skill = new.skill /\ last.aggregation = new.aggregation /\ last.top.score = new.top.score
           /\ \A s \in Skills :
                LET before == st.skills[s].measure  after == last.skills[s].measure
                    both == before.score # None /\ after.score # None
                IN /\ after.score = new.skills[s].measure.score
                   /\ last.skills[s].evidence = new.skills[s].evidence
                   /\ (1 \in after.levels <=> both)
                   /\ after.direction = IF both THEN DirectionOf(before.score, after.score) ELSE "none"
                   /\ before.levels # {} /\ p.skills[s].kind # "null" =>
                        Max(after.levels) = Max(before.levels) + 1
<1> DEFINE last == Deltas(st, new)
          e(s) == EntryDeltas(st.skills[s], new.skills[s])
          f == [s \in Skills |-> e(s)]
          top == Companions(st.top, new.top)
<1>1. IsState(new)
  BY DEF Computed
<1>2. last = [new EXCEPT !.top = top, !.skills = f]
  BY DEF Deltas
<1> HIDE DEF last, f, top
<1>3. last = [skill |-> new.skill, top |-> top, has |-> new.has, skills |-> f, aggregation |-> new.aggregation]
  BY <1>1, <1>2 DEF IsState
<1>4. top \in Measures /\ top.score = new.top.score /\ top.levels \subseteq 1..(n + 1)
      /\ TopFollows(st.top, top)
  <2>1. /\ st.top \in Measures /\ new.top \in Measures /\ st.top.levels \subseteq 1..n
        /\ new.top.levels = st.top.levels /\ new.top.direction = st.top.direction
        /\ st.top.score = None => 1 \notin st.top.levels /\ st.top.direction = "none"
    BY <1>1 DEF Computed, IsState, LevelsUpTo
  <2> DEFINE before == st.top  after == new.top
  <2>2. before \in Measures /\ after \in Measures /\ before.levels \subseteq 1..n /\ after.levels = before.levels
    BY <2>1
  <2>3. before.score = None => 1 \notin before.levels /\ after.direction = "none"
    BY <2>1
  <2>4. top = Companions(before, after)
    BY DEF top
  <2> HIDE DEF before, after
  <2>5. LET both == before.score # None /\ after.score # None
        IN /\ top \in Measures /\ top.score = after.score /\ top.levels \subseteq 1..(n + 1)
           /\ before.score = None => top.direction = after.direction
           /\ before.score # None =>
                top.direction = IF both THEN DirectionOf(before.score, after.score) ELSE "none"
           /\ before.score # None => (1 \in top.levels <=> both)
           /\ 1 \notin before.levels /\ before.score = None => 1 \notin top.levels
           /\ \A i \in top.levels : i > 1 /\ i - 1 \notin top.levels =>
                \/ i \in before.levels /\ i - 1 \notin before.levels
                \/ top.score = None /\ before.levels # {}
    BY <2>2, <2>4, CompanionsReach
  <2>6. TopFollows(before, top)
    BY <2>3, <2>5 DEF TopFollows
  <2> QED
    BY <2>5, <2>6 DEF before, after
<1>5. ASSUME NEW s \in Skills
      PROVE  LET before == st.skills[s].measure  after == e(s).measure
                 both == before.score # None /\ after.score # None
             IN /\ e(s) \in Entries /\ (e(s) # NoEntry => e(s).present)
                /\ after.score = new.skills[s].measure.score /\ e(s).evidence = new.skills[s].evidence
                /\ after.levels \subseteq 1..(n + 1)
                /\ (1 \in after.levels <=> both)
                /\ after.direction = IF both THEN DirectionOf(before.score, after.score) ELSE "none"
                /\ before.levels # {} /\ p.skills[s].kind # "null" =>
                     Max(after.levels) = Max(before.levels) + 1
  <2> DEFINE old == st.skills[s]  r == new.skills[s]  before == old.measure  c == Companions(before, r.measure)
  <2>1. /\ old \in Entries /\ r \in Entries /\ before \in Measures /\ r.measure \in Measures
        /\ (old # NoEntry => old.present) /\ (r # NoEntry => r.present)
    BY <1>1 DEF IsState, Entries
  <2>2. /\ before.levels \subseteq 1..n
        /\ before.score = None => 1 \notin before.levels /\ before.direction = "none"
    BY DEF LevelsUpTo
  <2>3. \/ r.measure.levels = before.levels /\ r.measure.direction = before.direction
             /\ (old.present => r.present)
        \/ r.measure = NoMeasure /\ p.skills[s].kind = "null"
    BY DEF Computed, EntriesKept
  <2>4. r.measure = NoMeasure => r.measure.levels = {} /\ r.measure.direction = "none" /\ r.measure.score = None
    BY DEF NoMeasure
  <2>5. old = NoEntry => before.levels = {} /\ before.direction = "none" /\ before.score = None
    BY DEF NoEntry, NoMeasure
  <2>6. r = NoEntry => r.measure = NoMeasure
    BY DEF NoEntry
  <2>7. CASE old.present /\ r.present
    <3>1. e(s) = [r EXCEPT !.measure = c]
      BY <2>7 DEF EntryDeltas
    <3> HIDE DEF r, c, old
    <3>2. r = [measure |-> r.measure, evidence |-> r.evidence, present |-> r.present]
          /\ r.evidence \in Nat /\ r.present \in BOOLEAN
      BY <2>1 DEF Entries
    <3>3. e(s) = [measure |-> c, evidence |-> r.evidence, present |-> r.present]
      BY <3>1, <3>2
    <3>4. r.measure.levels \subseteq before.levels
      BY <2>3, <2>4
    <3>5. LET both == before.score # None /\ r.measure.score # None
          IN /\ c \in Measures /\ c.score = r.measure.score /\ c.levels \subseteq 1..(n + 1)
             /\ before.score = None => c.direction = r.measure.direction
             /\ before.score # None =>
                  c.direction = IF both THEN DirectionOf(before.score, r.measure.score) ELSE "none"
             /\ before.score # None => (1 \in c.levels <=> both)
             /\ 1 \notin before.levels /\ before.score = None => 1 \notin c.levels
             /\ r.measure.levels = before.levels /\ before.levels # {} =>
                  Max(c.levels) = Max(before.levels) + 1
      BY <2>1, <2>2, <3>4, CompanionsReach DEF c
    <3>6. e(s) \in Entries /\ e(s).present /\ e(s).measure = c /\ e(s).evidence = r.evidence
      BY <2>7, <3>2, <3>3, <3>5 DEF Entries
    <3> HIDE DEF e, before
    <3>7. r.measure.direction = "none" \/ before.score # None
      BY <2>2, <2>3, <2>4
    <3> QED
      BY <2>2, <2>3, <3>5, <3>6, <3>7 DEF r, before, old
  <2>8. CASE ~(old.present /\ r.present)
    <3>1. e(s) = r
      BY <2>8 DEF EntryDeltas
    <3>2. old = NoEntry \/ r = NoEntry
      BY <2>1, <2>8
    <3> HIDE DEF e
    <3>3. before.score = None \/ r.measure.score = None
      BY <3>2, <2>4, <2>5, <2>6
    <3>4. r.measure.direction = "none" /\ 1 \notin r.measure.levels /\ r.measure.levels \subseteq 1..(n + 1)
      BY <2>2, <2>3, <2>4, <2>5, <2>6, <3>2
    <3>5. before.levels # {} => p.skills[s].kind = "null"
      <4>1. before.levels # {} => old.present /\ r = NoEntry /\ ~r.present
        BY <2>1, <2>5, <2>8, <3>2
      <4> QED
        BY <4>1, <2>3
    <3> QED
      BY <2>1, <3>1, <3>3, <3>4, <3>5
  <2> QED
    BY <2>7, <2>8
<1> HIDE DEF e
<1>6. \A s \in Skills : f[s] = e(s)
  BY DEF f
<1>7. IsState(last) /\ last.skills = f /\ last.top = top /\ last.skill = new.skill
      /\ last.aggregation = new.aggregation /\ last.has = new.has
  <2>1. f \in [Skills -> Entries] /\ \A s \in Skills : f[s] # NoEntry => f[s].present
    BY <1>5 DEF f
  <2>2. last.skill = new.skill /\ last.top = top /\ last.has = new.has /\ last.skills = f
        /\ last.aggregation = new.aggregation
    BY <1>3
  <2>3. last = [skill |-> last.skill, top |-> last.top, has |-> last.has, skills |-> last.skills,
                aggregation |-> last.aggregation]
    BY <1>3, <2>2
  <2> QED
    BY <2>1, <2>2, <2>3, <1>1, <1>4 DEF IsState
<1>8. LevelsUpTo(last, n + 1)
  <2>1. top.score = None => 1 \notin top.levels /\ top.direction = "none"
    BY <1>4 DEF TopFollows
  <2>2. ASSUME NEW s \in Skills
        PROVE  LET m == last.skills[s].measure IN
               m.levels \subseteq 1..(n + 1) /\ (m.score = None => 1 \notin m.levels /\ m.direction = "none")
    BY <1>5, <1>6, <1>7
  <2> QED
    BY <2>1, <2>2, <1>4, <1>7 DEF LevelsUpTo
<1>9. BrokenDown(last)
  <2>1. \A s \in Skills : /\ last.skills[s].measure.score = new.skills[s].measure.score
                          /\ last.skills[s].evidence = new.skills[s].evidence
    BY <1>5, <1>6, <1>7
  <2>2. ScoredIn(last) = ScoredIn(new) /\ ScoreOf(last) = ScoreOf(new)
    BY <2>1 DEF ScoredIn, ScoreOf
  <2>3. \A s \in ScoredIn(new) : last.skills[s].evidence = new.skills[s].evidence
    BY <2>1 DEF ScoredIn
  <2> QED
    BY <2>2, <2>3, <1>7 DEF BrokenDown, Computed
<1>10. SkillsHeld(st) => SkillsHeld(last)
  <2>1. SkillsHeld(st) => SkillsHeld(new)
    BY DEF Computed
  <2>2. \A s \in Skills : last.skills[s].present => new.skills[s].present
    <3> SUFFICES ASSUME NEW s \in Skills PROVE last.skills[s].present => new.skills[s].present
      OBVIOUS
    <3>1. last.skills[s] = EntryDeltas(st.skills[s], new.skills[s])
      BY <1>6, <1>7 DEF e
    <3> QED
      BY <3>1 DEF EntryDeltas
  <2> QED
    BY <2>1, <2>2, <1>7 DEF SkillsHeld
<1> QED
  BY <1>4, <1>5, <1>6, <1>7, <1>8, <1>9, <1>10 DEF last


--------------------------------------------------------------------------------
\* A sequence with one more element behind it.
LEMMA Appended ==
    ASSUME NEW q, IsSeq(q), NEW x
    PROVE  LET r == Append(q, x) IN
           /\ IsSeq(r) /\ Len(q) \in Nat /\ Len(r) = Len(q) + 1
           /\ DOMAIN q = 1..Len(q) /\ DOMAIN r = 1..(Len(q) + 1) /\ r[Len(q) + 1] = x
           /\ \A i \in 1..Len(q) : r[i] = q[i]
<1>1. PICK S : q \in Seq(S)
  BY DEF IsSeq
<1> DEFINE T == S \cup {x}
<1>2. q \in Seq(T)
  BY <1>1
<1>3. x \in T
  OBVIOUS
<1> HIDE DEF T
<1>4. Append(q, x) \in Seq(T)
  BY <1>2, <1>3
<1>5. IsSeq(Append(q, x))
  BY <1>4 DEF IsSeq
<1> QED
  BY <1>2, <1>3, <1>5

\* A version and its row are appended.
Extended(k, last, row) ==
  /\ versions' = Append(versions, last) /\ merged' = Append(merged, row) /\ UNCHANGED config
  /\ k = Len(versions)

\* One more version: the versions and rows before it stay.
LEMMA VersionsStay ==
    ASSUME VersionsTyped, \A v \in DOMAIN versions : VersionSound(v),
           NEW k \in Nat, NEW last, NEW row \in MergedRows, Extended(k, last, row)
    PROVE  /\ IsSeq(versions)' /\ merged' \in Seq(MergedRows) /\ Len(versions)' = k + 1 /\ Len(merged)' = k + 1
           /\ DOMAIN versions = 1..k /\ (DOMAIN versions)' = 1..(k + 1)
           /\ versions'[k + 1] = last /\ merged'[k + 1] = row
           /\ \A v \in 1..k : versions'[v] = versions[v] /\ merged'[v] = merged[v] /\ merged[v] \in MergedRows
           /\ \A b \in 0..k : (StateAt(b))' = StateAt(b)
<1>1. /\ IsSeq(versions)' /\ Len(versions') = k + 1
      /\ DOMAIN versions = 1..k /\ DOMAIN versions' = 1..(k + 1) /\ versions'[k + 1] = last
      /\ \A v \in 1..k : versions'[v] = versions[v]
  <2>1. IsSeq(versions) /\ versions' = Append(versions, last) /\ k = Len(versions)
    BY DEF VersionsTyped, Extended
  <2>2. IsSeq(versions')
    BY <2>1, Appended
  <2>3. IsSeq(versions)'
    BY <2>2 DEF IsSeq
  <2> QED
    BY <2>1, <2>3, Appended
<1>2. /\ merged' \in Seq(MergedRows) /\ Len(merged') = k + 1 /\ merged'[k + 1] = row
      /\ \A v \in 1..k : merged'[v] = merged[v] /\ merged[v] \in MergedRows
  BY DEF VersionsTyped, Extended
<1>3. \A b \in 0..k : (StateAt(b))' = StateAt(b)
  BY <1>1 DEF StateAt
<1> QED
  BY <1>1, <1>2, <1>3

\* What is said of a version does not change when one is appended.
LEMMA AccountsStay ==
    ASSUME VersionsTyped, \A v \in DOMAIN versions : VersionSound(v),
           NEW k \in Nat, NEW last, NEW row \in MergedRows, Extended(k, last, row)
    PROVE  \A v \in 1..k :
             /\ merged[v].of \subseteq 1..k /\ merged[v].base \in 0..k /\ merged[v].first \in 0..k
             /\ (Before(v))' = Before(v)
             /\ \A s \in Skills : /\ (Recounted(v, s) <=> Recounted(v, s)')
                                  /\ (Removed(s, v))' = Removed(s, v)
                                  /\ (Scoring(s, v))' = Scoring(s, v)
<1>1. /\ DOMAIN versions = 1..k
      /\ \A v \in 1..k : versions'[v] = versions[v] /\ merged'[v] = merged[v] /\ merged[v] \in MergedRows
      /\ \A b \in 0..k : (StateAt(b))' = StateAt(b)
  BY VersionsStay
<1>2. \A v \in 1..k : /\ merged[v].of \subseteq 1..k
                      /\ merged[v].base \in 0..k /\ merged[v].first \in 0..k
  BY <1>1 DEF VersionSound, MergedRows
<1>3. \A v \in 1..k, s \in Skills : ScoredBy(v, s) <=> ScoredBy(v, s)'
  BY <1>1 DEF ScoredBy
<1>4. \A v \in 1..k : /\ (Before(v))' = Before(v)
                      /\ \A s \in Skills : Recounted(v, s) <=> Recounted(v, s)'
  <2> SUFFICES ASSUME NEW v \in 1..k
               PROVE  (Before(v))' = Before(v) /\ \A s \in Skills : Recounted(v, s) <=> Recounted(v, s)'
    OBVIOUS
  <2>1. (Before(v))' = Before(v)
    BY <1>1, <1>2 DEF Before
  <2>2. (StateAt(merged[v].first))' = StateAt(merged[v].first) /\ merged'[v] = merged[v]
    BY <1>1, <1>2
  <2> QED
    BY <2>1, <2>2, <1>3 DEF Recounted
<1>5. ASSUME NEW v \in 1..k, NEW s \in Skills
      PROVE  (Removed(s, v))' = Removed(s, v) /\ (Scoring(s, v))' = Scoring(s, v)
  <2>1. {u \in merged'[v].of : merged'[u].payload.skills[s].kind = "null"}
          = {u \in merged[v].of : merged[u].payload.skills[s].kind = "null"}
    BY <1>1, <1>2
  <2>2. (Removed(s, v))' = Removed(s, v)
    BY <2>1 DEF Removed
  <2>3. (Scoring(s, v))' = Scoring(s, v)
    BY <2>2, <1>1, <1>2, <1>3 DEF Scoring
  <2> QED
    BY <2>2, <2>3
<1> QED
  BY <1>2, <1>3, <1>4, <1>5


\* The last removal is one of the versions that a version goes back to, or there is none.
LEMMA RemovedIsOf ==
    ASSUME NEW n \in Nat, NEW S \in SUBSET (0..n), S # {}
    PROVE  Max(S) \in S /\ \A i \in S : i <= Max(S)
<1>1. PICK m \in S : \A i \in S : i <= m
  BY Largest
<1>2. S \in SUBSET Nat
  OBVIOUS
<1>3. Max(S) = m
  BY <1>1, <1>2, MaxIs
<1> QED
  BY <1>1, <1>3

\* The row that Save writes beside the version.
NewRow(k, row, p, first, base) ==
  /\ row = [payload |-> p, first |-> first, base |-> base,
            of |-> {k + 1} \cup IF base = 0 THEN {} ELSE merged[base].of]
  /\ p \in Payloads /\ base \in 0..k /\ first \in 0..k /\ first <= base

\* What is said of the version that was appended.
LEMMA NewAccount ==
    ASSUME VersionsTyped, \A v \in DOMAIN versions : VersionSound(v),
           NEW k \in Nat, NEW last, NEW row \in MergedRows, Extended(k, last, row),
           NEW p, NEW first, NEW base, NewRow(k, row, p, first, base)
    PROVE  /\ (Before(k + 1))' = StateAt(base)
           /\ \A s \in Skills :
                /\ ScoredBy(k + 1, s)' <=> s \in Evidenced(p)
                /\ p.skills[s].kind = "null" => (Removed(s, k + 1))' = k + 1
                /\ (Scoring(s, k + 1))' =
                     (IF base = 0 \/ p.skills[s].kind = "null" THEN {} ELSE Scoring(s, base))
                       \cup (IF s \in Evidenced(p) THEN {k + 1} ELSE {})
<1> DEFINE v == k + 1  of == IF base = 0 THEN {} ELSE merged[base].of
<1>1. /\ DOMAIN versions = 1..k /\ merged'[v] = row
      /\ \A u \in 1..k : merged'[u] = merged[u] /\ merged[u] \in MergedRows
      /\ \A b \in 0..k : (StateAt(b))' = StateAt(b)
  BY VersionsStay
<1>2. /\ row.payload = p /\ row.base = base /\ row.of = {v} \cup of /\ base \in 0..k
  BY DEF NewRow
<1>3. of \subseteq 1..k
  <2>1. base # 0 => VersionSound(base) /\ base \in 1..k
    BY <1>1, <1>2
  <2> QED
    BY <2>1 DEF VersionSound
<1>4. (Before(v))' = StateAt(base)
  BY <1>1, <1>2 DEF Before
<1> HIDE DEF v
<1>5. v \notin 1..k /\ v \in Nat /\ \A u \in 1..k : u <= v /\ u # v
  BY DEF v
<1>6. ASSUME NEW s \in Skills
      PROVE  /\ ScoredBy(v, s)' <=> s \in Evidenced(p)
             /\ p.skills[s].kind = "null" => (Removed(s, v))' = v
             /\ (Scoring(s, v))' =
                  (IF base = 0 \/ p.skills[s].kind = "null" THEN {} ELSE Scoring(s, base))
                    \cup (IF s \in Evidenced(p) THEN {v} ELSE {})
  <2> DEFINE gone == {u \in of : merged[u].payload.skills[s].kind = "null"}
             R == (Removed(s, v))'
  <2>1. ScoredBy(v, s)' <=> s \in Evidenced(p)
    BY <1>1, <1>2 DEF ScoredBy, Evidenced
  <2>2. \A u \in of : ScoredBy(u, s)' <=> ScoredBy(u, s)
    BY <1>1, <1>3 DEF ScoredBy
  <2>3. {u \in merged'[v].of : merged'[u].payload.skills[s].kind = "null"}
          = gone \cup (IF p.skills[s].kind = "null" THEN {v} ELSE {})
    BY <1>1, <1>2, <1>3, <1>5
  <2>4. R = Max({0} \cup gone \cup (IF p.skills[s].kind = "null" THEN {v} ELSE {}))
    <3>1. {0} \cup {u \in merged'[v].of : merged'[u].payload.skills[s].kind = "null"}
            = {0} \cup gone \cup (IF p.skills[s].kind = "null" THEN {v} ELSE {})
      BY <2>3
    <3> HIDE DEF gone
    <3> QED
      BY <3>1 DEF Removed
  <2>5. gone \subseteq 1..k
    BY <1>3
  <2>6. (Scoring(s, v))' = {u \in {v} \cup of : u >= R /\ ScoredBy(u, s)'}
    BY <1>1, <1>2 DEF Scoring
  <2> HIDE DEF gone, R, of
  <2>7. CASE p.skills[s].kind = "null"
    <3> DEFINE S == {0} \cup gone \cup {v}
    <3>1. S \in SUBSET Nat /\ v \in S /\ \A i \in S : i <= v
      BY <2>5, <1>5
    <3> HIDE DEF S
    <3>2. Max(S) = v
      BY <3>1, MaxIs
    <3>3. R = v
      BY <2>4, <2>7, <3>2 DEF S
    <3>4. \A u \in of : ~(u >= v)
      BY <1>3, <1>5
    <3>5. (Scoring(s, v))' = IF s \in Evidenced(p) THEN {v} ELSE {}
      BY <2>1, <2>6, <3>3, <3>4, <1>5
    <3> QED
      BY <2>1, <2>7, <3>3, <3>5 DEF R
  <2>8. CASE p.skills[s].kind # "null"
    <3>1. {0} \cup gone \in SUBSET (0..k) /\ {0} \cup gone # {}
      BY <2>5
    <3>2. R = Max({0} \cup gone)
      <4>1. {0} \cup gone \cup (IF p.skills[s].kind = "null" THEN {v} ELSE {}) = {0} \cup gone
        BY <2>8
      <4> QED
        BY <2>4, <4>1
    <3>3. R \in 0..k
      BY <3>1, <3>2, RemovedIsOf
    <3>4. v >= R
      BY <3>3, <1>5 DEF v
    <3>5. (Scoring(s, v))' = {u \in of : u >= R /\ ScoredBy(u, s)} \cup (IF s \in Evidenced(p) THEN {v} ELSE {})
      BY <2>1, <2>2, <2>6, <3>4
    <3>6. base = 0 => of = {}
      BY DEF of
    <3>7. base # 0 => Scoring(s, base) = {u \in of : u >= R /\ ScoredBy(u, s)}
      <4> SUFFICES ASSUME base # 0 PROVE Scoring(s, base) = {u \in of : u >= R /\ ScoredBy(u, s)}
        OBVIOUS
      <4>1. of = merged[base].of
        BY DEF of
      <4>2. R = Removed(s, base)
        BY <3>2, <4>1 DEF Removed, gone
      <4> QED
        BY <4>1, <4>2 DEF Scoring
    <3> QED
      BY <2>1, <2>8, <3>5, <3>6, <3>7
  <2> QED
    BY <2>7, <2>8
<1> QED
  BY <1>4, <1>6 DEF v


\* The state that a version is computed on.
LEMMA BasesAreSound ==
    ASSUME VersionsTyped, \A v \in DOMAIN versions : VersionSound(v), NEW k \in Nat, DOMAIN versions = 1..k
    PROVE  \A b \in 0..k : IsState(StateAt(b)) /\ LevelsUpTo(StateAt(b), b)
<1>1. IsState(Empty) /\ LevelsUpTo(Empty, 0)
  <2>1. NoMeasure \in Measures /\ NoEntry \in Entries /\ NoMeasure.levels = {} /\ NoMeasure.direction = "none"
        /\ NoEntry.measure = NoMeasure
    BY DEF NoMeasure, NoEntry, Measures, Entries, Directions
  <2> QED
    BY <2>1 DEF Empty, IsState, LevelsUpTo
<1>2. ASSUME NEW b \in 1..k PROVE IsState(StateAt(b)) /\ LevelsUpTo(StateAt(b), b)
  BY <1>2 DEF VersionSound, StateAt
<1> QED
  BY <1>1, <1>2 DEF StateAt

\* A computation that is saved on a version leaves every version accounted for.
LEMMA SavingKeeps ==
    ASSUME StateInv, NEW p \in Payloads, NEW k \in Nat, k = Len(versions),
           NEW first \in 0..k, NEW base \in 0..k, first <= base, NEW spoiled, NEW new,
           \A s \in spoiled : /\ first < base /\ s \in Evidenced(p)
                              /\ ~StateAt(first).has \/ ~StateAt(first).skills[s].present,
           Computed(StateAt(base), new, p, spoiled, base + 1), Save(new, p, first, base)
    PROVE  StateInv'
<1> DEFINE v == k + 1  st == StateAt(base)  last == Deltas(st, new)
          row == [payload |-> p, first |-> first, base |-> base,
                  of |-> {k + 1} \cup IF base = 0 THEN {} ELSE merged[base].of]
<1>1. VersionsTyped /\ \A u \in DOMAIN versions : VersionSound(u)
  BY DEF StateInv
<1>2. DOMAIN versions = 1..k
  BY <1>1, Appended DEF VersionsTyped
<1>3. row \in MergedRows /\ NewRow(k, row, p, first, base) /\ row.of \subseteq 1..v
  <2>1. base # 0 => VersionSound(base) /\ base \in 1..k
    BY <1>1, <1>2
  <2>2. base # 0 => merged[base].of \subseteq 1..k
    BY <2>1 DEF VersionSound
  <2>3. row.of \subseteq 1..v /\ row.of \subseteq Nat
    BY <2>2
  <2> QED
    BY <2>3 DEF MergedRows, NewRow
<1>4. Extended(k, last, row)
  BY DEF Save, Extended
<1>5. /\ IsState(last) /\ LevelsUpTo(last, v)
      /\ TopFollows(st.top, last.top) /\ BrokenDown(last) /\ (SkillsHeld(st) => SkillsHeld(last))
      /\ last.skill = new.skill /\ last.aggregation = new.aggregation /\ last.top.score = new.top.score
      /\ \A s \in Skills :
           LET before == st.skills[s].measure  after == last.skills[s].measure
               both == before.score # None /\ after.score # None
           IN /\ after.score = new.skills[s].measure.score
              /\ last.skills[s].evidence = new.skills[s].evidence
              /\ (1 \in after.levels <=> both)
              /\ after.direction = IF both THEN DirectionOf(before.score, after.score) ELSE "none"
              /\ before.levels # {} /\ p.skills[s].kind # "null" =>
                   Max(after.levels) = Max(before.levels) + 1
  <2>1. IsState(st) /\ LevelsUpTo(st, base)
    BY <1>1, <1>2, BasesAreSound
  <2>3. Computed(st, new, p, spoiled, base + 1)
    OBVIOUS
  <2> HIDE DEF st
  <2>2. LevelsUpTo(last, base + 1) => LevelsUpTo(last, v)
    <3>1. 1..(base + 1) \subseteq 1..v
      OBVIOUS
    <3> HIDE DEF last, v
    <3> QED
      BY <3>1 DEF LevelsUpTo
  <2> QED
    BY <2>1, <2>2, <2>3, DeltasKeep
<1> HIDE DEF last, row, v
<1>6. /\ (IsSeq(versions))' /\ merged' \in Seq(MergedRows) /\ Len(versions') = v /\ Len(merged') = v
      /\ DOMAIN versions' = 1..v /\ versions'[v] = last /\ merged'[v] = row
      /\ \A u \in 1..k : versions'[u] = versions[u] /\ merged'[u] = merged[u] /\ merged[u] \in MergedRows
      /\ \A b \in 0..k : (StateAt(b))' = StateAt(b)
  BY <1>1, <1>3, <1>4, VersionsStay DEF v
<1>7. \A u \in 1..k :
        /\ merged[u].of \subseteq 1..k /\ merged[u].base \in 0..k /\ merged[u].first \in 0..k
        /\ (Before(u))' = Before(u)
        /\ \A s \in Skills : /\ (Recounted(u, s) <=> Recounted(u, s)')
                             /\ (Removed(s, u))' = Removed(s, u)
                             /\ (Scoring(s, u))' = Scoring(s, u)
  BY <1>1, <1>3, <1>4, AccountsStay
<1>8. /\ (Before(v))' = st
      /\ \A s \in Skills :
           /\ (ScoredBy(v, s)' <=> s \in Evidenced(p))
           /\ p.skills[s].kind = "null" => (Removed(s, v))' = v
           /\ (Scoring(s, v))' =
                (IF base = 0 \/ p.skills[s].kind = "null" THEN {} ELSE Scoring(s, base))
                  \cup (IF s \in Evidenced(p) THEN {v} ELSE {})
  BY <1>1, <1>3, <1>4, NewAccount DEF v
<1>9. v \in Nat /\ 1..v = 1..k \cup {v} /\ v \notin 1..k /\ v <= MaxVersions /\ base < v /\ v = k + 1
  BY LearnerStateAssumption DEF v, Save
<1>10. row.payload = p /\ row.first = first /\ row.base = base
       /\ row.of = {v} \cup (IF base = 0 THEN {} ELSE merged[base].of)
  BY DEF row, v
<1>11. VersionsTyped'
  BY <1>1, <1>4, <1>6, <1>9 DEF VersionsTyped, Extended
<1>12. ASSUME NEW u \in 1..v PROVE VersionSound(u)'
  <2>1. CASE u \in 1..k
    <3>1. VersionSound(u) /\ merged[u].base \in 0..k
      BY <1>1, <1>2, <1>7, <2>1
    <3>2. merged'[u] = merged[u] /\ versions'[u] = versions[u]
          /\ (merged[u].base # 0 => merged'[merged[u].base] = merged[merged[u].base])
      BY <1>6, <2>1, <3>1
    <3> QED
      BY <3>1, <3>2 DEF VersionSound
  <2>2. CASE u = v
    <3>1. base # 0 => merged'[base] = merged[base]
      BY <1>6
    <3> QED
      BY <1>3, <1>5, <1>6, <1>9, <1>10, <2>2, <3>1 DEF VersionSound
  <2> QED
    BY <1>9, <2>1, <2>2
<1>17. ASSUME NEW u \in 1..v PROVE VersionTold(u)'
  <2>1. \A w \in 1..k : VersionTold(w)
    BY <1>2 DEF StateInv
  <2>2. CASE u \in 1..k
    <3>1. merged'[u] = merged[u] /\ versions'[u] = versions[u] /\ (Before(u))' = Before(u)
          /\ merged[u].of \subseteq 1..k
      BY <1>6, <1>7, <2>2
    <3>2. \A w \in merged[u].of : versions'[w] = versions[w] /\ (Before(w))' = Before(w)
      BY <3>1, <1>6, <1>7
    <3> QED
      BY <2>1, <2>2, <3>1, <3>2 DEF VersionTold
  <2>3. CASE u = v
    <3>1. versions'[v] = last /\ (Before(v))' = st /\ merged'[v] = row
      BY <1>6, <1>8
    <3>2. base # 0 => base \in 1..k /\ st = versions[base] /\ VersionTold(base)
      BY <2>1 DEF StateAt
    <3>3. base = 0 => SkillsHeld(st) /\ st.top.levels = {}
      BY DEF StateAt, Empty, SkillsHeld, NoEntry, NoMeasure
    <3>4. SkillsHeld(st)
      BY <3>2, <3>3 DEF VersionTold
    <3>5. ASSUME NEW i \in last.top.levels, i > 1, i - 1 \notin last.top.levels
          PROVE  \E w \in merged'[v].of : versions'[w].top.score = None /\ (Before(w))'.top.levels # {}
      <4>1. CASE last.top.score = None /\ st.top.levels # {}
        BY <4>1, <3>1, <1>10
      <4>2. CASE i \in st.top.levels /\ i - 1 \notin st.top.levels
        <5>1. base # 0
          BY <4>2, <3>3
        <5>2. PICK w \in merged[base].of : versions[w].top.score = None /\ Before(w).top.levels # {}
          BY <5>1, <4>2, <3>2, <3>5 DEF VersionTold
        <5>3. w \in 1..k /\ w \in merged'[v].of
          BY <5>1, <3>1, <3>2, <1>7, <1>10
        <5> QED
          BY <5>2, <5>3, <1>6, <1>7
      <4> QED
        BY <4>1, <4>2, <3>5, <1>5 DEF TopFollows
    <3> QED
      BY <2>3, <3>1, <3>4, <3>5, <1>5 DEF VersionTold
  <2> QED
    BY <1>9, <2>2, <2>3
<1>13. EvidenceIsCounted'
  <2> SUFFICES ASSUME NEW u \in 1..v, NEW s \in Skills,
                      \A w \in (Scoring(s, u))' : ~Recounted(w, s)'
               PROVE  versions'[u].skills[s].evidence = Cardinality((Scoring(s, u))')
    BY <1>6 DEF EvidenceIsCounted
  <2>1. ASSUME NEW x \in 1..k, \A w \in Scoring(s, x) : w \in (Scoring(s, u))'
        PROVE  versions[x].skills[s].evidence = Cardinality(Scoring(s, x))
    <3>1. \A w \in Scoring(s, x) : w \in 1..k
      BY <1>7 DEF Scoring
    <3>3. \A w \in Scoring(s, x) : ~Recounted(w, s)
      BY <3>1, <1>7, <2>1
    <3> QED
      BY <3>3, <1>2 DEF StateInv, EvidenceIsCounted
  <2>2. CASE u \in 1..k
    <3>1. versions'[u] = versions[u] /\ (Scoring(s, u))' = Scoring(s, u)
      BY <1>6, <1>7, <2>2
    <3> QED
      BY <2>1, <2>2, <3>1
  <2>3. CASE u = v
    <3>1. s \notin spoiled
      <4>1. merged'[v] = row
        BY <1>6
      <4>2. s \in Evidenced(p) => ~Recounted(v, s)'
        BY <2>3, <1>8
      <4>3. (StateAt(merged[v].first))' = StateAt(first)
        BY <4>1, <1>6, <1>10
      <4>4. ~(/\ first < base /\ s \in Evidenced(p)
              /\ ~StateAt(first).has \/ ~StateAt(first).skills[s].present)
        BY <4>1, <4>2, <4>3, <1>8, <1>10 DEF Recounted
      <4> QED
        BY <4>4
    <3>2. last.skills[s].evidence = (IF p.skills[s].kind = "null" THEN 0 ELSE st.skills[s].evidence)
                                      + (IF s \in Evidenced(p) THEN 1 ELSE 0)
      BY <1>5, <3>1 DEF Computed, CountGiven
    <3> DEFINE old == IF base = 0 \/ p.skills[s].kind = "null" THEN {} ELSE Scoring(s, base)
    <3>3. IsFiniteSet(old) /\ old \subseteq 1..k
          /\ Cardinality(old) = IF p.skills[s].kind = "null" THEN 0 ELSE st.skills[s].evidence
      <4>1. CASE p.skills[s].kind = "null"
        BY <4>1, FS_EmptySet
      <4>2. CASE p.skills[s].kind # "null" /\ base = 0
        BY <4>2, FS_EmptySet DEF StateAt, Empty, NoEntry
      <4>3. CASE p.skills[s].kind # "null" /\ base # 0
        <5>1. base \in 1..k /\ st = versions[base]
          BY <4>3 DEF StateAt
        <5>2. st.skills[s].evidence = Cardinality(Scoring(s, base))
          <6>1. \A w \in Scoring(s, base) : w \in (Scoring(s, u))'
            BY <1>8, <2>3, <4>3
          <6> QED
            BY <2>1, <5>1, <6>1
        <5>3. Scoring(s, base) \subseteq 1..k
          BY <1>7, <5>1 DEF Scoring
        <5>4. IsFiniteSet(1..k)
          <6>1. 1 \in Int /\ k \in Int
            OBVIOUS
          <6> QED
            BY <6>1, FS_Interval
        <5> QED
          BY <4>3, <5>2, <5>3, <5>4, FS_Subset
      <4> QED
        BY <4>1, <4>2, <4>3
    <3>4. (Scoring(s, v))' = old \cup (IF s \in Evidenced(p) THEN {v} ELSE {})
      BY <1>8
    <3>5. v \notin old
      BY <3>3, <1>9
    <3> HIDE DEF old
    <3>6. CASE s \in Evidenced(p)
      <4>1. Cardinality(old \cup {v}) = Cardinality(old) + 1
        BY <3>3, <3>5, FS_AddElement
      <4> QED
        BY <4>1, <3>2, <3>3, <3>4, <3>6, <2>3, <1>6
    <3>7. CASE s \notin Evidenced(p)
      <4>1. (Scoring(s, v))' = old /\ Cardinality(old) \in Nat
        BY <3>3, <3>4, <3>7, FS_CardinalityType
      <4> QED
        BY <4>1, <3>2, <3>3, <3>7, <2>3, <1>6
    <3> QED
      BY <3>6, <3>7
  <2> QED
    BY <1>9, <2>2, <2>3
<1>14. DeltaHasBaseline' /\ CompanionsGrow'
  <2>1. DeltaHasBaseline /\ CompanionsGrow
    BY DEF StateInv
  <2>2. ASSUME NEW u \in 1..v, NEW s \in Skills
        PROVE  LET after == versions'[u].skills[s].measure
                   before == (Before(u))'.skills[s].measure
                   both == before.score # None /\ after.score # None
               IN /\ (1 \in after.levels <=> both)
                  /\ after.direction = IF both THEN DirectionOf(before.score, after.score) ELSE "none"
                  /\ before.levels # {} /\ (Removed(s, u))' # u => Max(after.levels) = Max(before.levels) + 1
    <3>1. CASE u \in 1..k
      BY <3>1, <2>1, <1>2, <1>6, <1>7 DEF DeltaHasBaseline, CompanionsGrow
    <3>2. CASE u = v
      BY <3>2, <1>5, <1>6, <1>8
    <3> QED
      BY <1>9, <3>1, <3>2
  <2> QED
    BY <2>2, <1>6 DEF DeltaHasBaseline, CompanionsGrow
<1>15. AggregationLagsBehind' /\ SkillsHaveSubject'
  <2>1. AggregationLagsBehind /\ SkillsHaveSubject
    BY DEF StateInv
  <2>2. ASSUME NEW u \in 1..v, versions'[u].aggregation # NoAggregation
        PROVE  LET agg == versions'[u].aggregation IN
               /\ agg.version = merged'[u].base + 1
               /\ \A s \in DOMAIN agg.skills : agg.skills[s].direction = (Before(u))'.skills[s].measure.direction
               /\ \A s \in Skills : versions'[u].skills[s].measure.score # None =>
                    Cardinality({w \in DOMAIN agg.subjects : s \in agg.subjects[w].skills}) = 1
    <3>1. CASE u \in 1..k
      <4>1. versions'[u] = versions[u] /\ merged'[u] = merged[u] /\ (Before(u))' = Before(u)
            /\ u \in DOMAIN versions
        BY <3>1, <1>2, <1>6, <1>7
      <4>2. /\ versions[u].aggregation.version = merged[u].base + 1
            /\ \A s \in DOMAIN versions[u].aggregation.skills :
                 versions[u].aggregation.skills[s].direction = Before(u).skills[s].measure.direction
        BY <4>1, <2>1, <2>2 DEF AggregationLagsBehind
      <4>3. \A s \in Skills : versions[u].skills[s].measure.score # None =>
              Cardinality({w \in DOMAIN versions[u].aggregation.subjects :
                             s \in versions[u].aggregation.subjects[w].skills}) = 1
        BY <4>1, <2>1, <2>2 DEF SkillsHaveSubject
      <4> QED
        BY <4>1, <4>2, <4>3
    <3>2. CASE u = v
      <4> DEFINE agg == last.aggregation
      <4>1. /\ agg.version = base + 1
            /\ \A s \in DOMAIN agg.skills :
                 /\ s \in Skills /\ new.skills[s].measure.score # None
                 /\ agg.skills[s].direction = new.skills[s].measure.direction
            /\ \A s \in Skills : new.skills[s].measure.score # None =>
                 \E x : {w \in DOMAIN agg.subjects : s \in agg.subjects[w].skills} = {x}
        BY <3>2, <2>2, <1>5, <1>6 DEF Computed, AggregatedAs
      <4>2. \A s \in Skills : new.skills[s].measure.score # None =>
              new.skills[s].measure.direction = st.skills[s].measure.direction
        BY DEF Computed, EntriesKept, NoMeasure
      <4>3. \A s \in Skills : last.skills[s].measure.score # None =>
              Cardinality({w \in DOMAIN agg.subjects : s \in agg.subjects[w].skills}) = 1
        BY <4>1, <1>5, FS_Singleton
      <4> HIDE DEF agg
      <4>4. \A s \in DOMAIN agg.skills : agg.skills[s].direction = st.skills[s].measure.direction
        BY <4>1, <4>2
      <4> QED
        BY <4>1, <4>3, <4>4, <3>2, <1>6, <1>8, <1>10 DEF agg
    <3> QED
      BY <1>9, <3>1, <3>2
  <2> QED
    BY <2>2, <1>6 DEF AggregationLagsBehind, SkillsHaveSubject
<1>16. TopScoreIsOfSkill'
  <2>1. TopScoreIsOfSkill
    BY DEF StateInv
  <2>2. OwnScore(last) = OwnScore(new)
    BY <1>5 DEF OwnScore, IsState
  <2>3. ASSUME NEW u \in 1..v
        PROVE  LET x == versions'[u] IN
               /\ OwnScore(x) # None => x.top.score = OwnScore(x)
               /\ OwnScore(x) = None /\ merged'[u].payload.score.kind = "absent" =>
                    x.top.score = (Before(u))'.top.score
    <3>1. CASE u \in 1..k
      BY <3>1, <2>1, <1>2, <1>6, <1>7 DEF TopScoreIsOfSkill, OwnScore
    <3>2. CASE u = v
      BY <3>2, <2>2, <1>5, <1>6, <1>8, <1>10 DEF Computed
    <3> QED
      BY <1>9, <3>1, <3>2
  <2> QED
    BY <2>3, <1>6 DEF TopScoreIsOfSkill, OwnScore
<1> QED
  BY <1>6, <1>11, <1>12, <1>13, <1>14, <1>15, <1>16, <1>17 DEF StateInv


\* Nothing is merged at first.
LEMMA InitState == StateInit => StateInv
<1> SUFFICES ASSUME StateInit PROVE StateInv
  OBVIOUS
<1>1. versions = <<>> /\ merged = <<>> /\ config \in Configs
  BY DEF StateInit
<1>2. VersionsTyped
  <2>1. versions \in Seq({})
    BY <1>1
  <2>2. merged \in Seq(MergedRows) /\ Len(merged) = 0 /\ Len(versions) = 0
    BY <1>1
  <2> QED
    BY <1>1, <2>1, <2>2, LearnerStateAssumption DEF VersionsTyped, IsSeq
<1>3. DOMAIN versions = {}
  BY <1>1
<1> QED
  BY <1>2, <1>3 DEF StateInv, EvidenceIsCounted, DeltaHasBaseline, CompanionsGrow, AggregationLagsBehind,
                    SkillsHaveSubject, TopScoreIsOfSkill

\* Every signal merged keeps the account, at once or after a conflict.
LEMMA StateStepKeeps == StateInv /\ [StateNext]_stateVars => StateInv'
<1> SUFFICES ASSUME StateInv, [StateNext]_stateVars PROVE StateInv'
  OBVIOUS
<1>1. PICK k \in Nat : k = Len(versions)
  <2>1. IsSeq(versions)
    BY DEF StateInv, VersionsTyped
  <2> QED
    BY <2>1, Appended
<1>2. DOMAIN versions = 1..k
  <2>1. IsSeq(versions)
    BY DEF StateInv, VersionsTyped
  <2> QED
    BY <2>1, <1>1, Appended
<1>3. \A b \in 0..k : IsState(StateAt(b))
  BY <1>2, BasesAreSound DEF StateInv
<1>4. \A p \in Payloads : p \in PayloadRows
  BY LearnerStateAssumption DEF PayloadRows, Fields
<1>5. CASE UNCHANGED stateVars
  <2>1. versions' = versions /\ merged' = merged /\ config' = config
    BY <1>5 DEF stateVars
  <2>2. VersionsTyped'
    BY <2>1 DEF StateInv, VersionsTyped, IsSeq
  <2>3. \A v \in DOMAIN versions' : VersionSound(v)' /\ VersionTold(v)'
    BY <2>1 DEF StateInv, VersionSound, VersionTold, Before, StateAt
  <2>4. EvidenceIsCounted'
    <3>1. \A u \in Nat, s \in Skills : Recounted(u, s)' <=> Recounted(u, s)
      BY <2>1 DEF Recounted, ScoredBy, StateAt
    <3>2. \A v \in DOMAIN versions, s \in Skills : (Scoring(s, v))' = Scoring(s, v)
      BY <2>1 DEF Scoring, ScoredBy, Removed
    <3>3. \A v \in DOMAIN versions : merged[v].of \subseteq Nat
      BY <1>2 DEF StateInv, VersionSound
    <3>4. EvidenceIsCounted
      BY DEF StateInv
    <3>5. \A v \in DOMAIN versions, s \in Skills : Scoring(s, v) \subseteq Nat
      BY <3>3 DEF Scoring
    <3> QED
      BY <2>1, <3>1, <3>2, <3>4, <3>5 DEF EvidenceIsCounted
  <2>5. DeltaHasBaseline' /\ AggregationLagsBehind'
    BY <2>1 DEF StateInv, DeltaHasBaseline, AggregationLagsBehind, Before, StateAt
  <2>6. CompanionsGrow'
    BY <2>1 DEF StateInv, CompanionsGrow, Before, StateAt, Removed
  <2>7. SkillsHaveSubject' /\ TopScoreIsOfSkill'
    BY <2>1 DEF StateInv, SkillsHaveSubject, TopScoreIsOfSkill, Before, StateAt
  <2> QED
    BY <2>2, <2>3, <2>4, <2>5, <2>6, <2>7 DEF StateInv
<1>6. ASSUME NEW p \in Payloads, NEW base \in 0..k, ApplyOne(p, base) PROVE StateInv'
  <2> DEFINE st == StateAt(base)  mid == CountEvidence(Merge(st, p), p)
  <2>1. Kept(st, Merge(st, p), p) /\ CountLeft(st, Merge(st, p), p, {})
    BY <1>3, <1>4, MergeKeeps
  <2>2. Kept(st, mid, p) /\ CountGiven(st, mid, p, {}) /\ (SkillsHeld(st) => SkillsHeld(mid))
    BY <2>1, CountKeeps
  <2>3. Save(Aggregate(Promote(mid), base + 1), p, base, base)
    BY <1>6 DEF ApplyOne, ComputeNewState
  <2> HIDE DEF mid
  <2>4. Computed(st, Aggregate(Promote(mid), base + 1), p, {}, base + 1)
    BY <2>2, Computing
  <2> DEFINE new == Aggregate(Promote(mid), base + 1)
  <2>5. Save(new, p, base, base) /\ Computed(st, new, p, {}, base + 1)
    BY <2>3, <2>4
  <2> HIDE DEF new
  <2> QED
    BY <2>5, <1>1, SavingKeeps
<1>7. ASSUME NEW p \in Payloads, NEW base \in 0..k, NEW first \in 0..k, ApplyAgain(p, first, base)
      PROVE  StateInv'
  <2> DEFINE st == StateAt(base)  spoiled == Spoiled(StateAt(first), p)
             mid == CountEvidence(MergeSpoiled(st, p, spoiled), p)
  <2>1. /\ spoiled \in SUBSET Skills
        /\ \A s \in spoiled : /\ s \in Evidenced(p)
                              /\ ~StateAt(first).has \/ ~StateAt(first).skills[s].present
    BY DEF Spoiled, Evidenced
  <2>2. first < base /\ Save(Aggregate(Promote(mid), base + 1), p, first, base)
    BY <1>7 DEF ApplyAgain
  <2> HIDE DEF spoiled
  <2>3. Kept(st, MergeSpoiled(st, p, spoiled), p) /\ CountLeft(st, MergeSpoiled(st, p, spoiled), p, spoiled)
    BY <2>1, <1>3, <1>4, SpoiledMergeKeeps
  <2>4. Kept(st, mid, p) /\ CountGiven(st, mid, p, spoiled) /\ (SkillsHeld(st) => SkillsHeld(mid))
    BY <2>3, CountKeeps
  <2> HIDE DEF mid
  <2> DEFINE new == Aggregate(Promote(mid), base + 1)
  <2>5. Save(new, p, first, base) /\ Computed(st, new, p, spoiled, base + 1)
    BY <2>2, <2>4, Computing
  <2> HIDE DEF new
  <2>6. first <= base
    BY <2>2
  <2> QED
    BY <2>1, <2>2, <2>5, <2>6, <1>1, SavingKeeps
<1> QED
  BY <1>1, <1>5, <1>6, <1>7 DEF StateNext

\* What the runs check of the types.
LEMMA StateTypesFollow == StateInv => StateTypeOK
<1> SUFFICES ASSUME StateInv PROVE StateTypeOK
  OBVIOUS
<1>1. /\ config \in Configs /\ Len(merged) = Len(versions) /\ Len(versions) <= MaxVersions
      /\ merged \in Seq(MergedRows) /\ IsSeq(versions)
  BY DEF StateInv, VersionsTyped
<1>2. DOMAIN versions = 1..Len(versions) /\ Len(versions) \in Nat
  BY <1>1, Appended
<1>3. ASSUME NEW v \in DOMAIN versions
      PROVE  LET st == versions[v] IN
             /\ merged[v].payload \in Payloads /\ merged[v].first <= merged[v].base
             /\ merged[v].base \in 0..(v - 1) /\ st.has \in BOOLEAN
             /\ st.skill \in Skills \cup {0} /\ st.top \in Measure
             /\ \A s \in Skills : /\ st.skills[s].measure \in Measure /\ st.skills[s].evidence \in Nat
                                  /\ st.skills[s] # NoEntry => st.skills[s].present
  <2> DEFINE st == versions[v]
  <2>1. v \in 1..Len(versions) /\ v <= MaxVersions /\ v \in Nat
    BY <1>1, <1>2, LearnerStateAssumption
  <2>2. merged[v] \in MergedRows
    BY <1>1, <2>1
  <2>3. IsState(st) /\ LevelsUpTo(st, v) /\ merged[v].first <= merged[v].base /\ merged[v].base < v
    BY DEF StateInv, VersionSound
  <2> HIDE DEF st
  <2>4. \A m \in Measures : m.levels \subseteq 1..v => m \in Measure
    <3> SUFFICES ASSUME NEW m \in Measures, m.levels \subseteq 1..v PROVE m \in Measure
      OBVIOUS
    <3>1. m.levels \subseteq 1..MaxVersions
      BY <2>1, LearnerStateAssumption
    <3> QED
      BY <3>1 DEF Measures, Measure, Directions
  <2>5. st.top \in Measures /\ st.top.levels \subseteq 1..v
    BY <2>3 DEF IsState, LevelsUpTo
  <2>6. ASSUME NEW s \in Skills
        PROVE  /\ st.skills[s].measure \in Measure /\ st.skills[s].evidence \in Nat
               /\ st.skills[s] # NoEntry => st.skills[s].present
    <3>1. st.skills[s] \in Entries /\ (st.skills[s] # NoEntry => st.skills[s].present)
      BY <2>3 DEF IsState
    <3>2. st.skills[s].measure \in Measures /\ st.skills[s].evidence \in Nat
      BY <3>1 DEF Entries
    <3>3. st.skills[s].measure.levels \subseteq 1..v
      BY <2>3 DEF LevelsUpTo
    <3> QED
      BY <2>4, <3>1, <3>2, <3>3
  <2>7. merged[v].payload \in Payloads /\ merged[v].base \in 0..(v - 1)
    BY <2>1, <2>2, <2>3 DEF MergedRows
  <2>8. st.has \in BOOLEAN /\ st.skill \in Skills \cup {0}
    BY <2>3 DEF IsState
  <2> QED
    BY <2>3, <2>4, <2>5, <2>6, <2>7, <2>8 DEF st
<1> QED
  BY <1>1, <1>3 DEF StateTypeOK

\* Every version that is ever stored is accounted for by the signals merged into the versions it
\* was computed on: the counts of evidence, the differences with their companions and
\* directions, the subjects and the score at the top level, for every set of skills, scores,
\* subjects and payloads and any number of signals and conflicts.
THEOREM StateAlwaysOfSignals == StateSpec => []StateIsOfSignals
<1>1. StateInv => StateIsOfSignals
  BY StateTypesFollow DEF StateInv, StateIsOfSignals
<1> QED
  BY <1>1, InitState, StateStepKeeps, PTL DEF StateSpec

--------------------------------------------------------------------------------
\* What the breakdown of a version says of its subjects.
Extremes(f, x) ==
  /\ x.mean \in Nat /\ x.strongest \in x.skills /\ x.weakest \in x.skills
  /\ f[x.weakest] <= x.mean /\ x.mean <= f[x.strongest]
  /\ \A r \in x.skills : f[x.weakest] <= f[r] /\ f[r] <= f[x.strongest]

\* Every subject of a breakdown has its mean between its weakest and its strongest skill.
LEMMA SubjectExtremes ==
    ASSUME NEW st, IsState(st), BrokenDown(st), st.aggregation # NoAggregation,
           NEW u \in DOMAIN st.aggregation.subjects
    PROVE  Extremes(ScoreOf(st), st.aggregation.subjects[u])
<1> DEFINE f == ScoreOf(st)  x == st.aggregation.subjects[u]  S == x.skills
<1>1. /\ S # {} /\ S \subseteq ScoredIn(st) /\ x.mean = MeanOf(f, S)
      /\ x.strongest = Strongest(f, S) /\ x.weakest = Weakest(f, S)
  BY DEF BrokenDown
<1>2. \A s \in ScoredIn(st) : s \in Skills /\ f[s] \in Nat
  BY LearnerStateAssumption DEF ScoredIn, ScoreOf, IsState, Entries, Measures
<1> HIDE DEF f, x
<1>3. S \in SUBSET Nat /\ IsFiniteSet(S) /\ \A s \in S : f[s] \in Int /\ f[s] \in Nat
  <2>1. S \subseteq Skills /\ IsFiniteSet(Skills) /\ Skills \subseteq Nat
    BY <1>1, <1>2, LearnerStateAssumption
  <2>2. IsFiniteSet(S) /\ S \in SUBSET Nat
    <3> HIDE DEF S
    <3> QED
      BY <2>1, FS_Subset
  <2>3. \A s \in S : f[s] \in Int /\ f[s] \in Nat
    BY <1>1, <1>2
  <2> QED
    BY <2>2, <2>3
<1>4. /\ Strongest(f, S) \in S /\ \A r \in S : f[r] <= f[Strongest(f, S)]
      /\ Weakest(f, S) \in S /\ \A r \in S : f[Weakest(f, S)] <= f[r]
  BY <1>1, <1>3, ExtremesAre
<1> DEFINE lo == f[Weakest(f, S)]  hi == f[Strongest(f, S)]
<1>5. lo \in Int /\ hi \in Int /\ lo >= 0 /\ \A r \in S : f[r] \in Int /\ lo <= f[r] /\ f[r] <= hi
  BY <1>3, <1>4
<1>6. MeanOf(f, S) \in Int /\ lo <= MeanOf(f, S) /\ MeanOf(f, S) <= hi
  <2> HIDE DEF lo, hi
  <2> QED
    BY <1>1, <1>3, <1>5, MeanBetween
<1>7. x.mean \in Nat
  <2> HIDE DEF lo, hi
  <2> QED
    BY <1>1, <1>5, <1>6
<1> QED
  BY <1>1, <1>4, <1>6, <1>7 DEF Extremes, f, x

\* The breakdown of a version: the subject of every scored skill, its evidence, the extremes.
LEMMA BreakdownOf ==
    ASSUME StateInv, NEW v \in DOMAIN versions, versions[v].aggregation # NoAggregation
    PROVE  LET st == versions[v]  agg == st.aggregation  names == DOMAIN agg.subjects  f == ScoreOf(st) IN
           /\ IsState(st) /\ IsFiniteSet(names) /\ names # {} /\ DOMAIN agg.skills = ScoredIn(st)
           /\ \A s \in ScoredIn(st) :
                /\ s \in Skills /\ f[s] \in Nat /\ f[s] = st.skills[s].measure.score
                /\ agg.skills[s].evidence = st.skills[s].evidence
                /\ SubjectIn(agg, s) \in names /\ s \in agg.subjects[SubjectIn(agg, s)].skills
                /\ \A u \in names : s \in agg.subjects[u].skills => u = SubjectIn(agg, s)
           /\ agg.overall = MeanOf([u \in names |-> agg.subjects[u].mean], names)
           /\ \A u \in names : agg.subjects[u].skills \subseteq ScoredIn(st) /\ Extremes(f, agg.subjects[u])
<1> DEFINE st == versions[v]  agg == st.aggregation  names == DOMAIN agg.subjects  f == ScoreOf(st)
<1>1. IsState(st) /\ BrokenDown(st) /\ agg # NoAggregation
  BY DEF StateInv, VersionSound, VersionTold
<1>2. \A s \in ScoredIn(st) : s \in Skills /\ f[s] \in Nat /\ f[s] = st.skills[s].measure.score
                              /\ st.skills[s].measure.score # None
  BY <1>1, LearnerStateAssumption DEF ScoredIn, ScoreOf, IsState, Entries, Measures
<1>3. \A s \in ScoredIn(st) : Cardinality({u \in names : s \in agg.subjects[u].skills}) = 1
  BY <1>1, <1>2 DEF StateInv, SkillsHaveSubject
<1>4. IsFiniteSet(names)
  BY <1>1 DEF BrokenDown
<1> HIDE DEF st
<1>5. ASSUME NEW s \in ScoredIn(st)
      PROVE  /\ SubjectIn(agg, s) \in names /\ s \in agg.subjects[SubjectIn(agg, s)].skills
             /\ \A u \in names : s \in agg.subjects[u].skills => u = SubjectIn(agg, s)
  <2> DEFINE U == {u \in names : s \in agg.subjects[u].skills}
  <2>1. IsFiniteSet(U)
    BY <1>4, FS_Subset
  <2>2. PICK w : U = {w}
    BY <2>1, <1>3, FS_Singleton
  <2>3. w \in names /\ s \in agg.subjects[w].skills /\ \A u \in names : s \in agg.subjects[u].skills => u = w
    BY <2>2
  <2>4. SubjectIn(agg, s) = w
    BY <2>3 DEF SubjectIn
  <2> QED
    BY <2>3, <2>4
<1>6. \A u \in names : Extremes(f, agg.subjects[u])
  BY <1>1, SubjectExtremes
<1>7. /\ names # {} /\ DOMAIN agg.skills = ScoredIn(st)
      /\ \A s \in ScoredIn(st) : agg.skills[s].evidence = st.skills[s].evidence
      /\ agg.overall = MeanOf([u \in names |-> agg.subjects[u].mean], names)
      /\ \A u \in names : agg.subjects[u].skills \subseteq ScoredIn(st)
  BY <1>1 DEF BrokenDown
<1> QED
  BY <1>1, <1>2, <1>4, <1>5, <1>6, <1>7 DEF st

\* The mean of a subject, and the mean of the means.
LEMMA BoundsHold == StateInv => AggregationBounds
<1> SUFFICES ASSUME StateInv, NEW v \in DOMAIN versions, versions[v].aggregation # NoAggregation
             PROVE  LET agg == versions[v].aggregation
                        score(s) == versions[v].skills[s].measure.score
                        means == {agg.subjects[u].mean : u \in DOMAIN agg.subjects}
                    IN /\ \A u \in DOMAIN agg.subjects :
                            /\ score(agg.subjects[u].weakest) <= agg.subjects[u].mean
                            /\ agg.subjects[u].mean <= score(agg.subjects[u].strongest)
                       /\ Min(means) <= agg.overall /\ agg.overall <= Max(means)
  BY DEF AggregationBounds
<1> DEFINE st == versions[v]  agg == st.aggregation  names == DOMAIN agg.subjects  f == ScoreOf(st)
          means == {agg.subjects[u].mean : u \in names}  g == [u \in names |-> agg.subjects[u].mean]
<1>1. /\ IsFiniteSet(names) /\ names # {}
      /\ \A s \in ScoredIn(st) : f[s] = st.skills[s].measure.score
      /\ agg.overall = MeanOf(g, names)
      /\ \A u \in names : agg.subjects[u].skills \subseteq ScoredIn(st) /\ Extremes(f, agg.subjects[u])
  BY BreakdownOf
<1> HIDE DEF st, f
<1>2. ASSUME NEW u \in names
      PROVE  /\ st.skills[agg.subjects[u].weakest].measure.score <= agg.subjects[u].mean
             /\ agg.subjects[u].mean <= st.skills[agg.subjects[u].strongest].measure.score
             /\ agg.subjects[u].mean \in Nat
  <2>1. agg.subjects[u].skills \subseteq ScoredIn(st) /\ Extremes(f, agg.subjects[u])
    BY <1>1
  <2> QED
    BY <2>1, <1>1 DEF Extremes
<1> HIDE DEF agg
<1>3. IsFiniteSet(means) /\ means \in SUBSET Nat /\ means # {} /\ \A u \in names : g[u] \in means
  <2>1. g \in Surjection(names, means)
    BY DEF Surjection
  <2>2. IsFiniteSet(means)
    <3> HIDE DEF g, means
    <3> QED
      BY <2>1, <1>1, FS_Surjection
  <2> QED
    BY <2>2, <1>1, <1>2
<1> HIDE DEF names, means, g
<1>4. /\ Min(means) \in means /\ \A n \in means : Min(means) <= n
      /\ Max(means) \in means /\ \A n \in means : n <= Max(means)
  <2>1. \A n \in means : n \in Int
    BY <1>3
  <2> QED
    BY <2>1, <1>3, MinIs, MaxOfFinite
<1>5. Min(means) <= agg.overall /\ agg.overall <= Max(means)
  <2> DEFINE lo == Min(means)  hi == Max(means)
  <2>1. lo \in Int /\ hi \in Int /\ \A u \in names : g[u] \in Int /\ lo <= g[u] /\ g[u] <= hi
    <3>1. \A n \in means : n \in Int
      BY <1>3
    <3>2. lo \in means /\ hi \in means /\ \A n \in means : lo <= n /\ n <= hi
      BY <1>4
    <3> HIDE DEF lo, hi
    <3> QED
      BY <3>1, <3>2, <1>3
  <2> HIDE DEF lo, hi
  <2>2. lo <= MeanOf(g, names) /\ MeanOf(g, names) <= hi
    BY <2>1, <1>1, MeanBetween
  <2> QED
    BY <2>2, <1>1 DEF lo, hi
<1> QED
  BY <1>2, <1>5 DEF st, agg, means, names

--------------------------------------------------------------------------------
\* What the version before says, and the difference that is written at the top level.
LEMMA TopOf ==
    ASSUME StateInv, NEW v \in DOMAIN versions
    PROVE  /\ v \in Nat /\ v # 0 /\ DOMAIN versions = 1..Len(versions) /\ Len(versions) \in Nat
           /\ IsState(versions[v]) /\ versions[v].top \in Measures
           /\ merged[v].base \in Nat /\ merged[v].base < v
           /\ merged[v].base # 0 => merged[v].base \in DOMAIN versions
           /\ Before(v) = IF merged[v].base = 0 THEN Empty ELSE versions[merged[v].base]
           /\ TopFollows(Before(v).top, versions[v].top)
<1>1. DOMAIN versions = 1..Len(versions) /\ Len(versions) \in Nat
  BY Appended DEF StateInv, VersionsTyped
<1>2. v \in 1..Len(versions) /\ merged[v] \in MergedRows
  BY <1>1 DEF StateInv, VersionsTyped
<1>3. VersionSound(v) /\ VersionTold(v)
  BY DEF StateInv
<1>4. merged[v].base \in Nat /\ merged[v].base < v
  BY <1>2, <1>3 DEF VersionSound, MergedRows
<1>5. merged[v].base # 0 => merged[v].base \in DOMAIN versions
  BY <1>1, <1>2, <1>4
<1> QED
  BY <1>1, <1>2, <1>3, <1>4, <1>5 DEF VersionSound, VersionTold, IsState, Before, StateAt

\* A page that only goes level or the other way has no score above its first, or below.
LEMMA NoStepUp ==
    ASSUME NEW lo \in Nat, NEW hi \in Nat, lo <= hi, NEW f, \A v \in lo..hi : f[v] \in Int,
           \A v \in (lo + 1)..hi : f[v] <= f[v - 1]
    PROVE  \A v \in lo..hi : f[v] <= f[lo]
<1> DEFINE T == {v \in lo..hi : ~(f[v] <= f[lo])}
<1>1. ASSUME T # {} PROVE FALSE
  <2>1. T \in SUBSET Nat
    OBVIOUS
  <2>2. PICK v \in T : \A w \in T : v <= w
    <3> HIDE DEF T
    <3> QED
      BY <2>1, <1>1, Smallest
  <2>3. v \in lo..hi /\ ~(f[v] <= f[lo])
    OBVIOUS
  <2>4. v # lo
    BY <2>3
  <2>5. v \in (lo + 1)..hi /\ v - 1 \in lo..hi /\ ~(v <= v - 1)
    BY <2>3, <2>4
  <2>6. v - 1 \notin T
    <3> HIDE DEF T
    <3> QED
      BY <2>2, <2>5
  <2>7. f[v - 1] <= f[lo] /\ f[v] <= f[v - 1]
    BY <2>5, <2>6
  <2>8. f[v] \in Int /\ f[v - 1] \in Int /\ f[lo] \in Int
    BY <2>3, <2>5
  <2> QED
    BY <2>3, <2>7, <2>8
<1> QED
  BY <1>1

\* The same of a page that never goes down.
LEMMA NoStepDown ==
    ASSUME NEW lo \in Nat, NEW hi \in Nat, lo <= hi, NEW f, \A v \in lo..hi : f[v] \in Int,
           \A v \in (lo + 1)..hi : f[v - 1] <= f[v]
    PROVE  \A v \in lo..hi : f[lo] <= f[v]
<1> DEFINE g == [v \in lo..hi |-> 0 - f[v]]
<1>1. \A v \in lo..hi : g[v] = 0 - f[v] /\ g[v] \in Int
  OBVIOUS
<1>2. \A v \in (lo + 1)..hi : v \in lo..hi /\ v - 1 \in lo..hi
  OBVIOUS
<1> HIDE DEF g
<1>3. \A v \in (lo + 1)..hi : g[v] <= g[v - 1]
  <2> SUFFICES ASSUME NEW v \in (lo + 1)..hi PROVE g[v] <= g[v - 1]
    OBVIOUS
  <2>1. f[v - 1] <= f[v] /\ f[v] \in Int /\ f[v - 1] \in Int
    BY <1>2
  <2> QED
    BY <2>1, <1>1, <1>2
<1>4. \A v \in lo..hi : g[v] <= g[lo]
  BY <1>1, <1>3, NoStepUp
<1> SUFFICES ASSUME NEW v \in lo..hi PROVE f[lo] <= f[v]
  OBVIOUS
<1>5. g[v] <= g[lo] /\ g[v] = 0 - f[v] /\ g[lo] = 0 - f[lo] /\ f[v] \in Int /\ f[lo] \in Int
  BY <1>1, <1>4
<1> QED
  BY <1>5

\* The overall direction of a page.
LEMMA OverallStep == StateInv => OverallHasStep
<1> SUFFICES ASSUME StateInv, NEW hi \in DOMAIN versions, NEW lo \in 1..hi,
                    SummaryOf(lo, hi).direction \in {"improving", "declining"},
                    \A v \in (lo + 1)..hi : /\ PointAt(v).direction # SummaryOf(lo, hi).direction
                                            /\ PointAt(v - 1).value # None /\ merged[v].base = v - 1
             PROVE  FALSE
  BY DEF OverallHasStep
<1> DEFINE numbers == {v \in lo..hi : PointAt(v).value # None}
           first == PointAt(Min(numbers)).value  latest == PointAt(Max(numbers)).value
           overall == SummaryOf(lo, hi).direction
<1>1. hi \in Nat /\ lo \in Nat /\ lo <= hi /\ lo # 0 /\ \A v \in lo..hi : v \in DOMAIN versions
  <2>1. DOMAIN versions = 1..Len(versions) /\ Len(versions) \in Nat /\ hi \in Nat
    BY TopOf
  <2> QED
    BY <2>1
<1>2. \A v \in lo..hi : versions[v].top \in Measures
  BY <1>1, TopOf
<1>3. numbers # {} /\ overall = DirectionOf(first, latest)
  BY DEF SummaryOf
<1>4. \A v \in lo..hi : v < hi => PointAt(v).value # None
  <2> SUFFICES ASSUME NEW v \in lo..hi, v < hi PROVE PointAt(v).value # None
    OBVIOUS
  <2>1. v + 1 \in (lo + 1)..hi /\ (v + 1) - 1 = v
    BY <1>1
  <2> QED
    BY <2>1
<1>5. Min(numbers) = lo /\ Max(numbers) \in numbers
  <2>1. numbers \in SUBSET Nat /\ numbers \in SUBSET (0..hi)
    BY <1>1
  <2>2. Min(numbers) \in numbers /\ \A n \in numbers : Min(numbers) <= n
    <3> HIDE DEF numbers
    <3> QED
      BY <2>1, <1>3, MinIs
  <2>3. Max(numbers) \in numbers
    <3> HIDE DEF numbers
    <3> QED
      BY <2>1, <1>1, <1>3, RemovedIsOf
  <2>4. lo \in numbers
    <3>1. CASE lo < hi
      BY <3>1, <1>1, <1>4
    <3>2. CASE lo = hi
      BY <3>2, <2>2, <1>1
    <3> QED
      BY <3>1, <3>2, <1>1
  <2>5. Min(numbers) = lo
    <3>1. Min(numbers) \in lo..hi /\ Min(numbers) <= lo
      BY <2>2, <2>4
    <3> QED
      BY <3>1, <1>1
  <2> QED
    BY <2>3, <2>5
<1> DEFINE top == Max(numbers)  f == [v \in lo..top |-> PointAt(v).value]
<1>6. top \in lo..hi /\ PointAt(top).value # None
  BY <1>5
<1>7. ASSUME NEW v \in lo..top PROVE v \in lo..hi /\ f[v] = PointAt(v).value /\ f[v] \in Nat
  <2>1. v \in lo..hi /\ PointAt(v).value # None
    <3> HIDE DEF top, numbers, f
    <3>1. v \in lo..hi /\ (v < hi \/ v = top)
      BY <1>1, <1>6
    <3> QED
      BY <3>1, <1>4, <1>6
  <2>2. PointAt(v).value \in Nat
    BY <2>1, <1>2, LearnerStateAssumption DEF PointAt, Measures
  <2> QED
    BY <2>1, <2>2
<1>8. ASSUME NEW v \in (lo + 1)..top
      PROVE  /\ v \in lo..top /\ v - 1 \in lo..top
             /\ DirectionOf(f[v - 1], f[v]) # overall
  <2>1. top \in Nat /\ top <= hi
    <3> HIDE DEF top
    <3> QED
      BY <1>1, <1>6
  <2>2. v \in lo..top /\ v - 1 \in lo..top /\ v \in (lo + 1)..hi /\ v - 1 # 0
    <3> HIDE DEF top
    <3> QED
      BY <2>1, <1>1
  <2>3. v \in DOMAIN versions /\ merged[v].base = v - 1 /\ PointAt(v).direction # overall
    BY <2>2, <1>1
  <2>4. Before(v) = versions[v - 1] /\ TopFollows(versions[v - 1].top, versions[v].top)
    BY <2>2, <2>3, TopOf
  <2> HIDE DEF top, f, overall
  <2>5. f[v - 1] = versions[v - 1].top.score /\ f[v] = versions[v].top.score
        /\ f[v - 1] # None /\ f[v] # None
    <3>1. f[v - 1] = PointAt(v - 1).value /\ f[v] = PointAt(v).value /\ f[v - 1] \in Nat /\ f[v] \in Nat
      BY <2>2, <1>7
    <3> QED
      BY <3>1 DEF PointAt, None
  <2>6. versions[v].top.direction = DirectionOf(f[v - 1], f[v])
    BY <2>4, <2>5 DEF TopFollows
  <2> QED
    BY <2>2, <2>3, <2>6 DEF PointAt
<1>9. first = f[lo] /\ latest = f[top] /\ lo \in lo..top /\ top \in lo..top /\ lo <= top /\ top \in Nat
  <2>1. lo <= top /\ top \in Nat
    <3> HIDE DEF top
    <3> QED
      BY <1>1, <1>6
  <2>2. lo \in lo..top /\ top \in lo..top
    <3> HIDE DEF top
    <3> QED
      BY <2>1, <1>1
  <2> QED
    BY <2>1, <2>2, <1>5
<1>10. overall \in {"improving", "declining"}
  OBVIOUS
<1> HIDE DEF top, f, overall, first, latest, numbers
<1>11. f[lo] \in Nat /\ f[top] \in Nat /\ overall = DirectionOf(f[lo], f[top])
  BY <1>3, <1>7, <1>9
<1>12. \A v \in (lo + 1)..top : v \in lo..top /\ v - 1 \in lo..top /\ f[v] \in Int /\ f[v - 1] \in Int
                                /\ DirectionOf(f[v - 1], f[v]) # overall
  BY <1>7, <1>8
<1>13. CASE overall = "improving"
  <2>1. \A v \in (lo + 1)..top : f[v] <= f[v - 1]
    BY <1>12, <1>13 DEF DirectionOf
  <2>2. \A v \in lo..top : f[v] <= f[lo]
    BY <2>1, <1>1, <1>7, <1>9, NoStepUp
  <2>3. f[top] <= f[lo]
    BY <2>2, <1>9
  <2> QED
    BY <2>3, <1>11, <1>13 DEF DirectionOf
<1>14. CASE overall = "declining"
  <2>1. \A v \in (lo + 1)..top : f[v - 1] <= f[v]
    BY <1>12, <1>14 DEF DirectionOf
  <2>2. \A v \in lo..top : f[lo] <= f[v]
    <3>1. \A v \in lo..top : f[v] \in Int
      BY <1>7
    <3> QED
      BY <3>1, <2>1, <1>1, <1>9, NoStepDown
  <2>3. f[lo] <= f[top]
    BY <2>2, <1>9
  <2> QED
    BY <2>3, <1>11, <1>14 DEF DirectionOf
<1> QED
  BY <1>10, <1>13, <1>14

\* A companion that is shown without the one below it.
LEMMA OrphansFollow == StateInv => OrphansAreOfRemoval
<1> SUFFICES ASSUME StateInv, NEW v \in DOMAIN versions, NEW n \in ShownLevels(v),
                    n > 1, n - 1 \notin ShownLevels(v)
             PROVE  \E u \in merged[v].of : versions[u].top.score = None /\ Before(u).top.levels # {}
  BY DEF OrphansAreOfRemoval
<1>1. n \in versions[v].top.levels /\ n \in 1..3 /\ n - 1 \in 1..3
  BY DEF ShownLevels, ShownOrders
<1>2. n - 1 \notin versions[v].top.levels
  BY <1>1 DEF ShownLevels, ShownOrders
<1> QED
  BY <1>1, <1>2 DEF StateInv, VersionTold

--------------------------------------------------------------------------------
\* Of a set in a strict order, those with fewer than k ahead of them are k, when there is
\* one with as many ahead.
LEMMA FirstOnes ==
    ASSUME NEW C, IsFiniteSet(C), NEW ahead \in [C -> SUBSET C],
           \A s \in C : s \notin ahead[s],
           \A s, t \in C : s \in ahead[t] => ahead[s] \subseteq ahead[t],
           \A s, t \in C : s # t => s \in ahead[t] \/ t \in ahead[s],
           NEW k \in Nat, NEW w \in C, ~(Cardinality(ahead[w]) < k)
    PROVE  Cardinality({s \in C : Cardinality(ahead[s]) < k}) = k
<1> DEFINE n == Cardinality(C)  rank == [s \in C |-> Cardinality(ahead[s])]
           G == {s \in C : Cardinality(ahead[s]) < k}  h == [s \in G |-> rank[s]]
<1>1. n \in Nat
  BY FS_CardinalityType
<1>2. ASSUME NEW s \in C
      PROVE  IsFiniteSet(ahead[s]) /\ Cardinality(ahead[s]) \in Nat /\ Cardinality(ahead[s]) < n
  <2>1. ahead[s] \in SUBSET C /\ ahead[s] # C
    OBVIOUS
  <2>2. IsFiniteSet(ahead[s]) /\ Cardinality(ahead[s]) <= n /\ Cardinality(ahead[s]) # n
    BY <2>1, FS_Subset
  <2>3. Cardinality(ahead[s]) \in Nat
    BY <2>2, FS_CardinalityType
  <2> HIDE DEF n
  <2> QED
    BY <2>2, <2>3, <1>1
<1>3. ASSUME NEW s \in C, NEW t \in C, s \in ahead[t] PROVE Cardinality(ahead[s]) # Cardinality(ahead[t])
  <2>1. ahead[s] \in SUBSET ahead[t] /\ ahead[s] # ahead[t]
    BY <1>3
  <2> QED
    BY <2>1, <1>2, FS_Subset
<1>4. ASSUME NEW s \in C, NEW t \in C, s # t PROVE Cardinality(ahead[s]) # Cardinality(ahead[t])
  BY <1>3, <1>4
<1> HIDE DEF n
<1>5. rank \in Injection(C, 0..(n - 1))
  <2>1. \A s \in C : Cardinality(ahead[s]) \in 0..(n - 1)
    BY <1>1, <1>2
  <2> QED
    BY <2>1, <1>4 DEF Injection, IsInjective
<1>6. IsFiniteSet(0..(n - 1)) /\ Cardinality(0..(n - 1)) = n
  <2>1. 0 \in Int /\ n - 1 \in Int /\ (n - 1) - 0 + 1 = n /\ (0 > n - 1 => n = 0)
    BY <1>1
  <2> QED
    BY <2>1, FS_Interval
<1>7. rank \in Surjection(C, 0..(n - 1))
  <2> HIDE DEF rank
  <2>1. Cardinality(C) = Cardinality(0..(n - 1))
    BY <1>6 DEF n
  <2> QED
    BY <2>1, <1>5, <1>6, FS_Injection
<1>8. k <= n - 1
  <2>1. Cardinality(ahead[w]) \in Nat /\ Cardinality(ahead[w]) < n
    BY <1>2
  <2> QED
    BY <2>1, <1>1
<1>9. IsFiniteSet(0..(k - 1)) /\ Cardinality(0..(k - 1)) = k
  <2>1. 0 \in Int /\ k - 1 \in Int /\ (k - 1) - 0 + 1 = k /\ (0 > k - 1 => k = 0)
    OBVIOUS
  <2> QED
    BY <2>1, FS_Interval
<1>10. h \in Injection(G, 0..(k - 1))
  <2>1. \A s \in G : s \in C /\ h[s] = Cardinality(ahead[s]) /\ h[s] \in 0..(k - 1)
    BY <1>2
  <2>2. h \in [G -> 0..(k - 1)]
    BY <2>1
  <2> HIDE DEF G, h
  <2> QED
    BY <2>1, <2>2, <1>4 DEF Injection, IsInjective
<1>11. h \in Surjection(G, 0..(k - 1))
  <2>1. ASSUME NEW i \in 0..(k - 1) PROVE \E s \in G : h[s] = i
    <3>1. i \in 0..(n - 1)
      BY <1>1, <1>8
    <3>2. PICK s \in C : rank[s] = i
      BY <3>1, <1>7 DEF Surjection
    <3>3. Cardinality(ahead[s]) = i /\ i < k
      BY <3>2
    <3> QED
      BY <3>2, <3>3
  <2>2. h \in [G -> 0..(k - 1)]
    BY <1>10 DEF Injection
  <2> HIDE DEF G, h
  <2> QED
    BY <2>1, <2>2 DEF Surjection
<1>12. Cardinality(G) = Cardinality(0..(k - 1))
  <2> HIDE DEF G, h
  <2> QED
    BY <1>9, <1>10, <1>11, FS_Injection
<1> QED
  BY <1>9, <1>12

\* The gaps, of the weakest skills first.
LEMMA GapsFollow == StateInv => GapsAreOfWeakest
<1> SUFFICES ASSUME StateInv, NEW v \in DOMAIN versions, HasBreakdown(v), NEW s \in Gaps(v)
             PROVE  LET agg == versions[v].aggregation  u == agg.subjects[SubjectIn(agg, s)] IN
                    s # u.strongest /\ (u.weakest \in Gaps(v) \/ Cardinality(Gaps(v)) = MaxGaps)
  BY DEF GapsAreOfWeakest
<1> DEFINE st == versions[v]  agg == st.aggregation  names == DOMAIN agg.subjects  f == ScoreOf(st)
           C == GapCandidates(v)  x == SubjectIn(agg, s)  u == agg.subjects[x]  w == u.weakest
           short(r) == Shortfall(v, r)
           ahead == [r \in C |-> {q \in C : short(q) > short(r) \/ (short(q) = short(r) /\ q < r)}]
<1>1. /\ DOMAIN agg.skills = ScoredIn(st)
      /\ \A r \in ScoredIn(st) :
           /\ r \in Skills /\ f[r] \in Nat /\ f[r] = st.skills[r].measure.score
           /\ SubjectIn(agg, r) \in names /\ r \in agg.subjects[SubjectIn(agg, r)].skills
           /\ \A y \in names : r \in agg.subjects[y].skills => y = SubjectIn(agg, r)
      /\ \A y \in names : agg.subjects[y].skills \subseteq ScoredIn(st) /\ Extremes(f, agg.subjects[y])
  BY BreakdownOf DEF HasBreakdown
<1>2. /\ C = {r \in ScoredIn(st) : short(r) > GapThreshold /\ st.skills[r].measure.score < AbsoluteThreshold}
      /\ \A r \in ScoredIn(st) : short(r) = agg.subjects[SubjectIn(agg, r)].mean - st.skills[r].measure.score
  BY <1>1 DEF GapCandidates, Shortfall
<1>3. Gaps(v) = {r \in C : Cardinality(ahead[r]) < MaxGaps}
  BY DEF Gaps
<1> HIDE DEF short, ahead, f, st
<1>4. \A r \in ScoredIn(st) : short(r) \in Int /\ r \in Nat /\ short(r) = agg.subjects[SubjectIn(agg, r)].mean - f[r]
  <2> SUFFICES ASSUME NEW r \in ScoredIn(st)
               PROVE  short(r) \in Int /\ r \in Nat /\ short(r) = agg.subjects[SubjectIn(agg, r)].mean - f[r]
    OBVIOUS
  <2> DEFINE y == SubjectIn(agg, r)
  <2>1. f[r] \in Nat /\ f[r] = st.skills[r].measure.score /\ r \in Nat /\ y \in names
    BY <1>1, LearnerStateAssumption
  <2>2. agg.subjects[y].mean \in Nat
    BY <1>1, <2>1 DEF Extremes
  <2>3. short(r) = agg.subjects[y].mean - st.skills[r].measure.score
    BY <1>2
  <2> QED
    BY <2>1, <2>2, <2>3
<1>5. s \in C /\ s \in ScoredIn(st) /\ x \in names
  BY <1>1, <1>2, <1>3
<1>6. /\ s \in u.skills /\ Extremes(f, u) /\ u.skills \subseteq ScoredIn(st)
      /\ w \in ScoredIn(st) /\ SubjectIn(agg, w) = x
  <2>1. s \in u.skills /\ Extremes(f, u) /\ u.skills \subseteq ScoredIn(st)
    BY <1>1, <1>5
  <2>2. w \in u.skills /\ w \in ScoredIn(st)
    BY <2>1 DEF Extremes
  <2>3. x = SubjectIn(agg, w)
    <3> HIDE DEF w, x
    <3>1. \A y \in names : w \in agg.subjects[y].skills => y = SubjectIn(agg, w)
      BY <1>1, <2>2
    <3> QED
      BY <3>1, <2>2, <1>5
  <2> QED
    BY <2>1, <2>2, <2>3
<1> HIDE DEF agg, C, x
<1>7. s # u.strongest
  <2>1. u.mean - f[s] > GapThreshold /\ GapThreshold \in Nat /\ f[s] \in Nat /\ u.mean \in Nat
    BY <1>1, <1>2, <1>4, <1>5, <1>6, LearnerReportAssumption DEF Extremes, x
  <2>2. u.mean <= f[u.strongest]
    BY <1>6 DEF Extremes
  <2> QED
    BY <2>1, <2>2
<1>8. w \in C
  <2>1. f[w] <= f[s] /\ f[w] \in Nat /\ f[s] \in Nat /\ u.mean \in Nat
        /\ f[w] = st.skills[w].measure.score /\ f[s] = st.skills[s].measure.score
    BY <1>1, <1>5, <1>6 DEF Extremes
  <2>2. short(w) = u.mean - f[w] /\ short(s) = u.mean - f[s]
    BY <1>4, <1>5, <1>6 DEF x
  <2>3. short(s) > GapThreshold /\ f[s] < AbsoluteThreshold /\ GapThreshold \in Int /\ AbsoluteThreshold \in Int
    BY <2>1, <1>2, <1>5, LearnerReportAssumption
  <2>4. short(w) > GapThreshold /\ f[w] < AbsoluteThreshold
    BY <2>1, <2>2, <2>3
  <2> QED
    BY <2>1, <2>4, <1>2, <1>6
<1>9. ASSUME w \notin Gaps(v) PROVE Cardinality(Gaps(v)) = MaxGaps
  <2>1. IsFiniteSet(C)
    <3>1. C \subseteq Skills
      BY <1>1, <1>2
    <3> QED
      BY <3>1, LearnerStateAssumption, FS_Subset
  <2>2. ahead \in [C -> SUBSET C]
    BY DEF ahead
  <2>3. \A r \in C : short(r) \in Int /\ r \in Int
    BY <1>2, <1>4
  <2>4. \A r, q \in C : q \in ahead[r] <=> short(q) > short(r) \/ (short(q) = short(r) /\ q < r)
    BY DEF ahead
  <2>5. \A r \in C : r \notin ahead[r]
    BY <2>3, <2>4
  <2>6. \A r, q \in C : q \in ahead[r] => ahead[q] \subseteq ahead[r]
    <3> SUFFICES ASSUME NEW r \in C, NEW q \in C, q \in ahead[r], NEW y \in C, y \in ahead[q] PROVE y \in ahead[r]
      BY <2>2
    <3> QED
      BY <2>3, <2>4
  <2>7. \A r, q \in C : r # q => r \in ahead[q] \/ q \in ahead[r]
    BY <2>3, <2>4
  <2>8. MaxGaps \in Nat /\ ~(Cardinality(ahead[w]) < MaxGaps)
    BY <1>3, <1>8, <1>9, LearnerReportAssumption
  <2>9. Cardinality({r \in C : Cardinality(ahead[r]) < MaxGaps}) = MaxGaps
    <3> HIDE DEF w
    <3> QED
      BY <2>1, <2>2, <2>5, <2>6, <2>7, <2>8, <1>8, FirstOnes
  <2> QED
    BY <2>9, <1>3
<1> QED
  BY <1>7, <1>9 DEF x, agg, st

\* A learner who is flagged.
LEMMA FlagFollows == StateInv => FlaggedHasEvidence
<1> SUFFICES ASSUME StateInv, NEW v \in DOMAIN versions, HasBreakdown(v),
                    Flagged(v, MinAdvance + 1, MinAdvance + 1)
             PROVE  /\ Gaps(v) = {}
                    /\ \A s \in DOMAIN versions[v].aggregation.skills :
                         \/ Cardinality(Scoring(s, v)) >= MinEvidence
                         \/ \E u \in Scoring(s, v) : merged[u].first < merged[u].base
  BY DEF FlaggedHasEvidence
<1> DEFINE st == versions[v]  agg == st.aggregation
<1>1. /\ DOMAIN agg.skills = ScoredIn(st)
      /\ \A s \in ScoredIn(st) : /\ s \in Skills /\ st.skills[s].measure.score \in Nat
                                 /\ agg.skills[s].evidence = st.skills[s].evidence
  BY BreakdownOf DEF HasBreakdown
<1>2. \A s \in ScoredIn(st) : st.skills[s].measure.score >= GiftedMastery /\ agg.skills[s].evidence >= MinEvidence
  BY <1>1 DEF Flagged
<1>3. GapCandidates(v) = {}
  <2> SUFFICES ASSUME NEW s \in GapCandidates(v) PROVE FALSE
    OBVIOUS
  <2>1. s \in ScoredIn(st) /\ st.skills[s].measure.score < AbsoluteThreshold
    BY <1>1 DEF GapCandidates
  <2>2. AbsoluteThreshold \in Nat /\ GiftedMastery \in Nat /\ AbsoluteThreshold <= GiftedMastery
    BY LearnerReportAssumption
  <2>3. st.skills[s].measure.score \in Nat /\ st.skills[s].measure.score >= GiftedMastery
    BY <2>1, <1>1, <1>2
  <2> QED
    BY <2>1, <2>2, <2>3
<1>4. Gaps(v) = {}
  BY <1>3 DEF Gaps
<1>5. ASSUME NEW s \in DOMAIN agg.skills, ~\E u \in Scoring(s, v) : merged[u].first < merged[u].base
      PROVE  Cardinality(Scoring(s, v)) >= MinEvidence
  <2>1. \A u \in Scoring(s, v) : ~Recounted(u, s)
    BY <1>5 DEF Recounted
  <2>2. s \in Skills /\ EvidenceIsCounted
    BY <1>1 DEF StateInv
  <2>3. st.skills[s].evidence = Cardinality(Scoring(s, v))
    BY <2>1, <2>2 DEF EvidenceIsCounted
  <2>4. st.skills[s].evidence >= MinEvidence
    BY <1>1, <1>2
  <2> QED
    BY <2>3, <2>4
<1> QED
  BY <1>4, <1>5

--------------------------------------------------------------------------------
\* Where the state kept its skill and the skill its score, the top level is the skill.
LEMMA SkillIsTop ==
    ASSUME StateInv, NEW v \in DOMAIN versions, SameSkill(v)
    PROVE  LET st == versions[v]  s == st.skill IN
           /\ s \in Skills /\ st.skills[s].present /\ st.has
           /\ st.skills[s].measure.direction = st.top.direction
<1> DEFINE st == versions[v]  old == Before(v)  s == st.skill  b == merged[v].base
<1>0. old.skill = s /\ s # 0 /\ st.skills[s].measure.score # None /\ old.skills[s].measure.score # None
  BY DEF SameSkill
<1>2. /\ IsState(st) /\ b \in Nat /\ (b # 0 => b \in DOMAIN versions)
      /\ old = IF b = 0 THEN Empty ELSE versions[b]
      /\ TopFollows(old.top, st.top)
  BY TopOf
<1>3. b # 0
  <2>2. Empty.skill = 0
    BY DEF Empty
  <2> HIDE DEF old
  <2> QED
    BY <1>0, <2>2, <1>2
<1>4. st.top.score = st.skills[s].measure.score /\ old.top.score = old.skills[s].measure.score
  <2>1. \A x \in DOMAIN versions : versions[x].skill # 0 /\ versions[x].skills[versions[x].skill].measure.score # None
                                   => versions[x].top.score = versions[x].skills[versions[x].skill].measure.score
    BY DEF StateInv, TopScoreIsOfSkill
  <2> QED
    BY <2>1, <1>0, <1>2, <1>3
<1>6. st.top.direction = DirectionOf(old.top.score, st.top.score)
  BY <1>0, <1>2, <1>4 DEF TopFollows
<1>7. s \in Skills
  BY <1>0, <1>2 DEF IsState
<1>8. st.skills[s].measure.direction = st.top.direction
  <2>1. DeltaHasBaseline
    BY DEF StateInv
  <2> QED
    BY <2>1, <1>0, <1>4, <1>6, <1>7 DEF DeltaHasBaseline
<1>9. st.skills[s].present /\ st.has
  <2>1. st.skills[s] # NoEntry
    BY <1>0 DEF NoEntry, NoMeasure
  <2>2. st.skills[s].present
    BY <2>1, <1>2, <1>7 DEF IsState
  <2>3. SkillsHeld(st)
    BY DEF StateInv, VersionTold
  <2> QED
    BY <2>2, <2>3, <1>7 DEF SkillsHeld
<1> QED
  BY <1>7, <1>8, <1>9

\* A learner whom the roster shows as improving, and one who made progress in the own skill.
LEMMA TrendFollows == StateInv => TrendNamesSkill
<1> SUFFICES ASSUME StateInv, NEW v \in DOMAIN versions, NEW o \in Others, SameSkill(v)
             PROVE  /\ Trend(v, o) = "improving" /\ ~CardImproving(v, o) => versions[v].top.direction = "none"
                    /\ versions[v].skill \in Progress(v, o) => Trend(v, o) = "improving"
  BY DEF TrendNamesSkill
<1> DEFINE st == versions[v]  s == st.skill
<1>1. /\ s \in Skills /\ st.skills[s].present /\ st.has
      /\ st.skills[s].measure.direction = st.top.direction
  BY SkillIsTop
<1>2. ASSUME Trend(v, o) = "improving", st.top.direction # "none" PROVE CardImproving(v, o)
  <2>1. st.top.direction = "improving"
    BY <1>2 DEF Trend, FirstOf
  <2>2. [of |-> s, mastery |-> st.skills[s].measure, stability |-> o.skills[s]] \in SkillRows(v, o)
    BY <1>1 DEF SkillRows
  <2> QED
    BY <2>1, <2>2, <1>1 DEF CardImproving
<1>3. ASSUME s \in Progress(v, o) PROVE Trend(v, o) = "improving"
  <2>1. \A row \in SkillRows(v, o) : row.of = s => row.mastery = st.skills[s].measure
    BY <1>1 DEF SkillRows
  <2>2. st.top.direction = "improving"
    BY <2>1, <1>1, <1>3 DEF Progress
  <2> QED
    BY <2>2 DEF Trend, FirstOf
<1> QED
  BY <1>2, <1>3

\* What is reported beside mastery: numbers, and no direction without a number.
LEMMA OthersAre ==
    ASSUME NEW o \in Others
    PROVE  /\ o.stability.score # None => o.stability.score \in Nat
           /\ o.risk.score # None => o.risk.score \in Nat
           /\ o.stability.direction # "none" => o.stability.score # None
           /\ \A s \in Skills : o.skills[s].direction # "none" => o.skills[s].score # None
<1>1. /\ o.stability \in Reported /\ o.risk \in Reported /\ o.skills \in [Skills -> Reported]
  BY LearnerViewsAssumption
<1>2. \A r \in Reported : (r.score # None => r.score \in Nat) /\ (r.direction # "none" => r.score # None)
  BY LearnerStateAssumption DEF Reported
<1> QED
  BY <1>1, <1>2

\* Fields with an area are a problem area, whatever the breakdown has.
LEMMA AreaOfFields ==
    ASSUME NEW v, NEW o, FieldAreas(v, o) # {}
    PROVE  ProblemAreas(v, o).areas # {}
BY DEF ProblemAreas

\* The status "At risk" is of a field that is an area.
LEMMA RiskIs ==
    ASSUME NEW v, NEW o \in Others, AtRisk(o)
    PROVE  ProblemAreas(v, o).areas # {}
<1>1. /\ {RiskBelow, AtRiskFrom, RetentionBelow, ElevatedFrom} \subseteq Nat
      /\ RiskBelow <= RetentionBelow /\ ElevatedFrom <= AtRiskFrom
  BY LearnerViewsAssumption
<1>2. /\ o.stability.score # None => o.stability.score \in Nat
      /\ o.risk.score # None => o.risk.score \in Nat
  BY OthersAre
<1>3. CASE AtLeast(o.risk.score, AtRiskFrom)
  <2>1. AtLeast(o.risk.score, ElevatedFrom)
    BY <1>1, <1>2, <1>3 DEF AtLeast
  <2>2. "Regression risk" \in FieldAreas(v, o)
    BY <2>1 DEF FieldAreas
  <2> QED
    BY <2>2, AreaOfFields
<1>4. CASE Below(o.stability.score, RiskBelow)
  <2>1. Below(o.stability.score, RetentionBelow)
    BY <1>1, <1>2, <1>4 DEF Below
  <2>2. "Retention" \in FieldAreas(v, o)
    BY <2>1 DEF FieldAreas
  <2> QED
    BY <2>2, AreaOfFields
<1> QED
  BY <1>3, <1>4 DEF AtRisk

\* A decline in the roster is an area, but for one of mastery that is not low.
LEMMA DeclineIs ==
    ASSUME StateInv, NEW v \in DOMAIN versions, NEW o \in Others, Trend(v, o) = "declining",
           ~(versions[v].top.direction = "declining" /\ versions[v].top.score >= StruggleBelow)
    PROVE  ProblemAreas(v, o).areas # {}
<1> DEFINE top == versions[v].top
<1>1. top \in Measures /\ TopFollows(Before(v).top, top) /\ StruggleBelow \in Nat
  BY TopOf, LearnerViewsAssumption
<1>2. CASE top.direction = "declining"
  <2>1. top.score # None /\ top.score \in Nat
    BY <1>1, <1>2, LearnerStateAssumption DEF TopFollows, Measures
  <2>2. Below(top.score, StruggleBelow)
    BY <1>1, <1>2, <2>1 DEF Below
  <2>3. FieldDirection(MasteryField(v)) # "improving"
    BY <1>2 DEF FieldDirection, MasteryField, FirstOf
  <2>4. "Proficiency" \in FieldAreas(v, o)
    BY <2>2, <2>3 DEF FieldAreas
  <2> QED
    BY <2>4, AreaOfFields
<1>3. CASE top.direction # "declining"
  <2>1. o.stability.direction = "declining"
    BY <1>3 DEF Trend, FirstOf
  <2>2. Falling(o.stability)
    BY <2>1, OthersAre DEF Falling, FieldDirection, FirstOf
  <2>3. "Retention" \in FieldAreas(v, o)
    BY <2>2 DEF FieldAreas
  <2> QED
    BY <2>3, AreaOfFields
<1> QED
  BY <1>2, <1>3

\* The same of the statuses by their names.
LEMMA StatusFollows == StateInv => StatusHasArea
<1> SUFFICES ASSUME StateInv, NEW v \in DOMAIN versions, NEW o \in Others,
                    Status(v, o) \in {"At risk", "Needs attention"}, ProblemAreas(v, o).areas = {}
             PROVE  /\ Status(v, o) = "Needs attention"
                    /\ versions[v].top.direction = "declining" /\ versions[v].top.score >= StruggleBelow
  BY DEF StatusHasArea
<1>1. ~AtRisk(o)
  BY RiskIs
<1>2. Status(v, o) = "Needs attention" /\ Trend(v, o) = "declining"
  BY <1>1 DEF Status
<1> QED
  BY <1>2, DeclineIs

\* A decline of a skill, and the queue of the version computed on it.
LEMMA AreasLag == StateInv => AreasLagBehind
<1> SUFFICES ASSUME StateInv, NEW v \in DOMAIN versions, NEW o \in Others, NEW s \in Skills
             PROVE  LET declined == merged[v].base > 0 /\ Before(v).skills[s].measure.direction = "declining" IN
                    /\ declined /\ versions[v].skills[s].measure.score # None => ProblemAreas(v, o).areas # {}
                    /\ ProblemAreas(v, o).from = "skills" /\ s \in ProblemAreas(v, o).areas =>
                         versions[v].skills[s].measure.score < StruggleBelow \/ declined
  BY DEF AreasLagBehind
<1> DEFINE st == versions[v]  agg == st.aggregation  old == Before(v)  b == merged[v].base
<1>1. agg # NoAggregation => \A r \in DOMAIN agg.skills : agg.skills[r].direction = old.skills[r].measure.direction
  BY DEF StateInv, AggregationLagsBehind
<1>2. ASSUME old.skills[s].measure.direction = "declining", st.skills[s].measure.score # None
      PROVE  ProblemAreas(v, o).areas # {}
  <2>1. IsState(st) /\ BrokenDown(st)
    BY DEF StateInv, VersionSound, VersionTold
  <2>2. s \in ScoredIn(st)
    BY <1>2 DEF ScoredIn
  <2>3. agg # NoAggregation /\ s \in DOMAIN agg.skills
    BY <2>1, <2>2 DEF BrokenDown
  <2>4. st.skills[s].present
    BY <2>1, <1>2 DEF IsState, NoEntry, NoMeasure
  <2>5. HasBreakdown(v)
    BY <2>3, <2>4 DEF HasBreakdown
  <2>6. s \in SkillAreas(v)
    BY <2>3, <1>1, <1>2 DEF SkillAreas
  <2> QED
    BY <2>5, <2>6 DEF ProblemAreas
<1>3. ASSUME ProblemAreas(v, o).from = "skills", s \in ProblemAreas(v, o).areas,
             ~(st.skills[s].measure.score < StruggleBelow)
      PROVE  b > 0 /\ old.skills[s].measure.direction = "declining"
  <2>1. HasBreakdown(v) /\ s \in SkillAreas(v)
    BY <1>3 DEF ProblemAreas
  <2>2. agg # NoAggregation /\ s \in DOMAIN agg.skills
    BY <2>1 DEF HasBreakdown, SkillAreas
  <2>3. agg.skills[s].direction = "declining"
    BY <2>1, <1>3 DEF SkillAreas
  <2>4. old.skills[s].measure.direction = "declining"
    BY <2>2, <2>3, <1>1
  <2>5. b \in Nat /\ old = IF b = 0 THEN Empty ELSE versions[b]
    BY TopOf
  <2>6. b # 0
    BY <2>4, <2>5 DEF Empty, NoEntry, NoMeasure
  <2> QED
    BY <2>4, <2>5, <2>6
<1> QED
  BY <1>2, <1>3

\* Retention, in the queue, and struggles, on the tab.
LEMMA RetentionFollows == StateInv => RetentionIsStruggle
<1> SUFFICES ASSUME StateInv, NEW v \in DOMAIN versions, NEW o \in Others
             PROVE  /\ Below(o.stability.score, RiskBelow) /\ Struggles(v, o) = {} =>
                         versions[v].has /\ \A s \in Skills : versions[v].skills[s].present => o.skills[s].score # o.stability.score
                    /\ ~versions[v].has /\ ~(o.stability.direction = "none" /\ o.stability.overall = "declining") =>
                         (Struggles(v, o) # {} <=> "Retention" \in ProblemAreas(v, o).areas)
  BY DEF RetentionIsStruggle
<1> DEFINE st == versions[v]  x == o.stability
           low(y) == y.direction = "declining" \/ Below(y.score, RetentionBelow)
<1>1. {RiskBelow, RetentionBelow} \subseteq Nat /\ RiskBelow <= RetentionBelow
  BY LearnerViewsAssumption
<1>2. (x.score # None => x.score \in Nat) /\ (x.direction # "none" => x.score # None)
  BY OthersAre
<1>3. Below(x.score, RiskBelow) => Below(x.score, RetentionBelow) /\ x.score # None
  BY <1>1, <1>2 DEF Below
<1>4. ~st.has => (Struggles(v, o) # {} <=> low(x))
  <2> SUFFICES ASSUME ~st.has PROVE Struggles(v, o) # {} <=> low(x)
    OBVIOUS
  <2>1. ASSUME low(x) PROVE Struggles(v, o) # {}
    <3>1. x.score # None
      BY <2>1, <1>2 DEF Below
    <3>2. [of |-> 0, mastery |-> st.top, stability |-> x] \in SkillRows(v, o)
      BY <3>1 DEF SkillRows
    <3>3. 0 \in Struggles(v, o)
      BY <3>2, <2>1 DEF Struggles
    <3> QED
      BY <3>3
  <2>2. ASSUME Struggles(v, o) # {} PROVE low(x)
    <3>1. PICK row \in SkillRows(v, o) : low(row.stability)
      BY <2>2 DEF Struggles
    <3>2. row.stability = x
      BY <3>1 DEF SkillRows
    <3> QED
      BY <3>1, <3>2
  <2> QED
    BY <2>1, <2>2
<1>5. ASSUME Below(x.score, RiskBelow), Struggles(v, o) = {}
      PROVE  st.has /\ \A s \in Skills : st.skills[s].present => o.skills[s].score # x.score
  <2>1. st.has
    BY <1>3, <1>4, <1>5
  <2>2. ASSUME NEW s \in Skills, st.skills[s].present, o.skills[s].score = x.score PROVE FALSE
    <3>1. [of |-> s, mastery |-> st.skills[s].measure, stability |-> o.skills[s]] \in SkillRows(v, o)
      BY <2>1, <2>2 DEF SkillRows
    <3>2. low(o.skills[s])
      BY <2>2, <1>3, <1>5
    <3>3. s \in Struggles(v, o)
      BY <3>1, <3>2 DEF Struggles
    <3> QED
      BY <3>3, <1>5
  <2> QED
    BY <2>1, <2>2
<1>6. ASSUME ~st.has, ~(x.direction = "none" /\ x.overall = "declining")
      PROVE  low(x) <=> "Retention" \in ProblemAreas(v, o).areas
  <2>1. ~HasBreakdown(v)
    <3>1. SkillsHeld(st)
      BY DEF StateInv, VersionTold
    <3> QED
      BY <3>1, <1>6 DEF SkillsHeld, HasBreakdown
  <2>2. ProblemAreas(v, o).areas = FieldAreas(v, o)
    BY <2>1 DEF ProblemAreas
  <2>3. "Retention" \in FieldAreas(v, o) <=> Below(x.score, RetentionBelow) \/ Falling(x)
    BY DEF FieldAreas
  <2>4. Falling(x) <=> x.direction = "declining"
    BY <1>2, <1>6 DEF Falling, FieldDirection, FirstOf
  <2> QED
    BY <2>2, <2>3, <2>4
<1> QED
  BY <1>4, <1>5, <1>6

\* What the trajectory, the summary, the breakdown, the roster, the attention queue and the
\* struggles tab say of a learner follows from the stored versions and does not contradict
\* itself, but for the named cases, for every set of skills, scores and subjects, all limits
\* and thresholds, and any number of signals and conflicts.
THEOREM ReportsAlwaysFollow == StateSpec => []ReportsFollowState
<1>1. StateInv => ReportsFollowState
  BY OverallStep, OrphansFollow, GapsFollow, FlagFollows, TrendFollows, StatusFollows, AreasLag,
     RetentionFollows, BoundsHold
     DEF ReportsFollowState
<1> QED
  BY <1>1, InitState, StateStepKeeps, PTL DEF StateSpec
--------------------------------------------------------------------------------
\* The checks of a payload.  Paths, of any keys, by what they lead to.
Leads(s, t) == Len(s) <= Len(t) /\ \A i \in 1..Len(s) : s[i] = t[i]
LEMMA PrefixLeads ==
    ASSUME NEW K, NEW s \in Seq(K), NEW t \in Seq(K)
    PROVE  IsPrefix(s, t) <=> Leads(s, t)
<1>1. Len(s) \in Nat /\ Len(t) \in Nat /\ DOMAIN s = 1..Len(s) /\ DOMAIN t = 1..Len(t)
  OBVIOUS
<1>2. ASSUME Len(s) <= Len(t)
      PROVE  SubSeq(s, 1, Len(s)) = SubSeq(t, 1, Len(s)) <=> \A i \in 1..Len(s) : s[i] = t[i]
  <2> DEFINE a == SubSeq(s, 1, Len(s))
             b == SubSeq(t, 1, Len(s))
  <2>1. a = [i \in 1..Len(s) |-> s[i]]
    BY <1>1
  <2>2. b = [i \in 1..Len(s) |-> t[i]]
    BY <1>1, <1>2
  <2> HIDE DEF a, b
  <2>3. (\A i \in 1..Len(s) : s[i] = t[i]) => a = b
    BY <2>1, <2>2
  <2>4. ASSUME a = b, NEW i \in 1..Len(s) PROVE s[i] = t[i]
    <3>1. a[i] = s[i] /\ b[i] = t[i]
      BY <2>1, <2>2
    <3> QED
      BY <2>4, <3>1
  <2> QED
    BY <2>3, <2>4 DEF a, b
<1> QED
  BY <1>2 DEF IsPrefix, Leads

\* Being a prefix is an order, and two prefixes of one path are prefixes of one another.
PrefixOrdered(s, t, u) ==
  /\ IsPrefix(s, s)
  /\ IsPrefix(s, t) /\ IsPrefix(t, u) => IsPrefix(s, u)
  /\ IsPrefix(s, t) /\ IsPrefix(t, s) => s = t
  /\ IsPrefix(s, u) /\ IsPrefix(t, u) => IsPrefix(s, t) \/ IsPrefix(t, s)
LEMMA PrefixOrder ==
    ASSUME NEW K, NEW s \in Seq(K), NEW t \in Seq(K), NEW u \in Seq(K)
    PROVE  PrefixOrdered(s, t, u)
<1>1. Len(s) \in Nat /\ Len(t) \in Nat /\ Len(u) \in Nat
  OBVIOUS
<1>2. /\ IsPrefix(s, s) <=> Leads(s, s)
      /\ IsPrefix(s, t) <=> Leads(s, t)
      /\ IsPrefix(t, s) <=> Leads(t, s)
      /\ IsPrefix(t, u) <=> Leads(t, u)
      /\ IsPrefix(s, u) <=> Leads(s, u)
  BY PrefixLeads
<1>3. Leads(s, s)
  BY <1>1 DEF Leads
<1>4. Leads(s, t) /\ Leads(t, u) => Leads(s, u)
  BY <1>1 DEF Leads
<1>5. ASSUME Leads(s, t), Leads(t, s) PROVE s = t
  <2>1. Len(s) = Len(t) /\ \A i \in 1..Len(s) : s[i] = t[i]
    BY <1>1, <1>5 DEF Leads
  <2>2. s = [i \in 1..Len(s) |-> s[i]] /\ t = [i \in 1..Len(t) |-> t[i]]
    OBVIOUS
  <2> QED
    BY <2>1, <2>2
<1>6. Leads(s, u) /\ Leads(t, u) => Leads(s, t) \/ Leads(t, s)
  BY <1>1 DEF Leads
<1> QED
  BY <1>2, <1>3, <1>4, <1>5, <1>6 DEF PrefixOrdered

\* A strict prefix leads to what lies above the last key.
LEMMA PrefixOfFront ==
    ASSUME NEW K, NEW s \in Seq(K), NEW t \in Seq(K), t # <<>>, IsPrefix(s, t), s # t
    PROVE  IsPrefix(s, Front(t))
<1>1. Len(s) \in Nat /\ Len(t) \in Nat \ {0}
  OBVIOUS
<1>2. Len(s) <= Len(t) /\ \A i \in 1..Len(s) : s[i] = t[i]
  BY PrefixLeads DEF Leads
<1>3. Len(s) # Len(t)
  <2> SUFFICES ASSUME Len(s) = Len(t) PROVE FALSE
    OBVIOUS
  <2>1. s = [i \in 1..Len(s) |-> s[i]] /\ t = [i \in 1..Len(t) |-> t[i]]
    OBVIOUS
  <2> QED
    BY <1>2, <2>1
<1> DEFINE f == Front(t)
<1>4. f \in Seq(K) /\ Len(f) = Len(t) - 1 /\ \A i \in 1..(Len(t) - 1) : f[i] = t[i]
  <2>1. PICK m \in Nat : m = Len(t) - 1 /\ m + 1 = Len(t)
    BY <1>1
  <2>2. f = SubSeq(t, 1, m)
    BY <2>1 DEF Front
  <2> HIDE DEF f
  <2>3. f = [i \in 1..m |-> t[i]]
    BY <2>1, <2>2
  <2>4. \A i \in 1..m : t[i] \in K
    BY <2>1
  <2>5. f \in Seq(K) /\ Len(f) = m
    BY <2>1, <2>3, <2>4
  <2> QED
    BY <2>1, <2>3, <2>5
<1> HIDE DEF f
<1>5. Leads(s, f)
  BY <1>1, <1>2, <1>3, <1>4 DEF Leads
<1>6. IsPrefix(s, f)
  BY <1>4, <1>5, PrefixLeads
<1> QED
  BY <1>6 DEF f

\* The beginnings of a path are its prefixes that have a key.
LEMMA Beginnings ==
    ASSUME NEW K, NEW r \in Seq(K), NEW q
    PROVE  q \in {SubSeq(r, 1, n) : n \in 1..Len(r)} <=> q \in Seq(K) /\ q # <<>> /\ IsPrefix(q, r)
<1>1. Len(r) \in Nat
  OBVIOUS
<1>2. ASSUME NEW n \in 1..Len(r), q = SubSeq(r, 1, n) PROVE q \in Seq(K) /\ q # <<>> /\ IsPrefix(q, r)
  <2>1. q \in Seq(K) /\ Len(q) = n /\ \A i \in 1..n : q[i] = r[i]
    BY <1>1, <1>2
  <2>2. q # <<>> /\ Leads(q, r)
    BY <1>1, <2>1 DEF Leads
  <2> QED
    BY <2>1, <2>2, PrefixLeads
<1>3. ASSUME q \in Seq(K), q # <<>>, IsPrefix(q, r) PROVE \E n \in 1..Len(r) : q = SubSeq(r, 1, n)
  <2>1. Len(q) \in 1..Len(r) /\ \A i \in 1..Len(q) : q[i] = r[i]
    BY <1>1, <1>3, PrefixLeads DEF Leads
  <2> DEFINE b == SubSeq(r, 1, Len(q))
  <2>2. b = [i \in 1..Len(q) |-> r[i]]
    BY <1>1, <2>1
  <2> HIDE DEF b
  <2>3. q = [i \in 1..Len(q) |-> q[i]]
    BY <1>3
  <2>4. q = b
    BY <2>1, <2>2, <2>3
  <2> QED
    BY <2>1, <2>4 DEF b
<1> QED
  BY <1>2, <1>3

\* A path is a prefix of a leaf of an object.
Covered(p, q) == \E r \in DOMAIN p : IsPrefix(q, r)
HitsOf(hits, p) == \A q : q \in hits <=> q \in Paths /\ Covered(p, q) /\ KeyClass[Last(q)] # "plain"
LEMMA HitsAre ==
    ASSUME NEW p, DOMAIN p \subseteq Paths
    PROVE  HitsOf(Hits(p), p)
<1> DEFINE Begin(r) == {SubSeq(r, 1, n) : n \in 1..Len(r)}
<1>1. \A q : q \in Hits(p) <=> (\E r \in DOMAIN p : q \in Begin(r)) /\ KeyClass[Last(q)] # "plain"
  BY DEF Hits
<1>2. ASSUME NEW r \in DOMAIN p, NEW q PROVE q \in Begin(r) <=> q \in Paths /\ IsPrefix(q, r)
  <2>1. r \in Seq(DOMAIN KeyClass)
    BY DEF Paths
  <2>2. q \in Begin(r) <=> q \in Seq(DOMAIN KeyClass) /\ q # <<>> /\ IsPrefix(q, r)
    BY <2>1, Beginnings
  <2> QED
    BY <2>2 DEF Paths
<1> HIDE DEF Begin
<1> QED
  BY <1>1, <1>2 DEF HitsOf, Covered

\* What is written is a leaf, what lies above it or below it is none any more, and the rest stays.
WrittenAt(f, p, path) ==
  /\ IsObject(f)
  /\ \A r \in DOMAIN f : r = path \/ r \in DOMAIN p
  /\ \A q \in Paths : Covered(p, q) => Covered(f, q) \/ (IsPrefix(path, q) /\ path # q)
  /\ \A q \in Paths : At(f, q) = At(p, q) \/ IsPrefix(path, q) \/ IsPrefix(q, path)
LEMMA SetAtWrites ==
    ASSUME NEW p, IsObject(p), NEW path \in Paths, NEW v
    PROVE  WrittenAt(SetAt(p, path, v), p, path)
<1> DEFINE kept == {q \in DOMAIN p : ~IsPrefix(path, q) /\ ~IsPrefix(q, path)}
           f == SetAt(p, path, v)
<1>1. DOMAIN f = kept \cup {path} /\ \A q \in kept : q # path => f[q] = p[q]
  BY DEF SetAt
<1>2. \A q \in kept : q \in DOMAIN p /\ ~IsPrefix(path, q) /\ ~IsPrefix(q, path)
  OBVIOUS
<1>3. \A q \in DOMAIN p : q \in kept \/ IsPrefix(path, q) \/ IsPrefix(q, path)
  OBVIOUS
<1> HIDE DEF kept, f
<1>4. \A s, t, u \in Paths : PrefixOrdered(s, t, u)
  BY PrefixOrder DEF Paths
<1>5. DOMAIN p \subseteq Paths /\ \A q, r \in DOMAIN p : q # r => ~IsPrefix(q, r)
  BY DEF IsObject
<1>6. IsPrefix(path, path)
  BY <1>4 DEF PrefixOrdered
<1>7. \A q \in kept : q # path
  BY <1>2, <1>6
<1>8. IsObject(f)
  <2>1. DOMAIN f \subseteq Paths
    BY <1>1, <1>2, <1>5
  <2>2. ASSUME NEW q \in DOMAIN f, NEW r \in DOMAIN f, q # r PROVE ~IsPrefix(q, r)
    BY <1>1, <1>2, <1>5, <2>2
  <2> QED
    BY <2>1, <2>2 DEF IsObject
<1>9. \A r \in DOMAIN f : r = path \/ r \in DOMAIN p
  BY <1>1, <1>2
<1>10. ASSUME NEW q \in Paths, Covered(p, q) PROVE Covered(f, q) \/ (IsPrefix(path, q) /\ path # q)
  <2>1. PICK r \in DOMAIN p : IsPrefix(q, r)
    BY <1>10 DEF Covered
  <2>2. r \in Paths
    BY <1>5
  <2>3. CASE r \in kept
    <3>1. r \in DOMAIN f
      BY <1>1, <2>3
    <3> QED
      BY <2>1, <3>1 DEF Covered
  <2>4. CASE IsPrefix(path, r)
    <3>1. IsPrefix(path, q) \/ IsPrefix(q, path)
      BY <1>4, <2>1, <2>2, <2>4 DEF PrefixOrdered
    <3>2. path \in DOMAIN f
      BY <1>1
    <3> QED
      BY <1>6, <3>1, <3>2 DEF Covered
  <2>5. CASE IsPrefix(r, path)
    <3>1. IsPrefix(q, path)
      BY <1>4, <2>1, <2>2, <2>5 DEF PrefixOrdered
    <3>2. path \in DOMAIN f
      BY <1>1
    <3> QED
      BY <3>1, <3>2 DEF Covered
  <2> QED
    BY <1>3, <2>3, <2>4, <2>5
<1>11. ASSUME NEW q \in Paths, ~IsPrefix(path, q), ~IsPrefix(q, path) PROVE At(f, q) = At(p, q)
  <2>1. q # path
    BY <1>6, <1>11
  <2>2. q \in DOMAIN f <=> q \in DOMAIN p
    BY <1>1, <1>2, <1>3, <1>11, <2>1
  <2>3. q \in DOMAIN f => f[q] = p[q]
    BY <1>1, <2>1
  <2>4. ASSUME NEW r \in DOMAIN p, IsStrictPrefix(q, r) PROVE r \in DOMAIN f
    <3>1. r \in Paths /\ IsPrefix(q, r)
      BY <1>5, <2>4 DEF IsStrictPrefix
    <3>2. ~IsPrefix(path, r) /\ ~IsPrefix(r, path)
      BY <1>4, <1>11, <3>1 DEF PrefixOrdered
    <3> QED
      BY <1>1, <1>3, <3>2
  <2>5. ASSUME NEW r \in DOMAIN f, IsStrictPrefix(q, r) PROVE r \in DOMAIN p
    BY <1>9, <1>11, <2>5 DEF IsStrictPrefix
  <2>6. (\E r \in DOMAIN f : IsStrictPrefix(q, r)) <=> (\E r \in DOMAIN p : IsStrictPrefix(q, r))
    BY <2>4, <2>5
  <2>7. CASE q \in DOMAIN f
    <3>1. ~\E r \in DOMAIN p : IsStrictPrefix(q, r)
      BY <1>5, <2>2, <2>7 DEF IsStrictPrefix
    <3>2. At(p, q) = p[q] /\ At(f, q) = f[q]
      BY <2>2, <2>6, <2>7, <3>1 DEF At
    <3> QED
      BY <2>3, <2>7, <3>2
  <2>8. CASE q \notin DOMAIN f /\ \E r \in DOMAIN f : IsStrictPrefix(q, r)
    BY <2>2, <2>6, <2>8 DEF At
  <2>9. CASE q \notin DOMAIN f /\ ~\E r \in DOMAIN f : IsStrictPrefix(q, r)
    BY <2>2, <2>6, <2>9 DEF At
  <2> QED
    BY <2>7, <2>8, <2>9
<1> QED
  BY <1>8, <1>9, <1>10, <1>11 DEF WrittenAt, f

\* What lies above a leaf is present.
LEMMA AboveIsPresent ==
    ASSUME NEW p, IsObject(p), NEW q \in Paths, NEW path \in Paths, Covered(p, q), IsPrefix(path, q), path # q
    PROVE  IsPresent(p, path)
<1>1. PICK r \in DOMAIN p : IsPrefix(q, r)
  BY DEF Covered
<1>2. r \in Paths /\ \A a, b \in DOMAIN p : a # b => ~IsPrefix(a, b)
  BY DEF IsObject
<1>3. \A s, t, u \in Paths : PrefixOrdered(s, t, u)
  BY PrefixOrder DEF Paths
<1>4. IsPrefix(path, r)
  BY <1>1, <1>2, <1>3 DEF PrefixOrdered
<1>5. path # r
  BY <1>1, <1>2, <1>3 DEF PrefixOrdered
<1>6. path \notin DOMAIN p
  BY <1>2, <1>4, <1>5
<1>7. At(p, path) = [kind |-> "object"]
  BY <1>4, <1>5, <1>6 DEF At, IsStrictPrefix
<1> QED
  BY <1>7 DEF IsPresent

\* The steps of a mapping: one follows the other, and there is such a function.
StepAfter(acc, m, n) ==
  IF n \in 1..Len(m.aliases) THEN ApplyAlias(acc, m.aliases[n])
  ELSE ApplyTransform(acc, m.transforms[n - Len(m.aliases)], m.strict)
Follow(f, p, m, L) == f = [n \in 0..L |-> IF n = 0 THEN [payload |-> p, errors |-> {}] ELSE StepAfter(f[n - 1], m, n)]
LEMMA StepsExist ==
    ASSUME NEW p, NEW m, NEW L \in Nat
    PROVE  \E f : Follow(f, p, m, L)
<1> DEFINE T == {n \in Nat : ~\E f : Follow(f, p, m, n)}
           start == [payload |-> p, errors |-> {}]
<1> HIDE DEF start
<1>1. ASSUME T # {} PROVE FALSE
  <2>1. PICK n \in T : \A k \in T : n <= k
    <3>1. T \in SUBSET Nat
      OBVIOUS
    <3> HIDE DEF T
    <3> QED
      BY <3>1, <1>1, Smallest
  <2>2. CASE n = 0
    <3> DEFINE g == [k \in 0..0 |-> start]
    <3>1. \A k \in 0..0 : k = 0
      OBVIOUS
    <3>2. g = [k \in 0..0 |-> IF k = 0 THEN start ELSE StepAfter(g[k - 1], m, k)]
      BY <3>1
    <3> HIDE DEF g
    <3>3. Follow(g, p, m, 0)
      BY <3>2 DEF Follow, start
    <3> QED
      BY <3>3, <2>1, <2>2
  <2>3. CASE n # 0
    <3>1. n \in Nat
      BY <2>1
    <3>2. n - 1 \in Nat /\ n - 1 \notin T
      <4> HIDE DEF T
      <4> QED
        BY <3>1, <2>1, <2>3
    <3>3. PICK h : Follow(h, p, m, n - 1)
      BY <3>2
    <3> DEFINE g == [k \in 0..n |-> IF k = 0 THEN start ELSE StepAfter(h[k - 1], m, k)]
    <3>4. h = [k \in 0..(n - 1) |-> IF k = 0 THEN start ELSE StepAfter(h[k - 1], m, k)]
      BY <3>3 DEF Follow, start
    <3>5. \A k \in 0..(n - 1) : g[k] = h[k]
      BY <3>1, <3>2, <3>4
    <3>6. \A k \in 0..n : k # 0 => g[k - 1] = h[k - 1]
      BY <3>1, <3>2, <3>5
    <3>7. g = [k \in 0..n |-> IF k = 0 THEN start ELSE StepAfter(g[k - 1], m, k)]
      BY <3>6
    <3> HIDE DEF g
    <3>8. Follow(g, p, m, n)
      BY <3>7 DEF Follow, start
    <3> QED
      BY <3>8, <2>1
  <2> QED
    BY <2>2, <2>3
<1> QED
  BY <1>1

Stepwise(f, p, m, L) ==
  /\ f[0] = [payload |-> p, errors |-> {}]
  /\ \A n \in 1..L : f[n] = StepAfter(f[n - 1], m, n)
LEMMA StepsFollow ==
    ASSUME NEW p, NEW m, Len(m.aliases) \in Nat, Len(m.transforms) \in Nat
    PROVE  Stepwise(Steps(p, m), p, m, Len(m.aliases) + Len(m.transforms))
<1> DEFINE L == Len(m.aliases) + Len(m.transforms)
           start == [payload |-> p, errors |-> {}]
           f == Steps(p, m)
<1>1. L \in Nat
  <2>1. PICK a \in Nat, b \in Nat : a = Len(m.aliases) /\ b = Len(m.transforms)
    OBVIOUS
  <2>2. a + b \in Nat
    OBVIOUS
  <2> QED
    BY <2>1, <2>2
<1>2. f = CHOOSE step : step = [n \in 0..L |->
            CASE n = 0 -> start
              [] n \in 1..Len(m.aliases) -> ApplyAlias(step[n - 1], m.aliases[n])
              [] OTHER -> ApplyTransform(step[n - 1], m.transforms[n - Len(m.aliases)], m.strict)]
  BY DEF Steps
<1>3. PICK g : Follow(g, p, m, L)
  BY <1>1, StepsExist
<1> HIDE DEF start, L
<1>4. g = [n \in 0..L |-> IF n = 0 THEN start ELSE StepAfter(g[n - 1], m, n)]
  BY <1>3 DEF Follow, start, L
<1>5. \A a, n : n \in Nat => (CASE n = 0 -> start
              [] n \in 1..Len(m.aliases) -> ApplyAlias(a, m.aliases[n])
              [] OTHER -> ApplyTransform(a, m.transforms[n - Len(m.aliases)], m.strict))
        = (IF n = 0 THEN start ELSE StepAfter(a, m, n))
  BY DEF StepAfter
<1>6. g = [n \in 0..L |->
            CASE n = 0 -> start
              [] n \in 1..Len(m.aliases) -> ApplyAlias(g[n - 1], m.aliases[n])
              [] OTHER -> ApplyTransform(g[n - 1], m.transforms[n - Len(m.aliases)], m.strict)]
  <2> DEFINE e(n) == CASE n = 0 -> start
              [] n \in 1..Len(m.aliases) -> ApplyAlias(g[n - 1], m.aliases[n])
              [] OTHER -> ApplyTransform(g[n - 1], m.transforms[n - Len(m.aliases)], m.strict)
             d(n) == IF n = 0 THEN start ELSE StepAfter(g[n - 1], m, n)
  <2>1. \A n \in 0..L : e(n) = d(n)
    <3> SUFFICES ASSUME NEW n \in 0..L PROVE e(n) = d(n)
      OBVIOUS
    <3>1. n \in Nat
      BY <1>1
    <3> QED
      BY <1>5, <3>1
  <2>2. g = [n \in 0..L |-> d(n)]
    BY <1>4
  <2> HIDE DEF e, d
  <2>3. [n \in 0..L |-> d(n)] = [n \in 0..L |-> e(n)]
    BY <2>1
  <2>4. g = [n \in 0..L |-> e(n)]
    BY <2>2, <2>3
  <2> QED
    BY <2>4 DEF e
<1>7. f = [n \in 0..L |->
            CASE n = 0 -> start
              [] n \in 1..Len(m.aliases) -> ApplyAlias(f[n - 1], m.aliases[n])
              [] OTHER -> ApplyTransform(f[n - 1], m.transforms[n - Len(m.aliases)], m.strict)]
  <2> DEFINE P(step) == step = [n \in 0..L |->
            CASE n = 0 -> start
              [] n \in 1..Len(m.aliases) -> ApplyAlias(step[n - 1], m.aliases[n])
              [] OTHER -> ApplyTransform(step[n - 1], m.transforms[n - Len(m.aliases)], m.strict)]
  <2>1. f = (CHOOSE step : P(step)) /\ P(g)
    BY <1>2, <1>6
  <2>2. P(f)
    <3> HIDE DEF P, f
    <3> QED
      BY <2>1
  <2> QED
    BY <2>2
<1> HIDE DEF f
<1>8. f[0] = start
  <2>1. 0 \in 0..L
    BY <1>1
  <2> QED
    BY <1>7, <2>1
<1>9. ASSUME NEW n \in 1..L PROVE f[n] = StepAfter(f[n - 1], m, n)
  <2>1. n \in 0..L /\ n \in Nat /\ n # 0
    BY <1>1
  <2>2. f[n] = CASE n = 0 -> start
              [] n \in 1..Len(m.aliases) -> ApplyAlias(f[n - 1], m.aliases[n])
              [] OTHER -> ApplyTransform(f[n - 1], m.transforms[n - Len(m.aliases)], m.strict)
    BY <1>7, <2>1
  <2> QED
    BY <1>5, <2>1, <2>2
<1> QED
  BY <1>8, <1>9 DEF Stepwise, start, f, L

\* What an alias and a transform make of a payload and of the errors so far.
Unfit == "invalid_mapping_expression"
IsPair(acc) == acc = [payload |-> acc.payload, errors |-> acc.errors]
AliasDone(r, acc, path) ==
  /\ IsPair(r)
  /\ r.payload = acc.payload \/ (~IsPresent(acc.payload, path) /\ \E v : r.payload = SetAt(acc.payload, path, v))
  /\ Unfit \in r.errors => Unfit \in acc.errors
LEMMA AliasSets ==
    ASSUME NEW acc, IsPair(acc), NEW alias
    PROVE  AliasDone(ApplyAlias(acc, alias), acc, alias.canonical)
<1> DEFINE found == SelectSeq(alias.candidates, LAMBDA c : IsPresent(acc.payload, c))
           r == ApplyAlias(acc, alias)
           v == At(acc.payload, Head(found))
<1>1. r = CASE IsPresent(acc.payload, alias.canonical) \/ found = <<>> -> acc
            [] ~IsPresent(acc.payload, alias.canonical) /\ Len(found) = 1 ->
                 [acc EXCEPT !.payload = SetAt(@, alias.canonical, v)]
            [] OTHER -> [acc EXCEPT !.errors = @ \cup {"invalid_format"}]
  BY DEF ApplyAlias
<1> HIDE DEF found, r, v
<1>2. PICK P, E : acc = [payload |-> P, errors |-> E] /\ acc.payload = P /\ acc.errors = E
  BY DEF IsPair
<1>3. [acc EXCEPT !.payload = SetAt(@, alias.canonical, v)] = [payload |-> SetAt(P, alias.canonical, v), errors |-> E]
  BY <1>2
<1>4. [acc EXCEPT !.errors = @ \cup {"invalid_format"}] = [payload |-> P, errors |-> E \cup {"invalid_format"}]
  BY <1>2
<1>5. CASE r = acc
  BY <1>2, <1>5 DEF AliasDone, IsPair, r
<1>6. CASE r = [payload |-> SetAt(P, alias.canonical, v), errors |-> E] /\ ~IsPresent(P, alias.canonical)
  BY <1>2, <1>6 DEF AliasDone, IsPair, r
<1>7. CASE r = [payload |-> P, errors |-> E \cup {"invalid_format"}]
  <2>1. r.payload = P /\ r.errors = E \cup {"invalid_format"}
    BY <1>7
  <2>2. Unfit \in r.errors => Unfit \in E
    BY <2>1 DEF Unfit
  <2> QED
    BY <1>2, <1>7, <2>1, <2>2 DEF AliasDone, IsPair, r
<1>8. IsPresent(acc.payload, alias.canonical) = IsPresent(P, alias.canonical)
  BY <1>2
<1> QED
  BY <1>1, <1>3, <1>4, <1>5, <1>6, <1>7, <1>8

NumbersOf(P, t) == [n \in DOMAIN t.sources |-> ToNumber(At(P, t.sources[n]))]
TransformDone(r, acc, t) ==
  /\ IsPair(r)
  /\ r.payload = acc.payload \/ \E v : r.payload = SetAt(acc.payload, t.target, v)
  /\ Unfit \in r.errors =>
       Unfit \in acc.errors \/ (r.payload = acc.payload /\ Evaluate(t.expression, NumbersOf(acc.payload, t)) = Throws)
LEMMA TransformSets ==
    ASSUME NEW acc, IsPair(acc), NEW t, NEW strict \in BOOLEAN
    PROVE  TransformDone(ApplyTransform(acc, t, strict), acc, t)
<1> DEFINE missing == {n \in DOMAIN t.sources : ~IsPresent(acc.payload, t.sources[n])}
           result == Evaluate(t.expression, NumbersOf(acc.payload, t))
           r == ApplyTransform(acc, t, strict)
<1>1. r = CASE missing # {} /\ strict -> [acc EXCEPT !.errors = @ \cup {"missing_required_field"}]
            [] missing # {} /\ ~strict -> acc
            [] missing = {} /\ result = Throws -> [acc EXCEPT !.errors = @ \cup {"invalid_mapping_expression"}]
            [] OTHER -> [acc EXCEPT !.payload = SetAt(@, t.target, result)]
  BY DEF ApplyTransform, NumbersOf
<1> HIDE DEF missing, result, r
<1>2. PICK P, E : acc = [payload |-> P, errors |-> E] /\ acc.payload = P /\ acc.errors = E
  BY DEF IsPair
<1>3. [acc EXCEPT !.payload = SetAt(@, t.target, result)] = [payload |-> SetAt(P, t.target, result), errors |-> E]
  BY <1>2
<1>4. \A e : [acc EXCEPT !.errors = @ \cup {e}] = [payload |-> P, errors |-> E \cup {e}]
  BY <1>2
<1>5. CASE r = acc
  BY <1>2, <1>5 DEF TransformDone, IsPair, r
<1>6. CASE r = [payload |-> SetAt(P, t.target, result), errors |-> E]
  BY <1>2, <1>6 DEF TransformDone, IsPair, r
<1>7. CASE r = [payload |-> P, errors |-> E \cup {"missing_required_field"}]
  <2>1. r.payload = P /\ r.errors = E \cup {"missing_required_field"}
    BY <1>7
  <2>2. Unfit \in r.errors => Unfit \in E
    BY <2>1 DEF Unfit
  <2> QED
    BY <1>2, <1>7, <2>1, <2>2 DEF TransformDone, IsPair, r
<1>8. CASE r = [payload |-> P, errors |-> E \cup {"invalid_mapping_expression"}] /\ result = Throws
  BY <1>2, <1>8 DEF TransformDone, IsPair, r, result
<1> QED
  BY <1>1, <1>3, <1>4, <1>5, <1>6, <1>7, <1>8

\* An expression over all the variables it names throws on a variable that is no number, or divides.
KindsAre(e) == \A term \in {e.left, e.right} : {term.plus.kind, term.minus.kind} \subseteq {"const", "var"}
LEMMA ThrowsOnData ==
    ASSUME NEW e, KindsAre(e), NEW vars, VariablesOf(e) \subseteq DOMAIN vars, Evaluate(e, vars) = Throws
    PROVE  e.op = "over" \/ \E n \in DOMAIN vars : vars[n] = NaN
<1>1. \A x : Numeral(x) # NaN /\ Numeral(x) # Throws
  BY DEF Numeral, NaN, Throws
<1>2. ASSUME NEW o \in Operands(e), Operand(o, vars) = NaN PROVE \E n \in DOMAIN vars : vars[n] = NaN
  <2>1. o.kind \in {"const", "var"}
    BY DEF Operands, KindsAre
  <2>2. o.kind # "const"
    BY <1>1, <1>2 DEF Operand
  <2>3. o.name \in DOMAIN vars
    BY <2>1, <2>2 DEF VariablesOf
  <2> QED
    BY <1>2, <2>2, <2>3 DEF Operand
<1> DEFINE l == Difference(e.left, vars)
           r == Difference(e.right, vars)
<1>3. l = NaN \/ r = NaN \/ e.op = "over"
  <2>1. NaN \in {l, r} \/ (e.op = "over" /\ r = Numeral(0)) \/ Evaluate(e, vars) = Numeral(Calculate(e.op, l.value, r.value))
    BY DEF Evaluate
  <2> HIDE DEF l, r
  <2> QED
    BY <1>1, <2>1
<1>4. ASSUME NEW term \in {e.left, e.right}, Difference(term, vars) = NaN
      PROVE  \E n \in DOMAIN vars : vars[n] = NaN
  <2> DEFINE plus == Operand(term.plus, vars)
             minus == Operand(term.minus, vars)
  <2>1. NaN \in {plus, minus} \/ Difference(term, vars) = Numeral(plus.value - minus.value)
    BY DEF Difference
  <2> HIDE DEF plus, minus
  <2>2. plus = NaN \/ minus = NaN
    BY <1>1, <1>4, <2>1
  <2>3. term.plus \in Operands(e) /\ term.minus \in Operands(e)
    BY DEF Operands
  <2> QED
    BY <1>2, <2>2, <2>3 DEF plus, minus
<1> QED
  BY <1>3, <1>4

LEMMA ValidNames ==
    ASSUME NEW m, ValidMapping(m), NEW i \in DOMAIN m.transforms
    PROVE  VariablesOf(m.transforms[i].expression) \subseteq DOMAIN m.transforms[i].sources
<1> DEFINE t == m.transforms[i]
           ones == [n \in DOMAIN t.sources |-> Numeral(1)]
<1>1. Evaluate(t.expression, ones) # Throws
  BY DEF ValidMapping
<1>2. DOMAIN ones = DOMAIN t.sources
  OBVIOUS
<1> HIDE DEF ones, t
<1>3. VariablesOf(t.expression) \subseteq DOMAIN ones
  BY <1>1 DEF Evaluate
<1> QED
  BY <1>2, <1>3 DEF t

\* After n steps: what is there, what is gone, and what the errors say.
Writes(m, r) == \/ \E i \in DOMAIN m.aliases : r = m.aliases[i].canonical
                \/ \E i \in DOMAIN m.transforms : r = m.transforms[i].target
Buried(m, q) == \E i \in DOMAIN m.transforms : IsPrefix(m.transforms[i].target, q) /\ m.transforms[i].target # q
FailsOnData(m, i, p) == LET t == m.transforms[i] IN
  \/ t.expression.op = "over"
  \/ \E n \in DOMAIN t.sources : ToNumber(At(p, t.sources[n])) = NaN \/ Overwritten(m, i, t.sources[n])
Told(acc, p, m, n) ==
  /\ IsPair(acc) /\ IsObject(acc.payload)
  /\ \A r \in DOMAIN acc.payload : r \in DOMAIN p \/ Writes(m, r)
  /\ \A q \in Paths : Covered(p, q) => Covered(acc.payload, q) \/ Buried(m, q)
  /\ ValidMapping(m) /\ Unfit \in acc.errors =>
       \E i \in DOMAIN m.transforms : i <= n - Len(m.aliases) /\ FailsOnData(m, i, acc.payload)

\* No transform has failed while the aliases are made.
LEMMA AliasTells ==
    ASSUME NEW p, NEW m, IsMapping(m), NEW n \in 1..Len(m.aliases), NEW acc, Told(acc, p, m, n - 1)
    PROVE  Told(ApplyAlias(acc, m.aliases[n]), p, m, n)
<1> DEFINE r == ApplyAlias(acc, m.aliases[n])
           path == m.aliases[n].canonical
<1>1. AliasDone(r, acc, path)
  BY AliasSets DEF Told
<1>2. n \in DOMAIN m.aliases /\ path \in Paths /\ DOMAIN m.transforms = 1..Len(m.transforms) /\ Len(m.aliases) \in Nat
  <2> DEFINE Alias == [canonical : Paths, candidates : Seq(Paths)]
  <2>1. m.aliases \in Seq(Alias) /\ m.transforms \in Seq(Range(m.transforms))
    BY DEF IsMapping
  <2>2. \A x \in Alias : x.canonical \in Paths
    OBVIOUS
  <2> HIDE DEF Alias
  <2>3. n \in DOMAIN m.aliases /\ m.aliases[n] \in Alias
    BY <2>1
  <2> QED
    BY <2>1, <2>2, <2>3
<1> HIDE DEF r
<1>3. ASSUME r.payload = acc.payload PROVE Told(r, p, m, n)
  <2>1. Unfit \in r.errors => ~ValidMapping(m)
    <3> SUFFICES ASSUME Unfit \in r.errors, ValidMapping(m) PROVE FALSE
      OBVIOUS
    <3>1. Unfit \in acc.errors
      BY <1>1 DEF AliasDone
    <3>2. PICK i \in DOMAIN m.transforms : i <= (n - 1) - Len(m.aliases)
      BY <3>1 DEF Told
    <3> HIDE DEF path
    <3>3. i \in Nat \ {0}
      BY <1>2
    <3> QED
      BY <1>2, <3>2, <3>3
  <2> QED
    BY <1>1, <1>3, <2>1 DEF Told, AliasDone
<1>4. ASSUME ~IsPresent(acc.payload, path), NEW v, r.payload = SetAt(acc.payload, path, v)
      PROVE  Told(r, p, m, n)
  <2> DEFINE P == acc.payload
             Q == r.payload
  <2>1. IsObject(P)
    BY DEF Told
  <2>2. WrittenAt(Q, P, path)
    BY <1>2, <1>4, <2>1, SetAtWrites
  <2> HIDE DEF P, Q, path
  <2>3. \A x \in DOMAIN Q : x \in DOMAIN p \/ Writes(m, x)
    <3>1. \A x \in DOMAIN P : x \in DOMAIN p \/ Writes(m, x)
      BY DEF Told, P
    <3>2. Writes(m, path)
      BY <1>2 DEF Writes, path
    <3> QED
      BY <2>2, <3>1, <3>2 DEF WrittenAt
  <2>4. ASSUME NEW q \in Paths, Covered(p, q) PROVE Covered(Q, q) \/ Buried(m, q)
    <3>1. Covered(P, q) \/ Buried(m, q)
      BY <2>4 DEF Told, P
    <3>2. Covered(P, q) => Covered(Q, q) \/ (IsPrefix(path, q) /\ path # q)
      BY <2>2, <2>4 DEF WrittenAt
    <3>3. ~(Covered(P, q) /\ IsPrefix(path, q) /\ path # q)
      <4>1. ~IsPresent(P, path)
        BY <1>4 DEF P
      <4> QED
        BY <1>2, <2>1, <2>4, <4>1, AboveIsPresent
    <3> QED
      BY <3>1, <3>2, <3>3
  <2>5. Unfit \in r.errors => ~ValidMapping(m)
    <3> SUFFICES ASSUME Unfit \in r.errors, ValidMapping(m) PROVE FALSE
      OBVIOUS
    <3>1. Unfit \in acc.errors
      BY <1>1 DEF AliasDone
    <3>2. PICK i \in DOMAIN m.transforms : i <= (n - 1) - Len(m.aliases)
      BY <3>1 DEF Told
    <3>3. i \in Nat \ {0}
      BY <1>2
    <3> QED
      BY <1>2, <3>2, <3>3
  <2>6. IsPair(r) /\ IsObject(Q)
    BY <1>1, <2>2 DEF AliasDone, WrittenAt
  <2> QED
    BY <2>3, <2>4, <2>5, <2>6 DEF Told, Q
<1>5. Told(r, p, m, n)
  BY <1>1, <1>3, <1>4 DEF AliasDone
<1> QED
  BY <1>5 DEF r

\* A transform that fails now has read the payload as it is; what failed before it is as it was, or written over.
LEMMA TransformTells ==
    ASSUME NEW p, NEW m, IsMapping(m), NEW j \in 1..Len(m.transforms), NEW acc,
           NEW n \in Nat, n = Len(m.aliases) + j, Told(acc, p, m, n - 1)
    PROVE  Told(ApplyTransform(acc, m.transforms[j], m.strict), p, m, n)
<1> DEFINE t == m.transforms[j]
           r == ApplyTransform(acc, t, m.strict)
           path == t.target
           P == acc.payload
           Q == r.payload
<1>1. TransformDone(r, acc, t)
  BY TransformSets DEF Told, IsMapping
<1>2. PICK a \in Nat : a = Len(m.aliases) /\ n = a + j /\ n - a = j /\ j \in Nat /\ (n - 1) - a = j - 1
  BY DEF IsMapping
<1>3. /\ j \in DOMAIN m.transforms /\ DOMAIN m.transforms = 1..Len(m.transforms) /\ path \in Paths
      /\ \A i \in DOMAIN m.transforms : /\ KindsAre(m.transforms[i].expression)
                                        /\ \A x \in DOMAIN m.transforms[i].sources : m.transforms[i].sources[x] \in Paths
  BY DEF IsMapping, KindsAre
<1>4. IsObject(P) /\ IsPair(acc)
  BY DEF Told
<1> HIDE DEF r
<1>5. IsPair(r) /\ (Q = P \/ \E v : Q = SetAt(P, path, v))
  BY <1>1 DEF TransformDone
<1>6. Q = P \/ WrittenAt(Q, P, path)
  BY <1>3, <1>4, <1>5, SetAtWrites
<1>7. IsObject(Q)
  BY <1>4, <1>6 DEF WrittenAt
<1>8. \A x \in DOMAIN Q : x \in DOMAIN p \/ Writes(m, x)
  <2>1. \A x \in DOMAIN P : x \in DOMAIN p \/ Writes(m, x)
    BY DEF Told
  <2>2. Writes(m, path)
    BY <1>3 DEF Writes
  <2> HIDE DEF P, Q, path
  <2> QED
    BY <1>6, <2>1, <2>2 DEF WrittenAt
<1>9. ASSUME NEW q \in Paths, Covered(p, q) PROVE Covered(Q, q) \/ Buried(m, q)
  <2>1. Covered(P, q) \/ Buried(m, q)
    BY <1>9 DEF Told
  <2>2. IsPrefix(path, q) /\ path # q => Buried(m, q)
    BY <1>3 DEF Buried
  <2> HIDE DEF P, Q, path
  <2> QED
    BY <1>6, <1>9, <2>1, <2>2 DEF WrittenAt
<1>10. ASSUME ValidMapping(m), Unfit \in r.errors
       PROVE  \E i \in DOMAIN m.transforms : i <= n - Len(m.aliases) /\ FailsOnData(m, i, Q)
  <2>1. CASE Unfit \in acc.errors
    <3>1. PICK i \in DOMAIN m.transforms : i <= (n - 1) - Len(m.aliases) /\ FailsOnData(m, i, P)
      BY <1>10, <2>1 DEF Told
    <3>2. i <= n - Len(m.aliases) /\ j > i
      BY <1>2, <1>3, <3>1
    <3> DEFINE u == m.transforms[i]
    <3>3. ASSUME NEW x \in DOMAIN u.sources, ToNumber(At(P, u.sources[x])) = NaN
          PROVE  ToNumber(At(Q, u.sources[x])) = NaN \/ Overwritten(m, i, u.sources[x])
      <4> DEFINE s == u.sources[x]
      <4>1. s \in Paths
        BY <1>3
      <4>2. IsPrefix(path, s) \/ IsPrefix(s, path) => Overwritten(m, i, s)
        BY <1>3, <3>2 DEF Overwritten
      <4>3. ToNumber(At(P, s)) = NaN
        BY <3>3
      <4> HIDE DEF s, P, Q, path
      <4>4. ToNumber(At(Q, s)) = NaN \/ Overwritten(m, i, s)
        BY <1>6, <4>1, <4>2, <4>3 DEF WrittenAt
      <4> QED
        BY <4>4 DEF s
    <3>4. FailsOnData(m, i, Q)
      BY <3>1, <3>3 DEF FailsOnData
    <3> QED
      BY <3>2, <3>4
  <2>2. CASE Unfit \notin acc.errors
    <3> DEFINE vars == NumbersOf(P, t)
    <3>1. Q = P /\ Evaluate(t.expression, vars) = Throws
      BY <1>1, <1>10, <2>2 DEF TransformDone
    <3>2. VariablesOf(t.expression) \subseteq DOMAIN t.sources
      BY <1>3, <1>10, ValidNames
    <3>3. DOMAIN vars = DOMAIN t.sources /\ \A x \in DOMAIN vars : vars[x] = ToNumber(At(P, t.sources[x]))
      BY DEF NumbersOf
    <3>4. KindsAre(t.expression)
      BY <1>3
    <3> HIDE DEF vars, t
    <3>5. t.expression.op = "over" \/ \E x \in DOMAIN vars : vars[x] = NaN
      BY <3>1, <3>2, <3>3, <3>4, ThrowsOnData
    <3>6. FailsOnData(m, j, Q)
      BY <3>1, <3>3, <3>5 DEF FailsOnData, t
    <3>7. j <= n - Len(m.aliases)
      BY <1>2
    <3> QED
      BY <1>3, <3>6, <3>7
  <2> QED
    BY <2>1, <2>2
<1>11. Told(r, p, m, n)
  BY <1>5, <1>7, <1>8, <1>9, <1>10 DEF Told
<1> QED
  BY <1>11 DEF r

\* What a mapping has made of a payload.
LEMMA StepsTell ==
    ASSUME NEW p, IsObject(p), NEW m, IsMapping(m)
    PROVE  Told(Steps(p, m)[Len(m.aliases) + Len(m.transforms)], p, m, Len(m.aliases) + Len(m.transforms))
<1>1. PICK a \in Nat, b \in Nat : a = Len(m.aliases) /\ b = Len(m.transforms)
  BY DEF IsMapping
<1> DEFINE f == Steps(p, m)
           T == {n \in Nat : n <= a + b /\ ~Told(f[n], p, m, n)}
<1>2. Stepwise(f, p, m, a + b)
  BY <1>1, StepsFollow
<1> HIDE DEF f
<1>3. ASSUME T # {} PROVE FALSE
  <2>1. PICK n \in T : \A k \in T : n <= k
    <3>1. T \in SUBSET Nat
      OBVIOUS
    <3> HIDE DEF T
    <3> QED
      BY <3>1, <1>3, Smallest
  <2>2. n \in Nat /\ n <= a + b /\ ~Told(f[n], p, m, n)
    BY <2>1
  <2>3. CASE n = 0
    <3>1. f[0] = [payload |-> p, errors |-> {}]
      BY <1>2 DEF Stepwise
    <3>2. IsPair(f[0]) /\ f[0].payload = p /\ Unfit \notin f[0].errors
      BY <3>1 DEF IsPair
    <3>3. Told(f[0], p, m, 0)
      BY <3>2 DEF Told
    <3> QED
      BY <2>2, <2>3, <3>3
  <2>4. CASE n # 0
    <3>1. n - 1 \in Nat /\ n - 1 \notin T
      <4> HIDE DEF T
      <4> QED
        BY <2>1, <2>2, <2>4
    <3>2. Told(f[n - 1], p, m, n - 1)
      BY <2>2, <3>1
    <3>3. n \in 1..(a + b) /\ f[n] = StepAfter(f[n - 1], m, n)
      BY <1>2, <2>2, <2>4 DEF Stepwise
    <3>4. CASE n \in 1..a
      <4>1. f[n] = ApplyAlias(f[n - 1], m.aliases[n]) /\ n \in 1..Len(m.aliases)
        BY <1>1, <3>3, <3>4 DEF StepAfter
      <4>2. Told(ApplyAlias(f[n - 1], m.aliases[n]), p, m, n)
        BY <3>2, <4>1, AliasTells
      <4> QED
        BY <2>2, <4>1, <4>2
    <3>5. CASE n \notin 1..a
      <4>1. f[n] = ApplyTransform(f[n - 1], m.transforms[n - a], m.strict)
        BY <1>1, <3>3, <3>5 DEF StepAfter
      <4>2. n - a \in 1..b /\ n = a + (n - a)
        BY <2>2, <3>3, <3>5
      <4>3. PICK j \in 1..Len(m.transforms) : j = n - a /\ n = Len(m.aliases) + j
        BY <1>1, <4>2
      <4>4. Told(ApplyTransform(f[n - 1], m.transforms[j], m.strict), p, m, n)
        BY <2>2, <3>2, <4>3, TransformTells
      <4> QED
        BY <2>2, <4>1, <4>3, <4>4
    <3> QED
      BY <3>4, <3>5
  <2> QED
    BY <2>3, <2>4
<1>4. a + b \in Nat /\ a + b \notin T
  BY <1>3
<1>5. Told(f[a + b], p, m, a + b)
  BY <1>4
<1> QED
  BY <1>1, <1>5 DEF f

\* What is stored and what is answered of it.
Mapped(n, p, m) ==
  /\ IsObject(n.payload)
  /\ \A r \in DOMAIN n.payload : r \in DOMAIN p \/ Writes(m, r)
  /\ \A q \in Paths : Covered(p, q) => Covered(n.payload, q) \/ Buried(m, q)
  /\ ValidMapping(m) /\ Unfit \in n.errors => \E i \in DOMAIN m.transforms : FailsOnData(m, i, n.payload)
  /\ n.errors = {} =>
       /\ \A q \in m.required : IsPresent(n.payload, q) /\ At(n.payload, q).kind # "blank"
       /\ \A q \in DOMAIN m.types : IsPresent(n.payload, q) => At(n.payload, q).kind = m.types[q]
LEMMA MappingTells ==
    ASSUME NEW p, IsObject(p), NEW m, IsMapping(m)
    PROVE  Mapped(Normalize(p, m), p, m)
<1> DEFINE L == Len(m.aliases) + Len(m.transforms)
           acc == Steps(p, m)[L]
           filled == acc.payload
           missing == {q \in m.required : ~IsPresent(filled, q) \/ At(filled, q).kind = "blank"}
           wrong == {q \in DOMAIN m.types : IsPresent(filled, q) /\ At(filled, q).kind # m.types[q]}
           n == Normalize(p, m)
           found == (IF missing = {} THEN {} ELSE {"missing_required_field"}) \cup (IF wrong = {} THEN {} ELSE {"invalid_type"})
<1>1. Told(acc, p, m, L)
  BY StepsTell
<1>2. n = [payload |-> filled,
           errors |-> acc.errors \cup (IF missing = {} THEN {} ELSE {"missing_required_field"})
                                 \cup (IF wrong = {} THEN {} ELSE {"invalid_type"})]
  BY DEF Normalize
<1> HIDE DEF L, acc, n
<1>3. n.payload = filled /\ n.errors = acc.errors \cup found
  BY <1>2
<1>4. Unfit \notin found
  BY DEF Unfit
<1>5. n.errors = {} => missing = {} /\ wrong = {}
  BY <1>3
<1>6. Unfit \in n.errors => Unfit \in acc.errors
  BY <1>3, <1>4
<1> HIDE DEF found
<1>7. n.errors = {} =>
       /\ \A q \in m.required : IsPresent(filled, q) /\ At(filled, q).kind # "blank"
       /\ \A q \in DOMAIN m.types : IsPresent(filled, q) => At(filled, q).kind = m.types[q]
  BY <1>5
<1> HIDE DEF missing, wrong, filled
<1>8. /\ IsObject(filled)
      /\ \A r \in DOMAIN filled : r \in DOMAIN p \/ Writes(m, r)
      /\ \A q \in Paths : Covered(p, q) => Covered(filled, q) \/ Buried(m, q)
      /\ ValidMapping(m) /\ Unfit \in acc.errors => \E i \in DOMAIN m.transforms : FailsOnData(m, i, filled)
  BY <1>1 DEF Told, filled
<1>9. Mapped(n, p, m)
  BY <1>3, <1>6, <1>7, <1>8 DEF Mapped
<1> QED
  BY <1>9 DEF n

\* Without a mapping nothing is done.
LEMMA NoMappingIsOne == IsMapping(NoMapping) /\ ValidMapping(NoMapping) /\ \A p : Normalize(p, NoMapping).errors = {}
<1> DEFINE m == NoMapping
<1>1. /\ m.aliases = <<>> /\ m.transforms = <<>> /\ m.strict = FALSE /\ m.required = {} /\ m.types = <<>>
  BY DEF NoMapping
<1>2. DOMAIN m.transforms = {} /\ DOMAIN m.types = {} /\ Len(m.aliases) = 0 /\ Len(m.transforms) = 0
  BY <1>1
<1>3. m.aliases \in Seq([canonical : Paths, candidates : Seq(Paths)]) /\ m.transforms \in Seq(Range(m.transforms))
  BY <1>1
<1> HIDE DEF m
<1>4. IsMapping(m)
  BY <1>1, <1>2, <1>3 DEF IsMapping
<1>5. ValidMapping(m)
  BY <1>2 DEF ValidMapping
<1>6. ASSUME NEW p PROVE Normalize(p, m).errors = {}
  <2> DEFINE f == Steps(p, m)
  <2>1. Stepwise(f, p, m, 0)
    <3>1. Stepwise(f, p, m, Len(m.aliases) + Len(m.transforms))
      <4>1. Len(m.aliases) \in Nat /\ Len(m.transforms) \in Nat
        BY <1>2
      <4> QED
        BY <4>1, StepsFollow
    <3>2. Len(m.aliases) + Len(m.transforms) = 0
      BY <1>2
    <3> QED
      BY <3>1, <3>2
  <2> HIDE DEF f
  <2>2. f[0].errors = {}
    BY <2>1 DEF Stepwise
  <2>3. f[Len(m.aliases) + Len(m.transforms)].errors = {}
    BY <1>2, <2>2
  <2> QED
    BY <1>1, <1>2, <2>3 DEF Normalize, f
<1> QED
  BY <1>4, <1>5, <1>6 DEF m

--------------------------------------------------------------------------------
\* The inductive invariant: the answer and the verdict are what they were computed from.
SignalSound ==
  LET n == Normalize(signal.payload, signal.used)
      s == signal.stage
  IN
  /\ signal = [stage |-> s, payload |-> signal.payload, org |-> signal.org, key |-> signal.key,
               used |-> signal.used, version |-> signal.version, stored |-> signal.stored, errors |-> signal.errors]
  /\ signal.payload \in Samples /\ IsMapping(signal.used)
  /\ signal.version = 2 => ValidMapping(signal.used)
  /\ signal.stored = n.payload /\ signal.errors = n.errors /\ signal.key \in Detect(signal.payload)
  /\ s \in {"refused", "invalid", "accepted", "applied", "unapplied"}
  /\ s = "refused" <=> signal.key # <<>>
  /\ s # "refused" => (s = "invalid" <=> signal.errors # {})
  /\ s = "applied" => Detect(signal.stored) = {<<>>}
  /\ s = "unapplied" => Detect(signal.stored) # {<<>>}
PreflightSound ==
  LET n == Normalize(preflight.payload, preflight.used)
      known == preflight.used # NoMapping /\ n.errors = {}
  IN
  /\ preflight.payload \in Samples /\ IsMapping(preflight.used)
  /\ preflight.hits = Hits(preflight.payload)
  /\ preflight.unmapped <=> preflight.used # NoMapping /\ n.errors # {}
  /\ preflight.verdict = PreflightVerdict(Hits(preflight.payload), [known |-> known, hits |-> Hits(n.payload)])
CheckInv ==
  /\ CheckTypeOK
  /\ mappings.version = 2 => \A o \in Orgs : ValidMapping(mappings.of[o])
  /\ \/ signal = NoSignal
     \/ signal.stage = "sent" /\ signal.payload \in Samples /\ signal.org \in Orgs
     \/ SignalSound
  /\ preflight = NoPreflight \/ PreflightSound

LEMMA InForce ==
    ASSUME CheckTypeOK, NEW o \in Orgs
    PROVE  IsMapping(mappings.of[o])
<1>1. mappings.of[o] = NoMapping \/ mappings.of[o] \in MappingBodies
  BY DEF CheckTypeOK
<1> QED
  BY <1>1, NoMappingIsOne, SignalChecksAssumption

LEMMA InitCheck == CheckInit => CheckInv
<1> SUFFICES ASSUME CheckInit PROVE CheckInv
  OBVIOUS
<1>1. signal = NoSignal /\ preflight = NoPreflight
  BY DEF CheckInit
<1>2. \/ mappings = [version |-> 1, of |-> OldFile]
      \/ mappings = [version |-> 2, of |-> [o \in Orgs |-> NoMapping]]
  BY DEF CheckInit
<1>3. mappings.version = 1 => mappings.of = OldFile
  BY <1>2
<1>4. mappings.version = 2 => mappings.of = [o \in Orgs |-> NoMapping]
  BY <1>2
<1>5. mappings.version \in {1, 2} /\ DOMAIN mappings.of = Orgs
  BY <1>2, SignalChecksAssumption
<1>6. \A o \in Orgs : LET m == mappings.of[o] IN
        m = NoMapping \/ (m \in MappingBodies /\ (m # OldFile[o] => ValidMapping(m)))
  BY <1>3, <1>4, <1>5, SignalChecksAssumption
<1>7. CheckTypeOK
  BY <1>1, <1>5, <1>6 DEF CheckTypeOK, NoSignal, NoPreflight
<1>8. mappings.version = 2 => \A o \in Orgs : ValidMapping(mappings.of[o])
  BY <1>4, NoMappingIsOne
<1> QED
  BY <1>1, <1>7, <1>8 DEF CheckInv

\* A put replaces one mapping, or begins a configuration of version 2 with none of the others.
LEMMA PutKeeps ==
    ASSUME CheckInv, NEW o \in Orgs, NEW m \in MappingBodies, PutMapping(o, m)
    PROVE  CheckInv'
<1> DEFINE base == IF mappings.version = 2 THEN mappings.of ELSE [r \in Orgs |-> NoMapping]
<1>1. mappings' = [version |-> 2, of |-> [base EXCEPT ![o] = m]]
  BY DEF PutMapping
<1>2. DOMAIN base = Orgs
  BY DEF CheckInv, CheckTypeOK
<1>3. \A r \in Orgs : base[r] = NoMapping \/ base[r] \in MappingBodies
  BY DEF CheckInv, CheckTypeOK
<1>4. \A r \in Orgs : ValidMapping(base[r])
  BY NoMappingIsOne DEF CheckInv
<1> HIDE DEF base
<1>5. mappings'.version = 2 /\ DOMAIN mappings'.of = Orgs /\ \A r \in Orgs : mappings'.of[r] = IF r = o THEN m ELSE base[r]
  BY <1>1, <1>2
<1>6. ValidMapping(m) /\ UNCHANGED <<signal, preflight>>
  BY DEF PutMapping
<1>7. \A r \in Orgs : ValidMapping(mappings'.of[r]) /\ (mappings'.of[r] = NoMapping \/ mappings'.of[r] \in MappingBodies)
  BY <1>3, <1>4, <1>5, <1>6
<1>8. CheckTypeOK'
  BY <1>5, <1>6, <1>7 DEF CheckInv, CheckTypeOK
<1>9. /\ signal = NoSignal \/ (signal.stage = "sent" /\ signal.payload \in Samples /\ signal.org \in Orgs) \/ SignalSound
      /\ preflight = NoPreflight \/ PreflightSound
  BY DEF CheckInv
<1>10. SignalSound' = SignalSound /\ PreflightSound' = PreflightSound
  BY <1>6 DEF SignalSound, PreflightSound
<1> QED
  BY <1>6, <1>7, <1>8, <1>9, <1>10 DEF CheckInv

LEMMA PreflightKeeps ==
    ASSUME CheckInv, NEW p \in Samples, NEW o \in Orgs, NEW scoped \in BOOLEAN, Preflight(p, o, scoped)
    PROVE  CheckInv'
<1> DEFINE m == IF scoped THEN mappings.of[o] ELSE NoMapping
           n == Normalize(p, m)
           known == m # NoMapping /\ n.errors = {}
           verdict == PreflightVerdict(Hits(p), [known |-> known, hits |-> Hits(n.payload)])
           unmapped == m # NoMapping /\ n.errors # {}
           hits == Hits(p)
           e == Examined(p, m)
<1>1. e = [hits |-> hits, unmapped |-> unmapped, verdict |-> verdict]
  BY DEF Examined
<1>2. preflight' = [payload |-> p, org |-> o, scoped |-> scoped, used |-> m,
                    hits |-> e.hits, unmapped |-> e.unmapped, verdict |-> e.verdict]
  BY DEF Preflight
<1>3. UNCHANGED <<mappings, signal>>
  BY DEF Preflight
<1>4. IsMapping(m)
  BY InForce, NoMappingIsOne DEF CheckInv
<1>5. verdict \in {"clean", "pii_blocking", "semantic_blocking", "semantic_resolvable_by_mapping"}
  BY DEF PreflightVerdict
<1> HIDE DEF m, verdict, hits, e
<1>6. /\ preflight'.payload = p /\ preflight'.used = m /\ preflight'.hits = hits /\ preflight'.verdict = verdict
      /\ preflight'.unmapped <=> unmapped
  BY <1>1, <1>2
<1>7. CheckTypeOK'
  BY <1>3, <1>5, <1>6 DEF CheckInv, CheckTypeOK
<1>8. PreflightSound'
  BY <1>4, <1>6 DEF PreflightSound, verdict, hits
<1>9. /\ signal = NoSignal \/ (signal.stage = "sent" /\ signal.payload \in Samples /\ signal.org \in Orgs) \/ SignalSound
      /\ mappings.version = 2 => \A r \in Orgs : ValidMapping(mappings.of[r])
  BY DEF CheckInv
<1>10. SignalSound' = SignalSound
  BY <1>3 DEF SignalSound
<1> QED
  BY <1>3, <1>7, <1>8, <1>9, <1>10 DEF CheckInv

LEMMA SendKeeps ==
    ASSUME CheckInv, NEW p \in Samples, NEW o \in Orgs, SendSample(p, o)
    PROVE  CheckInv'
<1>1. signal' = [stage |-> "sent", payload |-> p, org |-> o] /\ UNCHANGED <<mappings, preflight>>
  BY DEF SendSample
<1>2. signal'.stage = "sent" /\ signal'.payload \in Samples /\ signal'.org \in Orgs
  BY <1>1
<1>3. PreflightSound' = PreflightSound
  BY <1>1 DEF PreflightSound
<1>4. CheckTypeOK'
  BY <1>1, <1>2 DEF CheckInv, CheckTypeOK
<1> QED
  BY <1>1, <1>2, <1>3, <1>4 DEF CheckInv

LEMMA IngestKeeps ==
    ASSUME CheckInv, Ingest
    PROVE  CheckInv'
<1> DEFINE p == signal.payload
           o == signal.org
           m == mappings.of[o]
           n == Normalize(p, m)
<1>1. p \in Samples /\ o \in Orgs
  BY DEF CheckInv, Ingest, NoSignal, SignalSound
<1>2. PICK key \in Detect(p) :
        signal' = [stage |-> CASE key # <<>> -> "refused"
                               [] key = <<>> /\ n.errors # {} -> "invalid"
                               [] OTHER -> "accepted",
                   payload |-> p, org |-> o, key |-> key, used |-> m,
                   version |-> mappings.version, stored |-> n.payload, errors |-> n.errors]
  BY DEF Ingest
<1>3. UNCHANGED <<mappings, preflight>>
  BY DEF Ingest
<1>4. IsMapping(m) /\ (mappings.version = 2 => ValidMapping(m))
  BY <1>1, InForce DEF CheckInv
<1> DEFINE s == CASE key # <<>> -> "refused"
                  [] key = <<>> /\ n.errors # {} -> "invalid"
                  [] OTHER -> "accepted"
<1>5. /\ s \in {"refused", "invalid", "accepted"}
      /\ s = "refused" <=> key # <<>>
      /\ s # "refused" => (s = "invalid" <=> n.errors # {})
  OBVIOUS
<1> DEFINE E == n.errors
           P == n.payload
<1> HIDE DEF s, m, p, o, E, P
<1>6. signal' = [stage |-> s, payload |-> p, org |-> o, key |-> key, used |-> m,
                 version |-> mappings.version, stored |-> P, errors |-> E]
  BY <1>2 DEF s, E, P
<1>7. /\ signal'.stage = s /\ signal'.payload = p /\ signal'.org = o /\ signal'.key = key /\ signal'.used = m
      /\ signal'.version = mappings.version /\ signal'.stored = P /\ signal'.errors = E
  BY <1>6
<1>8. /\ s \in {"refused", "invalid", "accepted"}
      /\ s = "refused" <=> key # <<>>
      /\ s # "refused" => (s = "invalid" <=> E # {})
  BY <1>5 DEF E
<1>9. SignalSound'
  <2>1. signal' = [stage |-> signal'.stage, payload |-> signal'.payload, org |-> signal'.org, key |-> signal'.key,
                   used |-> signal'.used, version |-> signal'.version, stored |-> signal'.stored, errors |-> signal'.errors]
    BY <1>6
  <2>2. signal'.stored = Normalize(signal'.payload, signal'.used).payload
        /\ signal'.errors = Normalize(signal'.payload, signal'.used).errors
    BY <1>7 DEF E, P
  <2>3. signal'.payload \in Samples /\ IsMapping(signal'.used) /\ (signal'.version = 2 => ValidMapping(signal'.used))
    BY <1>1, <1>4, <1>7
  <2>4. signal'.key \in Detect(signal'.payload)
    BY <1>2, <1>7
  <2>5. /\ signal'.stage \in {"refused", "invalid", "accepted"}
        /\ signal'.stage = "refused" <=> signal'.key # <<>>
        /\ signal'.stage # "refused" => (signal'.stage = "invalid" <=> signal'.errors # {})
    BY <1>7, <1>8
  <2> QED
    BY <2>1, <2>2, <2>3, <2>4, <2>5 DEF SignalSound
<1>10. PreflightSound' = PreflightSound
  BY <1>3 DEF PreflightSound
<1>11. CheckTypeOK'
  BY <1>3, <1>7, <1>8 DEF CheckInv, CheckTypeOK
<1> QED
  BY <1>3, <1>9, <1>10, <1>11 DEF CheckInv

LEMMA ApplyKeeps ==
    ASSUME CheckInv, ApplyStored
    PROVE  CheckInv'
<1> DEFINE s == IF Detect(signal.stored) = {<<>>} THEN "applied" ELSE "unapplied"
<1>1. SignalSound /\ signal.stage = "accepted"
  BY DEF CheckInv, ApplyStored, NoSignal
<1>2. signal' = [signal EXCEPT !.stage = s] /\ UNCHANGED <<mappings, preflight>>
  BY DEF ApplyStored
<1>3. PICK p, o, key, used, version, stored, errors :
        signal = [stage |-> "accepted", payload |-> p, org |-> o, key |-> key, used |-> used, version |-> version,
                  stored |-> stored, errors |-> errors]
  BY <1>1 DEF SignalSound
<1>4. /\ s \in {"applied", "unapplied"} /\ (s = "applied" <=> Detect(signal.stored) = {<<>>})
  OBVIOUS
<1> HIDE DEF s
<1>5. signal' = [stage |-> s, payload |-> p, org |-> o, key |-> key, used |-> used, version |-> version,
                 stored |-> stored, errors |-> errors]
  BY <1>2, <1>3
<1>6. /\ signal.payload = p /\ signal.org = o /\ signal.key = key /\ signal.used = used
      /\ signal.version = version /\ signal.stored = stored /\ signal.errors = errors
  BY <1>3
<1>7. /\ signal'.stage = s /\ signal'.payload = p /\ signal'.org = o /\ signal'.key = key /\ signal'.used = used
      /\ signal'.version = version /\ signal'.stored = stored /\ signal'.errors = errors
  BY <1>5
<1>8. SignalSound'
  <2>1. /\ p \in Samples /\ IsMapping(used) /\ (version = 2 => ValidMapping(used))
        /\ stored = Normalize(p, used).payload /\ errors = Normalize(p, used).errors /\ key \in Detect(p)
        /\ key = <<>> /\ errors = {}
    BY <1>1, <1>6 DEF SignalSound
  <2>2. signal' = [stage |-> signal'.stage, payload |-> signal'.payload, org |-> signal'.org, key |-> signal'.key,
                   used |-> signal'.used, version |-> signal'.version, stored |-> signal'.stored, errors |-> signal'.errors]
    BY <1>5
  <2>3. s \in {"applied", "unapplied"} /\ (s = "applied" <=> Detect(stored) = {<<>>})
    BY <1>4, <1>6
  <2> QED
    BY <1>7, <2>1, <2>2, <2>3 DEF SignalSound
<1>9. PreflightSound' = PreflightSound
  BY <1>2 DEF PreflightSound
<1>10. CheckTypeOK'
  BY <1>2, <1>4, <1>7 DEF CheckInv, CheckTypeOK
<1> QED
  BY <1>2, <1>8, <1>9, <1>10 DEF CheckInv

LEMMA CheckStepKeeps == CheckInv /\ [CheckNext]_checkVars => CheckInv'
<1> SUFFICES ASSUME CheckInv, [CheckNext]_checkVars PROVE CheckInv'
  OBVIOUS
<1>1. CASE UNCHANGED checkVars
  BY <1>1 DEF CheckInv, CheckTypeOK, SignalSound, PreflightSound, checkVars
<1>2. ASSUME NEW o \in Orgs, NEW m \in MappingBodies, PutMapping(o, m) PROVE CheckInv'
  BY <1>2, PutKeeps
<1>3. ASSUME NEW p \in Samples, NEW o \in Orgs, NEW scoped \in BOOLEAN, Preflight(p, o, scoped) PROVE CheckInv'
  BY <1>3, PreflightKeeps
<1>4. ASSUME NEW p \in Samples, NEW o \in Orgs, SendSample(p, o) PROVE CheckInv'
  BY <1>4, SendKeeps
<1>5. CASE Ingest
  BY <1>5, IngestKeeps
<1>6. CASE ApplyStored
  BY <1>6, ApplyKeeps
<1> QED
  BY <1>1, <1>2, <1>3, <1>4, <1>5, <1>6 DEF CheckNext

--------------------------------------------------------------------------------
\* What a payload is stopped for is what the preflight lists.
LEMMA DetectFinds ==
    ASSUME NEW p, DOMAIN p \subseteq Paths, NEW key \in Detect(p)
    PROVE  /\ key = <<>> <=> Hits(p) = {}
           /\ key # <<>> => key \in Hits(p)
<1>1. \A q \in Hits(p) : q # <<>>
  BY HitsAre DEF HitsOf, Paths
<1>2. Hits(p) = {} => key = <<>>
  BY DEF Detect
<1>3. Hits(p) # {} => key \in Hits(p)
  BY DEF Detect
<1> QED
  BY <1>1, <1>2, <1>3

LEMMA VerdictIs ==
    ASSUME NEW p \in Samples, NEW after
    PROVE  PreflightVerdict(Hits(p), after) = "clean" <=> Hits(p) = {}
<1>1. IsObject(p) /\ DOMAIN p \subseteq Paths
  BY SignalChecksAssumption DEF IsObject
<1>2. ASSUME NEW q \in Hits(p) PROVE KeyClass[Last(q)] \in {"pii", "semantic"}
  <2>1. q \in Seq(DOMAIN KeyClass) /\ q # <<>> /\ KeyClass[Last(q)] # "plain"
    BY <1>1, HitsAre DEF HitsOf, Paths
  <2>2. Last(q) \in DOMAIN KeyClass
    BY <2>1 DEF Last
  <2> QED
    BY <2>1, <2>2, SignalChecksAssumption
<1> DEFINE pii == OfClass(Hits(p), "pii")
           semantic == OfClass(Hits(p), "semantic")
<1>3. pii = {} /\ semantic = {} <=> Hits(p) = {}
  BY <1>2 DEF OfClass
<1> HIDE DEF pii, semantic
<1>4. PreflightVerdict(Hits(p), after) =
        CASE pii # {} -> "pii_blocking"
          [] pii = {} /\ semantic = {} -> "clean"
          [] OTHER -> IF after.known /\ OfClass(after.hits, "semantic") = {} THEN "semantic_resolvable_by_mapping"
                      ELSE "semantic_blocking"
  BY DEF PreflightVerdict, pii, semantic
<1> QED
  BY <1>3, <1>4

LEMMA VerdictFollows == CheckInv => VerdictForetells /\ MappingForetells
<1> SUFFICES ASSUME CheckInv, Foretold PROVE VerdictForetells /\ MappingForetells
  BY DEF VerdictForetells, MappingForetells
<1>1. SignalSound /\ PreflightSound /\ preflight.payload = signal.payload
  BY DEF CheckInv, Foretold, Ingested, NoSignal
<1> DEFINE p == signal.payload
<1>2. p \in Samples /\ DOMAIN p \subseteq Paths
  BY <1>1, SignalChecksAssumption DEF SignalSound, IsObject
<1>3. (signal.key = <<>> <=> Hits(p) = {}) /\ (signal.key # <<>> => signal.key \in Hits(p))
  <2>1. signal.key \in Detect(p)
    BY <1>1 DEF SignalSound
  <2> HIDE DEF p
  <2> QED
    BY <1>2, <2>1, DetectFinds
<1>4. preflight.verdict = "clean" <=> Hits(p) = {}
  BY <1>1, <1>2, VerdictIs DEF PreflightSound
<1>5. (signal.stage = "refused" <=> signal.key # <<>>) /\ preflight.hits = Hits(p)
  BY <1>1 DEF SignalSound, PreflightSound
<1>6. VerdictForetells
  BY <1>3, <1>4, <1>5 DEF VerdictForetells
<1>7. ASSUME signal.used = preflight.used, preflight.verdict = "clean"
      PROVE  signal.stage = "invalid" <=> preflight.unmapped
  <2>1. signal.stage # "refused"
    BY <1>3, <1>4, <1>5, <1>7
  <2>2. signal.stage = "invalid" <=> Normalize(p, signal.used).errors # {}
    BY <1>1, <2>1 DEF SignalSound
  <2>3. preflight.unmapped <=> signal.used # NoMapping /\ Normalize(p, signal.used).errors # {}
    BY <1>1, <1>7 DEF PreflightSound
  <2> QED
    BY <2>2, <2>3, NoMappingIsOne
<1>8. MappingForetells
  BY <1>7 DEF MappingForetells
<1> QED
  BY <1>6, <1>8

LEMMA OverwritesFollow == CheckInv => ResolvedByOverwriting
<1> SUFFICES ASSUME CheckInv, preflight.verdict = "semantic_resolvable_by_mapping",
                    NEW q \in OfClass(preflight.hits, "semantic")
             PROVE  \E i \in DOMAIN preflight.used.transforms : IsPrefix(preflight.used.transforms[i].target, Front(q))
  BY DEF ResolvedByOverwriting
<1>1. PreflightSound
  BY DEF CheckInv, NoPreflight
<1> DEFINE p == preflight.payload
           m == preflight.used
           n == Normalize(p, m)
           after == [known |-> m # NoMapping /\ n.errors = {}, hits |-> Hits(n.payload)]
<1>2. p \in Samples /\ IsMapping(m) /\ preflight.hits = Hits(p) /\ preflight.verdict = PreflightVerdict(Hits(p), after)
  BY <1>1 DEF PreflightSound
<1>3. IsObject(p) /\ DOMAIN p \subseteq Paths
  BY <1>2, SignalChecksAssumption DEF IsObject
<1>4. OfClass(Hits(n.payload), "semantic") = {}
  <2>1. after.hits = Hits(n.payload)
    OBVIOUS
  <2> HIDE DEF after
  <2>2. OfClass(after.hits, "semantic") = {}
    BY <1>2 DEF PreflightVerdict
  <2> QED
    BY <2>1, <2>2
<1>5. q \in Hits(p) /\ KeyClass[Last(q)] = "semantic"
  BY <1>2 DEF OfClass
<1>6. Mapped(n, p, m)
  BY <1>2, <1>3, MappingTells
<1> HIDE DEF p, n, m, after
<1>7. q \in Paths /\ Covered(p, q)
  BY <1>3, <1>5, HitsAre DEF HitsOf
<1>8. ~Covered(n.payload, q)
  <2>1. DOMAIN n.payload \subseteq Paths
    BY <1>6 DEF Mapped, IsObject
  <2>2. q \notin Hits(n.payload)
    BY <1>4, <1>5 DEF OfClass
  <2> QED
    BY <1>5, <1>7, <2>1, <2>2, HitsAre DEF HitsOf
<1>9. Buried(m, q)
  BY <1>6, <1>7, <1>8 DEF Mapped
<1>10. PICK i \in DOMAIN m.transforms : IsPrefix(m.transforms[i].target, q) /\ m.transforms[i].target # q
  BY <1>9 DEF Buried
<1>11. m.transforms[i].target \in Paths
  BY <1>2 DEF IsMapping, m
<1>12. IsPrefix(m.transforms[i].target, Front(q))
  BY <1>7, <1>10, <1>11, PrefixOfFront DEF Paths
<1> QED
  BY <1>12 DEF m

LEMMA NothingForbidden == CheckInv => ForbiddenStaysOut
<1> SUFFICES ASSUME CheckInv, signal.stage \in {"applied", "unapplied"} PROVE ForbiddenStaysOut
  BY DEF ForbiddenStaysOut
<1>1. SignalSound
  BY DEF CheckInv, NoSignal
<1> DEFINE p == signal.payload
           m == signal.used
           P == signal.stored
<1>2. p \in Samples /\ IsMapping(m) /\ P = Normalize(p, m).payload /\ signal.key \in Detect(p) /\ signal.key = <<>>
  BY <1>1 DEF SignalSound
<1>3. /\ signal.stage = "applied" => Detect(P) = {<<>>}
      /\ signal.stage = "unapplied" => Detect(P) # {<<>>}
  BY <1>1 DEF SignalSound
<1> HIDE DEF p, m, P
<1>4. IsObject(p) /\ DOMAIN p \subseteq Paths
  BY <1>2, SignalChecksAssumption DEF IsObject
<1>5. Mapped(Normalize(p, m), p, m)
  BY <1>2, <1>4, MappingTells
<1>6. DOMAIN P \subseteq Paths /\ \A r \in DOMAIN P : r \in DOMAIN p \/ Writes(m, r)
  BY <1>2, <1>5 DEF Mapped, IsObject
<1>7. Hits(p) = {}
  BY <1>2, <1>4, DetectFinds
<1>8. signal.stage = "applied" => Hits(P) = {}
  <2> SUFFICES ASSUME Detect(P) = {<<>>} PROVE Hits(P) = {}
    BY <1>3
  <2>1. <<>> \in Detect(P)
    OBVIOUS
  <2> QED
    BY <1>6, <2>1, DetectFinds
<1>9. ASSUME signal.stage = "unapplied"
      PROVE  \E q \in Hits(P) \ Hits(p) :
               \/ \E i \in DOMAIN m.aliases : IsPrefix(q, m.aliases[i].canonical)
               \/ \E i \in DOMAIN m.transforms : IsPrefix(q, m.transforms[i].target)
  <2>1. PICK q : q \in Hits(P)
    <3>1. Hits(P) # {}
      BY <1>3, <1>9 DEF Detect
    <3> QED
      BY <3>1
  <2>2. q \in Paths /\ KeyClass[Last(q)] # "plain" /\ Covered(P, q)
    BY <1>6, <2>1, HitsAre DEF HitsOf
  <2>3. PICK r \in DOMAIN P : IsPrefix(q, r)
    BY <2>2 DEF Covered
  <2>4. r \notin DOMAIN p
    <3> SUFFICES ASSUME r \in DOMAIN p PROVE FALSE
      OBVIOUS
    <3>1. Covered(p, q)
      BY <2>3 DEF Covered
    <3>2. q \in Hits(p)
      BY <1>4, <2>2, <3>1, HitsAre DEF HitsOf
    <3> QED
      BY <1>7, <3>2
  <2>5. Writes(m, r)
    BY <1>6, <2>4
  <2> QED
    BY <1>7, <2>1, <2>3, <2>5 DEF Writes
<1> QED
  BY <1>7, <1>8, <1>9 DEF ForbiddenStaysOut, p, m, P

LEMMA StoredFollows == CheckInv => StoredIsMapped /\ ExpressionFailsOnData
<1> SUFFICES ASSUME CheckInv, Ingested PROVE StoredIsMapped /\ ExpressionFailsOnData
  BY DEF StoredIsMapped, ExpressionFailsOnData, Ingested
<1>1. SignalSound
  BY DEF CheckInv, NoSignal, Ingested
<1> DEFINE p == signal.payload
           m == signal.used
           n == Normalize(p, m)
<1>2. /\ p \in Samples /\ IsMapping(m) /\ signal.stored = n.payload /\ signal.errors = n.errors
      /\ signal.version = 2 => ValidMapping(m)
  BY <1>1 DEF SignalSound
<1>3. signal.stage \in {"accepted", "applied", "unapplied"} => signal.errors = {}
  BY <1>1 DEF SignalSound
<1>4. IsObject(p)
  BY <1>2, SignalChecksAssumption
<1>5. Mapped(n, p, m)
  BY <1>2, <1>4, MappingTells
<1> HIDE DEF p, n
<1>6. StoredIsMapped
  BY <1>2, <1>3, <1>5 DEF StoredIsMapped, Mapped, IsPresent
<1>7. ASSUME signal.version = 2, Unfit \in signal.errors
      PROVE  \E i \in DOMAIN m.transforms : FailsOnData(m, i, signal.stored)
  BY <1>2, <1>5, <1>7 DEF Mapped
<1>8. ExpressionFailsOnData
  BY <1>7 DEF ExpressionFailsOnData, FailsOnData, Unfit
<1> QED
  BY <1>6, <1>8

\* Whatever the mappings, the samples and the order of puts, preflights and signals: the preflight foretells
\* ingestion unless a mapping was put in between, and no forbidden key becomes state by way of a mapping.
THEOREM ChecksAlwaysForetell == CheckSpec => []ChecksForetell
<1>1. CheckInv => ChecksForetell
  BY VerdictFollows, OverwritesFollow, NothingForbidden, StoredFollows DEF ChecksForetell, CheckInv
<1> QED
  BY InitCheck, CheckStepKeeps, <1>1, PTL DEF CheckSpec

================================================================================
