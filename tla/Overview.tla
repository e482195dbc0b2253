-------------------------------- MODULE Overview --------------------------------
\* The dashboard's overview: decisions fetched once, figures and a trend computed from
\* them in the browser, and one filter that all surfaces share when the educator syncs
\* them (overview-metrics.ts, overview-filter.ts, overview-sync-provider.tsx).
EXTENDS Naturals, Sequences, FiniteSets

CONSTANTS OvTypes,          \* the types of decision that are made
          OvLearners,       \* numbers: the order in which the API lists learners
          OvNeedles,        \* what may be typed as learner: the learners it is part of
          OvRanges,         \* the ranges in days, DefaultRange among them
          DefaultRange,
          OvSample,         \* of how many learners the states are fetched
          ShortDay,         \* the day of 23 hours, as clocks go forward; 0: none
          FirstDay, LastDay, MaxHistory    \* bounds of the model

ASSUME OverviewAssumption ==
  /\ {FirstDay, LastDay, ShortDay, MaxHistory} \subseteq Nat /\ FirstDay <= LastDay
  /\ DefaultRange \in OvRanges /\ OvRanges \subseteq Nat \ {0}
  /\ OvNeedles \subseteq SUBSET OvLearners

Urgent == {"intervene", "pause"}
AnyType == "any"

VARIABLES ovHistory,     \* the organisation's decisions, oldest first: day, learner, type, mean score
          ovToday,
          ovPage,        \* what was fetched: that many decisions, states up to then, on which day
          ovSync, ovSaved,         \* the toggle, and the one kept in the browser
          ovFilter, ovDeferred,    \* the shared filter, and the one the figures follow
          ovLocal,                 \* the chart's own range, series and view
          ovDays                   \* the day on which the figures and the chart were computed
ovVars == <<ovHistory, ovToday, ovPage, ovSync, ovSaved, ovFilter, ovDeferred, ovLocal, ovDays>>

DefaultFilter == [type |-> AnyType, learner |-> OvLearners, range |-> DefaultRange]
DefaultLocal == [type |-> AnyType, range |-> DefaultRange, view |-> "decisions"]
NoFetch == [decisions |-> 0, states |-> 0, day |-> 0]

\* Days are counted back from the midnight of today by 24 hours each: beyond a day of 23
\* the count ends an hour before midnight, on the day before.
DayBack(day, n) == IF ShortDay \in (day - n)..(day - 1) THEN day - n - 1 ELSE day - n
\* mutant: today is left out
DateKeysBefore(range, day) == {DayBack(day, n) : n \in 1..range}
DateKeys(range, day) == {DayBack(day, n) : n \in 0..(range - 1)}
RangeStart(range, day) == DayBack(day, range - 1)

\* The decisions a filter keeps; there is no end of the range, only its start.
Narrowed(n, filter, day) ==
  {k \in 1..n : /\ ovHistory[k].day >= RangeStart(filter.range, day)
                /\ filter.type \in {AnyType, ovHistory[k].type}
                /\ ovHistory[k].learner \in filter.learner}

\* One row per learner with an urgent decision, be it the newest or not; the change is
\* counted against the decisions of the days before.
RankedLearners(ks) == {ovHistory[k].learner : k \in {i \in ks : ovHistory[i].type \in Urgent}}
AttentionDelta(ks, day) ==
  Cardinality(RankedLearners(ks)) - Cardinality(RankedLearners({k \in ks : ovHistory[k].day < day}))

\* What the cards, the table and the chart start from, and on which day the figures are of:
\* those of the server unless the surfaces are synced.
Kept == IF ovSync THEN Narrowed(ovPage.decisions, ovDeferred, ovDays.figures) ELSE 1..ovPage.decisions
FiguresDay == IF ovSync THEN ovDays.figures ELSE ovPage.day
ChartRange == IF ovSync THEN ovFilter.range ELSE ovLocal.range
ChartSeries == IF ovSync THEN AnyType ELSE ovLocal.type
Plotted(key) == {k \in Kept : ovHistory[k].day = key /\ ChartSeries \in {AnyType, ovHistory[k].type}}
\* The learners' states as last fetched, of as many learners as are sampled.
LastOf(learner) ==
  LET ks == {k \in 1..ovPage.states : ovHistory[k].learner = learner} IN CHOOSE k \in ks : \A j \in ks : j <= k
Listed == {ovHistory[k].learner : k \in 1..ovPage.decisions}
Sampled == {l \in Listed : Cardinality({j \in Listed : j < l}) < OvSample}
MasteryOf(key) == {l \in Sampled : ovHistory[LastOf(l)].day = key}
MasteryIsZero(key) == \A l \in MasteryOf(key) : ovHistory[LastOf(l)].score = 0

FilterActive(filter) == filter # DefaultFilter
Chips == ovSync /\ FilterActive(ovFilter)
Settled == ovDeferred = ovFilter

OverviewInit ==
  /\ ovHistory = <<>> /\ ovToday = FirstDay
  /\ ovPage = NoFetch
  /\ ovSync = FALSE /\ ovSaved = FALSE
  /\ ovFilter = DefaultFilter /\ ovDeferred = DefaultFilter
  /\ ovLocal = DefaultLocal
  /\ ovDays = [figures |-> FirstDay, chart |-> FirstDay]

NewDecision(learner, type, score) ==
  /\ Len(ovHistory) < MaxHistory
  /\ ovHistory' = Append(ovHistory, [day |-> ovToday, learner |-> learner, type |-> type, score |-> score])
  /\ UNCHANGED <<ovToday, ovPage, ovSync, ovSaved, ovFilter, ovDeferred, ovLocal, ovDays>>
NextDay ==
  /\ ovToday < LastDay
  /\ ovToday' = ovToday + 1
  /\ UNCHANGED <<ovHistory, ovPage, ovSync, ovSaved, ovFilter, ovDeferred, ovLocal, ovDays>>

\* The decisions are read before the states: one may be made in between.
FetchOverview ==
  \E n \in {Len(ovHistory), IF ovHistory = <<>> THEN 0 ELSE Len(ovHistory) - 1} :
    ovPage' = [decisions |-> n, states |-> Len(ovHistory), day |-> ovToday]
ComputedNow == ovDays' = [figures |-> ovToday, chart |-> ovToday]
\* The page is opened: the filter is the default, the toggle the one kept.
OpenOverview ==
  /\ FetchOverview /\ ComputedNow
  /\ ovSync' = ovSaved
  /\ ovFilter' = DefaultFilter /\ ovDeferred' = DefaultFilter /\ ovLocal' = DefaultLocal
  /\ UNCHANGED <<ovHistory, ovToday, ovSaved>>
\* The data is refreshed: everything the educator chose stays.
RefreshOverview ==
  /\ ovPage # NoFetch
  /\ FetchOverview /\ ComputedNow
  /\ UNCHANGED <<ovHistory, ovToday, ovSync, ovSaved, ovFilter, ovDeferred, ovLocal>>

\* The toggle; a browser that keeps nothing forgets it.
SetSyncEnabled(on) ==
  /\ ovPage # NoFetch
  /\ ovSync' = on
  /\ ovSaved' \in {on, ovSaved}
  /\ ovFilter' = IF on THEN ovFilter ELSE DefaultFilter
  /\ ComputedNow
  /\ UNCHANGED <<ovHistory, ovToday, ovPage, ovDeferred, ovLocal>>
\* The shared filter changes at once, the figures when the browser has time.
SetFilter(filter) ==
  /\ ovPage # NoFetch /\ ovSync
  /\ ovFilter' = filter
  /\ ovDays' = IF filter.range # ovFilter.range \/ filter.type # ovFilter.type
                 THEN [ovDays EXCEPT !.chart = ovToday] ELSE ovDays
  /\ UNCHANGED <<ovHistory, ovToday, ovPage, ovSync, ovSaved, ovDeferred, ovLocal>>
SetChart(local) ==
  /\ ovPage # NoFetch
  /\ ovSync => local.range = ovLocal.range /\ local.type = ovLocal.type
  /\ local # ovLocal
  /\ ovLocal' = local
  /\ ovDays' = [ovDays EXCEPT !.chart = ovToday]
  /\ UNCHANGED <<ovHistory, ovToday, ovPage, ovSync, ovSaved, ovFilter, ovDeferred>>
FiltersSettle ==
  /\ ~Settled
  /\ ovDeferred' = ovFilter
  /\ ovDays' = IF ovSync THEN [figures |-> ovToday, chart |-> ovToday] ELSE ovDays
  /\ UNCHANGED <<ovHistory, ovToday, ovPage, ovSync, ovSaved, ovFilter, ovLocal>>

OverviewNext ==
  \/ \E l \in OvLearners, t \in OvTypes, s \in {0, 1} : NewDecision(l, t, s)
  \/ NextDay
  \/ OpenOverview
  \/ RefreshOverview
  \/ \E on \in BOOLEAN : SetSyncEnabled(on)
  \/ \E r \in OvRanges : SetFilter([ovFilter EXCEPT !.range = r])
  \/ \E t \in OvTypes \cup {AnyType} : SetFilter([ovFilter EXCEPT !.type = t])
  \/ \E ls \in OvNeedles \cup {OvLearners} : SetFilter([ovFilter EXCEPT !.learner = ls])
  \/ SetFilter(DefaultFilter)
  \/ \E r \in OvRanges : SetChart([ovLocal EXCEPT !.range = r])
  \/ \E t \in OvTypes \cup {AnyType} : SetChart([ovLocal EXCEPT !.type = t])
  \/ \E v \in {"decisions", "mastery"} : SetChart([ovLocal EXCEPT !.view = v])
  \/ FiltersSettle

OverviewSpec == OverviewInit /\ [][OverviewNext]_ovVars

\* The page holds no more than the history has, and the figures and the chart are each of one day.
OverviewTypeOK ==
  LET Days == FirstDay..LastDay IN
  /\ Len(ovHistory) <= MaxHistory /\ ovToday \in Days
  /\ \A k \in DOMAIN ovHistory : ovHistory[k] \in [day : Days, learner : OvLearners, type : OvTypes, score : {0, 1}]
  /\ ovPage.decisions \in 0..ovPage.states /\ ovPage.states \in 0..Len(ovHistory) /\ ovPage.day \in Days \cup {0}
  /\ ovSync \in BOOLEAN /\ ovSaved \in BOOLEAN
  /\ {ovFilter, ovDeferred} \subseteq [type : OvTypes \cup {AnyType}, learner : SUBSET OvLearners, range : OvRanges]
  /\ ovLocal \in [type : OvTypes \cup {AnyType}, range : OvRanges, view : {"decisions", "mastery"}]
  /\ ovDays \in [figures : Days, chart : Days]

\* Every decision the cards count is in the chart, but for those older than its range,
\* of another series, made on the short day, or after the day the chart was computed (a
\* page left open over midnight and refreshed in part).
PlottedUnlessShort ==
  ovLocal.view = "decisions" =>
    \A k \in Kept : LET d == ovHistory[k] IN
      \/ \E key \in DateKeys(ChartRange, ovDays.chart) : k \in Plotted(key)
      \/ d.day \notin (ovDays.chart - ChartRange + 1)..ovDays.chart
      \/ d.day = ShortDay
      \/ ChartSeries \notin {AnyType, d.type}

\* The change beside "Needs attention" is the number of learners whose first urgent
\* decision, of those kept, is of the day of the figures: it never sinks, for a learner
\* leaves the count neither by a review nor by a later decision of another type.
DeltaCountsNewLearners ==
  AttentionDelta(Kept, FiguresDay) =
    Cardinality({l \in RankedLearners(Kept) :
      \A k \in Kept : ovHistory[k].learner = l /\ ovHistory[k].type \in Urgent => ovHistory[k].day >= FiguresDay})

\* Once the filter has settled, nothing is hidden without a chip that says so, but for what
\* is older than the default range; with the surfaces apart nothing at all is.
NothingHiddenSilently ==
  Settled =>
    \A k \in (1..ovPage.decisions) \ Kept :
      ovSync /\ (Chips \/ ovHistory[k].day <= ovDays.figures - DefaultRange)

\* A day without mastery in the chart, on which a sampled learner's state changed to a
\* mean above nought, is one after which the state changed again (the chart holds a state
\* only at its last change, so a point of the past may go), the short day, or out of range.
EmptyDayHasCause ==
  \A k \in 1..ovPage.states : LET d == ovHistory[k] IN
    d.learner \in Sampled /\ d.score > 0 =>
      \/ d.day \in DateKeys(ChartRange, ovDays.chart) /\ ~MasteryIsZero(d.day)
      \/ LastOf(d.learner) > k
      \/ d.day = ShortDay
      \/ d.day \notin (ovDays.chart - ChartRange + 1)..ovDays.chart

\* Cards, table and chart tell of the same decisions, whatever is filtered, refreshed or left open
\* over midnight, but for the short day and what a chip says is hidden.
OverviewAgrees ==
  /\ OverviewTypeOK /\ PlottedUnlessShort /\ DeltaCountsNewLearners
  /\ NothingHiddenSilently /\ EmptyDayHasCause
================================================================================
