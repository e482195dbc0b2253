----------------------------- MODULE ReadingProofs -----------------------------
(***************************************************************************)
(* Proofs about what is read.  While signals go on being ingested, and for *)
(* any number of signals, learners, requests and pages, the parts of a     *)
(* learner's summary belong together: SummaryAlwaysHolds.  Whatever is     *)
(* wrong with the parameters of a request, the hosts find the same fault   *)
(* and a client that corrects it comes to an end: RequestsAlwaysAnswered.  *)
(* And a client that turns the pages of a listing sees no row twice and    *)
(* misses none that was there when it began, save where the store's own    *)
(* order of rows lets it: ListingsAlwaysHold.                              *)
(***************************************************************************)
EXTENDS Listings, LearnerSummary, ReadRequests, FiniteSetTheorems, WellFoundedInduction, TLAPS

\* Natural numbers of a set that is not empty have a smallest one among them.
LEMMA Smallest == \A T \in SUBSET Nat : T # {} => \E m \in T : \A n \in T : m <= n
<1> SUFFICES ASSUME NEW T \in SUBSET Nat, T # {} PROVE \E m \in T : \A n \in T : m <= n
  OBVIOUS
<1> DEFINE less == OpToRel(<, Nat)
<1>1. \A m \in Nat, n \in Nat : (<<m, n>> \in less) <=> (m < n)
  BY DEF OpToRel
<1>2. IsWellFoundedOn(less, Nat)
  BY NatLessThanWellFounded
<1> HIDE DEF less
<1>3. PICK m \in T : \A n \in T : ~(<<n, m>> \in less)
  BY <1>2, WFMin
<1>4. \A n \in T : m <= n
  <2> SUFFICES ASSUME NEW n \in T PROVE m <= n
    OBVIOUS
  <2>1. m \in Nat /\ n \in Nat
    OBVIOUS
  <2>2. ~(n < m)
    BY <1>1, <1>3, <2>1
  <2> QED
    BY <2>1, <2>2
<1> QED
  BY <1>4

\* Of numbers up to a bound there is a largest.
LEMMA Largest ==
    ASSUME NEW k \in Nat, NEW S \in SUBSET (0..k), S # {}
    PROVE  \E m \in S : \A n \in S : n <= m
<1> DEFINE T == {k - n : n \in S}
<1>1. T \in SUBSET Nat /\ T # {}
  <2>1. \A n \in S : n \in Nat /\ k - n \in Nat
    OBVIOUS
  <2>2. PICK n \in S : TRUE
    OBVIOUS
  <2>3. k - n \in T
    OBVIOUS
  <2> QED
    BY <2>1, <2>3
<1> HIDE DEF T
<1>2. PICK m \in T : \A n \in T : m <= n
  BY <1>1, Smallest
<1>3. PICK x \in S : m = k - x
  BY DEF T
<1>4. ASSUME NEW y \in S PROVE y <= x
  <2>1. m <= k - y
    BY <1>2 DEF T
  <2> QED
    BY <2>1, <1>3
<1> QED
  BY <1>4

--------------------------------------------------------------------------------
\* The summary of a learner, read while signals go on being ingested.
Accepted == [stage : {"normalizing", "deciding", "done"}, signal : Signals, at : Times]
TablesTyped ==
  /\ store \in Deployments /\ now \in Times
  /\ received \in [Signals -> 0..MaxTime]
  /\ signals \in Seq(Row) /\ decisions \in Seq(Row)
  /\ states \in [Learners -> Seq(Times)]
  /\ request \in [Requests -> {Idle} \cup Accepted]

\* A state version per signal of the learner, made when it was accepted.
VersionPerSignal(l) ==
  /\ SignalCount(l) = Len(states[l])
  /\ states[l] # <<>> => states[l][Len(states[l])] \in SignalTimes(l)
TablesInv == TablesTyped /\ \A l \in Learners : VersionPerSignal(l)

\* While a summary is read the tables grow, behind what is there.
TablesGrow ==
  /\ \A l \in Learners : Len(states[l]) <= Len(states'[l]) /\ SignalTimes(l) \subseteq (SignalTimes(l))'
  /\ \A l \in Learners : DecisionsOf(l) \subseteq (DecisionsOf(l))'
  /\ \A i \in DOMAIN decisions : decisions'[i] = decisions[i]

\* Steps that leave the signals and the states alone.
LEMMA DecisionsGrow ==
    ASSUME TablesInv, UNCHANGED <<store, received, signals, states>>, now' \in Times,
           decisions' = decisions \/ \E d \in Row : decisions' = Append(decisions, d),
           request' \in [Requests -> {Idle} \cup Accepted]
    PROVE  TablesInv' /\ TablesGrow
<1>1. decisions \in Seq(Row) /\ decisions' \in Seq(Row)
      /\ \A i \in DOMAIN decisions : i \in DOMAIN decisions' /\ decisions'[i] = decisions[i]
  <2>1. decisions \in Seq(Row)
    BY DEF TablesInv, TablesTyped
  <2>2. CASE decisions' = decisions
    BY <2>1, <2>2
  <2>3. ASSUME NEW d \in Row, decisions' = Append(decisions, d)
        PROVE  decisions' \in Seq(Row)
               /\ \A i \in DOMAIN decisions : i \in DOMAIN decisions' /\ decisions'[i] = decisions[i]
    BY <2>1, <2>3
  <2> QED
    BY <2>1, <2>2, <2>3
<1>2. TablesTyped'
  BY <1>1 DEF TablesInv, TablesTyped
<1>3. \A l \in Learners : (SignalTimes(l))' = SignalTimes(l) /\ (SignalCount(l))' = SignalCount(l)
  BY DEF SignalTimes, SignalCount
<1>4. \A l \in Learners : VersionPerSignal(l)'
  BY <1>3 DEF TablesInv, VersionPerSignal
<1>5. \A l \in Learners : Len(states[l]) \in Nat
  BY DEF TablesInv, TablesTyped
<1>6. TablesGrow
  BY <1>1, <1>3, <1>5 DEF TablesGrow, DecisionsOf
<1> QED
  BY <1>2, <1>4, <1>6 DEF TablesInv

\* A signal is accepted: a row of the log and a version of the learner's state.
LEMMA AcceptKeeps ==
    ASSUME TablesInv, NEW r \in Requests, Accept(r)
    PROVE  TablesInv' /\ TablesGrow
<1> DEFINE s == request[r].signal  l == LearnerOf[s]  row == [signal |-> s, at |-> now]
<1>1. request[r] \in Accepted /\ s \in Signals /\ now \in Times /\ l \in Learners
  <2>1. request[r] \in {Idle} \cup Accepted /\ request[r].stage = "normalizing" /\ now \in Times
    BY DEF TablesInv, TablesTyped, Accept
  <2>2. request[r] \in Accepted
    BY <2>1 DEF Idle
  <2> QED
    BY <2>1, <2>2, TablesAssumption DEF Accepted
<1>2. /\ received' = [received EXCEPT ![s] = now] /\ signals' = Append(signals, row)
      /\ states' = [states EXCEPT ![l] = Append(states[l], now)]
      /\ request' = [request EXCEPT ![r] = [request[r] EXCEPT !.stage = "deciding"]]
      /\ UNCHANGED <<store, now, decisions>>
  BY DEF Accept
<1>3. PICK n \in Nat : n = Len(signals)
  BY DEF TablesInv, TablesTyped
<1>4. PICK q \in Seq(Times) : q = states[l]
  BY <1>1 DEF TablesInv, TablesTyped
<1>5. PICK t \in Times : t = now
  BY <1>1
<1>6. PICK row1 \in Row : row1.signal = s /\ row1.at = t /\ signals' = Append(signals, row1)
  BY <1>1, <1>2, <1>5 DEF Row
<1>7. PICK u \in Learners : u = l
  BY <1>1
<1>8. request' \in [Requests -> {Idle} \cup Accepted]
  <2>1. [request[r] EXCEPT !.stage = "deciding"] \in Accepted
    BY <1>1 DEF Accepted
  <2> QED
    BY <2>1, <1>2 DEF TablesInv, TablesTyped
<1>9. received' \in [Signals -> 0..MaxTime]
  <2>1. now \in 0..MaxTime
    BY <1>1, TablesAssumption DEF Times
  <2> QED
    BY <2>1, <1>2 DEF TablesInv, TablesTyped
<1>10. /\ signals' \in Seq(Row) /\ DOMAIN signals' = 1..(n + 1) /\ DOMAIN signals = 1..n
       /\ signals'[n + 1] = row1 /\ \A i \in 1..n : signals'[i] = signals[i]
  BY <1>3, <1>6 DEF TablesInv, TablesTyped
<1>11. states' = [states EXCEPT ![u] = Append(q, t)] /\ Append(q, t) \in Seq(Times)
       /\ Len(Append(q, t)) = Len(q) + 1 /\ Append(q, t)[Len(q) + 1] = t
  BY <1>2, <1>4, <1>5, <1>7
<1>12. states \in [Learners -> Seq(Times)]
  BY DEF TablesInv, TablesTyped
<1>13. states' \in [Learners -> Seq(Times)] /\ states'[u] = Append(q, t)
       /\ \A w \in Learners : w # u => states'[w] = states[w]
  BY <1>11, <1>12
<1>14. TablesTyped'
  BY <1>2, <1>8, <1>9, <1>10, <1>13 DEF TablesInv, TablesTyped
<1>15. ASSUME NEW w \in Learners
       PROVE  /\ VersionPerSignal(w)' /\ SignalTimes(w) \subseteq (SignalTimes(w))'
              /\ Len(states[w]) <= Len(states'[w])
  <2> DEFINE S == {i \in 1..n : LearnerOf[signals[i].signal] = w}
             T == {i \in 1..(n + 1) : LearnerOf[signals'[i].signal] = w}
  <2>1. SignalCount(w) = Cardinality(S) /\ (SignalCount(w))' = Cardinality(T)
    BY <1>10 DEF SignalCount
  <2>2. SignalTimes(w) = {signals[i].at : i \in S} /\ (SignalTimes(w))' = {signals'[i].at : i \in T}
    BY <1>10 DEF SignalTimes
  <2>3. T = IF w = u THEN S \cup {n + 1} ELSE S
    BY <1>6, <1>7, <1>10
  <2>4. IsFiniteSet(S) /\ n + 1 \notin S
    <3>1. 1 \in Int /\ n \in Int
      OBVIOUS
    <3>2. IsFiniteSet(1..n)
      BY <3>1, FS_Interval
    <3> QED
      BY <3>2, FS_Subset
  <2>5. \A i \in S : signals'[i] = signals[i]
    BY <1>10
  <2>6. S \subseteq T
    BY <2>3
  <2>7. SignalTimes(w) \subseteq (SignalTimes(w))'
    BY <2>2, <2>5, <2>6
  <2>8. SignalCount(w) = Len(states[w]) /\ (states[w] # <<>> => states[w][Len(states[w])] \in SignalTimes(w))
    BY DEF TablesInv, VersionPerSignal
  <2> HIDE DEF S, T
  <2>9. CASE w = u
    <3>1. Cardinality(T) = Cardinality(S) + 1
      BY <2>3, <2>4, <2>9, FS_AddElement
    <3>2. n + 1 \in T
      BY <2>3, <2>9
    <3>3. t \in (SignalTimes(w))'
      BY <2>2, <3>2, <1>6, <1>10
    <3>4. states[w] = q /\ states'[w] = Append(q, t) /\ Len(states'[w]) = Len(q) + 1 /\ Len(q) \in Nat
      BY <2>9, <1>4, <1>7, <1>11, <1>13
    <3>5. (SignalCount(w))' = Len(states'[w]) /\ states'[w][Len(states'[w])] = t
      BY <2>1, <2>8, <3>1, <3>4, <1>11
    <3>6. VersionPerSignal(w)'
      BY <3>3, <3>5 DEF VersionPerSignal
    <3> QED
      BY <3>4, <3>6, <2>7
  <2>10. CASE w # u
    <3>1. states'[w] = states[w] /\ Len(states[w]) \in Nat
      BY <1>12, <1>13, <2>10
    <3>2. (SignalCount(w))' = SignalCount(w)
      BY <2>1, <2>3, <2>10
    <3>3. VersionPerSignal(w)'
      BY <2>7, <2>8, <3>1, <3>2 DEF VersionPerSignal
    <3> QED
      BY <3>1, <3>3, <2>7
  <2> QED
    BY <2>9, <2>10
<1>16. TablesGrow
  BY <1>2, <1>15 DEF TablesGrow, DecisionsOf
<1> QED
  BY <1>14, <1>15, <1>16 DEF TablesInv

\* Any step of the tables.
LEMMA TablesStep ==
    ASSUME TablesInv, TablesNext
    PROVE  TablesInv' /\ TablesGrow
<1>1. CASE Tick
  <2>1. now' \in Times /\ request' = request /\ decisions' = decisions
        /\ UNCHANGED <<store, received, signals, states>>
    BY <1>1, TablesAssumption DEF Tick, tables, TablesInv, TablesTyped, Times
  <2>2. request' \in [Requests -> {Idle} \cup Accepted]
    BY <2>1 DEF TablesInv, TablesTyped
  <2> QED
    BY <2>1, <2>2, DecisionsGrow
<1>2. ASSUME NEW r \in Requests, NEW s \in Signals, Arrive(r, s) PROVE TablesInv' /\ TablesGrow
  <2>1. [stage |-> "normalizing", signal |-> s, at |-> now] \in Accepted /\ now' = now /\ now \in Times
        /\ decisions' = decisions /\ UNCHANGED <<store, received, signals, states>>
    BY <1>2 DEF Arrive, tables, Accepted, TablesInv, TablesTyped
  <2>2. request' \in [Requests -> {Idle} \cup Accepted]
    BY <1>2, <2>1 DEF Arrive, TablesInv, TablesTyped
  <2> QED
    BY <2>1, <2>2, DecisionsGrow
<1>3. ASSUME NEW r \in Requests, Reject(r) \/ Duplicate(r) \/ Decide(r) PROVE TablesInv' /\ TablesGrow
  <2>1. /\ request[r].stage \in {"normalizing", "deciding"}
        /\ request' = [request EXCEPT ![r] = [request[r] EXCEPT !.stage = "done"]]
        /\ UNCHANGED <<store, now, received, signals, states>>
    BY <1>3 DEF Reject, Duplicate, Decide, Finish
  <2>2. request[r] \in {Idle} \cup Accepted /\ now \in Times
    BY DEF TablesInv, TablesTyped
  <2>3. request[r] \in Accepted
    BY <2>1, <2>2 DEF Idle
  <2>4. [request[r] EXCEPT !.stage = "done"] \in Accepted /\ request[r].signal \in Signals
    BY <2>3 DEF Accepted
  <2>5. request' \in [Requests -> {Idle} \cup Accepted]
    BY <2>1, <2>4 DEF TablesInv, TablesTyped
  <2>6. [signal |-> request[r].signal, at |-> now] \in Row
    BY <2>2, <2>4 DEF Row
  <2>7. decisions' = decisions \/ \E d \in Row : decisions' = Append(decisions, d)
    BY <1>3, <2>6 DEF Reject, Duplicate, Decide
  <2> QED
    BY <2>1, <2>2, <2>5, <2>7, DecisionsGrow
<1> QED
  BY <1>1, <1>2, <1>3, AcceptKeeps DEF TablesNext


\* What a summary holds, and what each answer was when its query was answered.
SummaryRows ==
  [stage : {"reading", "answered"}, learner : Learners, waiting : SUBSET Queries,
   version : Nat, made : Times, total : Nat, advance : Nat, count : Nat, first : 0..MaxTime, last : 0..MaxTime,
   versions : Nat, pages : Nat, cap : PageCaps, decided : SUBSET Nat]
TypesAnswered(x) ==
  /\ x.advance <= x.total
  /\ "types" \notin x.waiting /\ x.total = x.advance => \A i \in x.decided : decisions[i].signal \in Advances
PagesRead(x) ==
  /\ x.pages <= x.cap
  /\ IF "trajectory" \in x.waiting
     THEN x.versions = x.pages * VersionsPerPage /\ x.versions < x.version /\ x.pages < x.cap
     ELSE x.versions = MinOf({x.version, x.cap * VersionsPerPage})
Assembled(x) ==
  /\ x \in SummaryRows
  /\ x.version \in 1..Len(states[x.learner]) /\ x.made \in SignalTimes(x.learner)
  /\ x.decided \subseteq DecisionsOf(x.learner)
  /\ "count" \notin x.waiting => x.count >= x.version
  /\ "first" \notin x.waiting => x.first # 0 /\ x.first <= x.made
  /\ "last" \notin x.waiting => x.last >= x.made
  /\ TypesAnswered(x) /\ PagesRead(x)
  /\ x.stage = "answered" => x.waiting = {}

\* The inductive invariant: the tables are sound, and a summary under way is of them.
SummaryInv ==
  /\ TablesInv
  /\ summary \in {NoSummary, [stage |-> "not_found"]} \/ Assembled(summary)

\* The smallest and the largest of a set, when one is.
LEMMA MinOfIs ==
    ASSUME NEW S \in SUBSET Nat, S # {}
    PROVE  MinOf(S) \in S /\ \A n \in S : MinOf(S) <= n
<1>1. \E m \in S : \A n \in S : m <= n
  BY Smallest
<1> QED
  BY <1>1 DEF MinOf

\* Of two numbers one is the smaller.
LEMMA MinOfTwo ==
    ASSUME NEW a \in Nat, NEW b \in Nat
    PROVE  MinOf({a, b}) = IF a <= b THEN a ELSE b
<1>1. {a, b} \in SUBSET Nat /\ {a, b} # {}
  OBVIOUS
<1>2. MinOf({a, b}) \in {a, b} /\ MinOf({a, b}) <= a /\ MinOf({a, b}) <= b
  BY <1>1, MinOfIs
<1> QED
  BY <1>2

\* The times of a learner's signals have a first and a last.
LEMMA FirstAndLast ==
    ASSUME TablesInv, NEW l \in Learners, NEW made \in SignalTimes(l)
    PROVE  /\ FirstSignalAt(l) \in 1..made /\ LastSignalAt(l) \in made..MaxTime
<1>1. SignalTimes(l) \subseteq 1..MaxTime /\ SignalTimes(l) # {}
  <2>1. \A i \in DOMAIN signals : signals[i] \in Row
    BY DEF TablesInv, TablesTyped
  <2>2. \A i \in DOMAIN signals : signals[i].at \in 1..MaxTime
    BY <2>1 DEF Row, Times
  <2> QED
    BY <2>2 DEF SignalTimes
<1> DEFINE S == SignalTimes(l)
<1> HIDE DEF S
<1>2. S \subseteq 1..MaxTime /\ S # {} /\ S \in SUBSET Nat /\ made \in S /\ S \in SUBSET (0..MaxTime)
      /\ MaxTime \in Nat
  BY <1>1, TablesAssumption DEF S
<1>3. MinOf(S) \in S /\ MinOf(S) <= made
  BY <1>2, MinOfIs
<1>4. MaxOf(S) \in S /\ MaxOf(S) >= made
  <2>1. PICK m \in S : \A n \in S : n <= m
    BY <1>2, Largest
  <2>2. \A n \in S : m >= n
    BY <1>2, <2>1
  <2> QED
    BY <1>2, <2>2 DEF MaxOf
<1>5. FirstSignalAt(l) = MinOf(S) /\ LastSignalAt(l) = MaxOf(S)
  BY <1>2 DEF FirstSignalAt, LastSignalAt, S
<1>6. MinOf(S) \in 1..MaxTime /\ MaxOf(S) \in 1..MaxTime /\ made \in 1..MaxTime
  BY <1>2, <1>3, <1>4
<1> QED
  BY <1>2, <1>3, <1>4, <1>5, <1>6

\* Of all decisions of a learner, those to advance are all of them when they are as many.
LEMMA CountedTypes ==
    ASSUME TablesInv, NEW l \in Learners
    PROVE  /\ TypeCounts(l).total \in Nat /\ TypeCounts(l).advance \in 0..TypeCounts(l).total
           /\ TypeCounts(l).total = TypeCounts(l).advance =>
                \A i \in DecisionsOf(l) : decisions[i].signal \in Advances
<1> DEFINE D == DecisionsOf(l)  A == {i \in D : decisions[i].signal \in Advances}
<1>1. PICK n \in Nat : n = Len(decisions) /\ DOMAIN decisions = 1..n
  BY DEF TablesInv, TablesTyped
<1>2. IsFiniteSet(1..n)
  <2>1. 1 \in Int /\ n \in Int
    OBVIOUS
  <2> QED
    BY <2>1, FS_Interval
<1>3. D \subseteq 1..n /\ A \subseteq D
  BY <1>1 DEF DecisionsOf
<1>4. TypeCounts(l).total = Cardinality(D) /\ TypeCounts(l).advance = Cardinality(A)
  BY DEF TypeCounts
<1> HIDE DEF D
<1>5. IsFiniteSet(D)
  BY <1>2, <1>3, FS_Subset
<1>6. IsFiniteSet(A) /\ Cardinality(A) <= Cardinality(D) /\ (Cardinality(D) = Cardinality(A) => D = A)
  BY <1>3, <1>5, FS_Subset
<1>7. Cardinality(D) \in Nat /\ Cardinality(A) \in Nat
  BY <1>5, <1>6, FS_CardinalityType
<1>8. D = A => \A i \in D : decisions[i].signal \in Advances
  OBVIOUS
<1> HIDE DEF A
<1> QED
  BY <1>4, <1>6, <1>7, <1>8 DEF D

\* Whole pages of versions up to a cap are no more pages than the cap.
LEMMA PagesUpToCap ==
    ASSUME NEW x \in Nat, NEW cap \in Nat, NEW P \in Nat \ {0}, x <= cap * P
    PROVE  (x + P - 1) \div P \in 0..cap
<1> DEFINE q == (x + P - 1) \div P
<1>1. q \in Int /\ q * P <= x + P - 1 /\ x + P - 1 < (q + 1) * P
  OBVIOUS
<1> HIDE DEF q
<1>2. q >= 0
  <2>1. (q + 1) * P > 0
    BY <1>1
  <2>2. q + 1 > 0
    BY <2>1, <1>1
  <2> QED
    BY <2>2, <1>1
<1>3. q < cap + 1
  <2>1. q * P < (cap + 1) * P
    BY <1>1
  <2> QED
    BY <2>1, <1>1
<1> QED
  BY <1>1, <1>2, <1>3 DEF q


\* A summary that is read stays right while the tables grow.
LEMMA GrowingKeeps ==
    ASSUME TablesInv, TablesInv', TablesGrow, NEW x, Assembled(x)
    PROVE  Assembled(x)'
<1>1. x \in SummaryRows /\ x.learner \in Learners /\ x.version \in 1..Len(states[x.learner])
      /\ x.made \in SignalTimes(x.learner) /\ x.decided \subseteq DecisionsOf(x.learner)
  BY DEF Assembled, SummaryRows
<1>2. Len(states[x.learner]) \in Nat /\ Len(states'[x.learner]) \in Nat
  BY <1>1 DEF TablesInv, TablesTyped
<1>3. x.version \in 1..Len(states'[x.learner])
  BY <1>1, <1>2 DEF TablesGrow
<1>4. x.made \in (SignalTimes(x.learner))' /\ x.decided \subseteq (DecisionsOf(x.learner))'
  BY <1>1 DEF TablesGrow
<1>5. \A i \in x.decided : decisions'[i] = decisions[i]
  BY <1>1 DEF TablesGrow, DecisionsOf
<1>6. TypesAnswered(x)'
  BY <1>5 DEF Assembled, TypesAnswered
<1>7. PagesRead(x)'
  BY DEF Assembled, PagesRead
<1> QED
  BY <1>1, <1>3, <1>4, <1>6, <1>7 DEF Assembled

\* The first read, when nothing has been answered yet.
LEMMA FoundIsAssembled ==
    ASSUME TablesInv, NEW l \in Learners, states[l] # <<>>, NEW cap \in PageCaps
    PROVE  /\ Assembled(Found(l, Queries, cap))
           /\ Len(states[l]) \in Nat \ {0} /\ states[l][Len(states[l])] \in SignalTimes(l) \cap Times
           /\ DecisionsOf(l) \subseteq Nat
<1> DEFINE x == Found(l, Queries, cap)
<1>1. states[l] \in Seq(Times) /\ Len(states[l]) \in Nat \ {0}
  BY DEF TablesInv, TablesTyped
<1>2. states[l][Len(states[l])] \in Times
  BY <1>1
<1>3. states[l][Len(states[l])] \in SignalTimes(l)
  BY DEF TablesInv, VersionPerSignal
<1>4. DecisionsOf(l) \subseteq Nat
  BY DEF DecisionsOf, TablesInv, TablesTyped
<1>5. cap \in Nat \ {0} /\ VersionsPerPage \in Nat \ {0} /\ 0 \in 0..MaxTime
  BY SummaryAssumption, TablesAssumption
<1>6. /\ x.stage = "reading" /\ x.learner = l /\ x.waiting = Queries /\ x.version = Len(states[l])
      /\ x.made = states[l][Len(states[l])] /\ x.total = 0 /\ x.advance = 0 /\ x.versions = 0 /\ x.pages = 0
      /\ x.cap = cap /\ x.decided = DecisionsOf(l)
  BY DEF Found
<1>7. x \in SummaryRows
  BY <1>1, <1>2, <1>4, <1>5 DEF Found, SummaryRows
<1> HIDE DEF x
<1>8. TypesAnswered(x) /\ PagesRead(x)
  <2>1. 0 * VersionsPerPage = 0
    BY <1>5
  <2> QED
    BY <2>1, <1>1, <1>5, <1>6 DEF TypesAnswered, PagesRead, Queries
<1>9. Assembled(x)
  BY <1>1, <1>3, <1>6, <1>7, <1>8 DEF Assembled, Queries
<1> QED
  BY <1>1, <1>2, <1>3, <1>4, <1>9 DEF x

\* The trajectory, one page further.
LEMMA PageKeeps ==
    ASSUME TablesInv, Assembled(summary), "trajectory" \in summary.waiting
    PROVE  LET s == [summary EXCEPT !.waiting = summary.waiting \ {"trajectory"}]
               x == [s EXCEPT !.versions = AfterPage(s), !.pages = s.pages + 1,
                              !.waiting = IF LastPage(s) THEN s.waiting ELSE s.waiting \cup {"trajectory"}]
           IN Assembled(x)
<1> DEFINE W == summary.waiting
          s == [summary EXCEPT !.waiting = W \ {"trajectory"}]
          w == IF LastPage(s) THEN W \ {"trajectory"} ELSE (W \ {"trajectory"}) \cup {"trajectory"}
          x == [s EXCEPT !.versions = AfterPage(s), !.pages = s.pages + 1,
                         !.waiting = IF LastPage(s) THEN s.waiting ELSE s.waiting \cup {"trajectory"}]
          P == VersionsPerPage
<1>1. summary \in SummaryRows /\ summary.version \in 1..Len(states[summary.learner])
      /\ P \in Nat \ {0} /\ summary.learner \in Learners /\ summary.cap \in Nat \ {0}
  BY SummaryAssumption DEF Assembled, SummaryRows
<1>2. /\ summary.versions = summary.pages * P /\ summary.versions < summary.version
      /\ summary.pages < summary.cap
  BY DEF Assembled, PagesRead
<1>3. /\ s \in SummaryRows /\ s.versions = summary.versions /\ s.version = summary.version
      /\ s.learner = summary.learner /\ s.pages = summary.pages /\ s.cap = summary.cap
      /\ s.waiting = W \ {"trajectory"}
  BY <1>1 DEF SummaryRows
<1>4. summary.pages \in Nat /\ summary.versions \in Nat /\ summary.version \in Nat
      /\ Len(states[summary.learner]) \in Nat
  BY <1>1 DEF SummaryRows, TablesInv, TablesTyped
<1>5. AfterPage(s) = IF summary.versions + P <= summary.version THEN summary.versions + P ELSE summary.version
  <2> DEFINE S == {s.versions + VersionsPerPage, s.version, Len(states[s.learner])}
  <2>1. S = {summary.versions + P, summary.version, Len(states[summary.learner])}
    BY <1>3
  <2>2. S \in SUBSET Nat /\ S # {}
    BY <2>1, <1>1, <1>4
  <2>3. AfterPage(s) = MinOf(S)
    BY DEF AfterPage
  <2> HIDE DEF S, s, P
  <2>4. AfterPage(s) \in S /\ \A n \in S : AfterPage(s) <= n
    BY <2>2, <2>3, MinOfIs
  <2> QED
    BY <2>1, <2>4, <1>1, <1>4
<1>6. LastPage(s) <=> (AfterPage(s) >= summary.version \/ summary.pages + 1 = summary.cap)
  BY <1>3 DEF LastPage
<1> DEFINE a == AfterPage(s)
<1>7. a \in Nat
  BY <1>1, <1>4, <1>5
<1>8. x = [summary EXCEPT !.versions = a, !.pages = summary.pages + 1, !.waiting = w]
  <2>1. s.waiting = W \ {"trajectory"} /\ s.pages = summary.pages
    BY <1>3
  <2>2. x = [s EXCEPT !.versions = a, !.pages = summary.pages + 1, !.waiting = w]
    BY <2>1
  <2> HIDE DEF x, w, a
  <2> QED
    BY <2>2, <1>1 DEF SummaryRows
<1> HIDE DEF x, s, a
<1>9. w \in SUBSET Queries /\ w \subseteq W
      /\ \A q \in {"count", "first", "last", "types"} : q \in w <=> q \in W
  BY <1>1 DEF SummaryRows
<1>10. "trajectory" \in w <=> ~LastPage(s)
  OBVIOUS
<1> HIDE DEF w
<1>11. /\ x \in SummaryRows /\ x.versions = a /\ x.pages = summary.pages + 1 /\ x.waiting = w
       /\ x.stage = summary.stage /\ x.learner = summary.learner /\ x.version = summary.version
       /\ x.made = summary.made /\ x.total = summary.total /\ x.advance = summary.advance
       /\ x.count = summary.count /\ x.first = summary.first /\ x.last = summary.last
       /\ x.cap = summary.cap /\ x.decided = summary.decided
  <2>1. x = [stage |-> summary.stage, learner |-> summary.learner, waiting |-> w, version |-> summary.version,
             made |-> summary.made, total |-> summary.total, advance |-> summary.advance,
             count |-> summary.count, first |-> summary.first, last |-> summary.last,
             versions |-> a, pages |-> summary.pages + 1, cap |-> summary.cap, decided |-> summary.decided]
    BY <1>1, <1>8 DEF SummaryRows
  <2>2. /\ summary.stage \in {"reading", "answered"} /\ summary.learner \in Learners /\ summary.made \in Times
        /\ summary.total \in Nat /\ summary.advance \in Nat /\ summary.count \in Nat
        /\ summary.first \in 0..MaxTime /\ summary.last \in 0..MaxTime /\ summary.cap \in PageCaps
        /\ summary.decided \in SUBSET Nat
    BY <1>1 DEF SummaryRows
  <2>3. summary.pages + 1 \in Nat
    BY <1>4
  <2>4. x \in SummaryRows
    BY <2>1, <2>2, <2>3, <1>4, <1>7, <1>9 DEF SummaryRows
  <2> QED
    BY <2>1, <2>4
<1>12. PagesRead(x)
  <2> DEFINE p == summary.pages  c == summary.cap  v == summary.version
  <2>1. (p + 1) * P = summary.versions + P
    BY <1>1, <1>2, <1>4
  <2>2. p + 1 <= c /\ (p + 1) * P <= c * P
    <3>1. p + 1 <= c
      BY <1>1, <1>2, <1>4
    <3>2. (c - (p + 1)) * P >= 0
      BY <3>1, <1>1, <1>4
    <3> QED
      BY <3>1, <3>2, <1>1, <1>4
  <2>3. c * P \in Nat /\ v \in Nat
    BY <1>1, <1>4
  <2>4. MinOf({v, c * P}) = IF v <= c * P THEN v ELSE c * P
    BY <2>3, MinOfTwo
  <2>5. CASE a >= v
    <3>1. a = v /\ v <= summary.versions + P
      BY <2>5, <1>1, <1>4, <1>5 DEF a
    <3> DEFINE m == (p + 1) * P  n == c * P
    <3>2. m = summary.versions + P /\ m <= n /\ n \in Nat
      BY <2>1, <2>2, <2>3
    <3> HIDE DEF m, n
    <3>3. v <= n
      BY <3>1, <3>2, <1>1, <1>4
    <3>4. v <= c * P
      BY <3>3 DEF n
    <3> QED
      BY <3>1, <3>4, <2>2, <2>4, <2>5, <1>6, <1>10, <1>11 DEF PagesRead, a
  <2>6. CASE a < v /\ p + 1 = c
    <3>1. a = c * P /\ ~(v <= c * P)
      BY <2>1, <2>3, <2>6, <1>1, <1>4, <1>5 DEF a
    <3> QED
      BY <3>1, <2>2, <2>4, <2>6, <1>6, <1>10, <1>11 DEF PagesRead, a
  <2>7. CASE a < v /\ p + 1 # c
    <3>1. a = (p + 1) * P
      BY <2>1, <2>7, <1>1, <1>4, <1>5 DEF a
    <3>2. ~LastPage(s)
      BY <2>7, <1>4, <1>6, <1>7 DEF a
    <3> QED
      BY <3>1, <3>2, <2>2, <2>7, <1>10, <1>11, <1>1, <1>4 DEF PagesRead
  <2> QED
    BY <2>5, <2>6, <2>7, <1>4, <1>7
<1>13. TypesAnswered(x)
  BY <1>9, <1>11 DEF Assembled, TypesAnswered
<1>14. Assembled(x)
  BY <1>9, <1>11, <1>12, <1>13 DEF Assembled
<1> QED
  BY <1>14 DEF x, s


\* One of the other queries is answered: what it counts or finds is put in, the rest is kept.
LEMMA AnswerKeeps ==
    ASSUME TablesInv, Assembled(summary), NEW q \in {"types", "count", "first", "last"}, q \in summary.waiting,
           NEW total, NEW advance, NEW count, NEW first, NEW last,
           IF q = "types" THEN total = TypeCounts(summary.learner).total /\ advance = TypeCounts(summary.learner).advance
                          ELSE total = summary.total /\ advance = summary.advance,
           count = IF q = "count" THEN SignalCount(summary.learner) ELSE summary.count,
           first = IF q = "first" THEN FirstSignalAt(summary.learner) ELSE summary.first,
           last = IF q = "last" THEN LastSignalAt(summary.learner) ELSE summary.last
    PROVE  Assembled([stage |-> summary.stage, learner |-> summary.learner, waiting |-> summary.waiting \ {q},
                      version |-> summary.version, made |-> summary.made, total |-> total, advance |-> advance,
                      count |-> count, first |-> first, last |-> last,
                      versions |-> summary.versions, pages |-> summary.pages, cap |-> summary.cap, decided |-> summary.decided])
<1> DEFINE l == summary.learner
           x == [stage |-> summary.stage, learner |-> summary.learner, waiting |-> summary.waiting \ {q},
                 version |-> summary.version, made |-> summary.made, total |-> total, advance |-> advance,
                 count |-> count, first |-> first, last |-> last,
                 versions |-> summary.versions, pages |-> summary.pages, cap |-> summary.cap, decided |-> summary.decided]
<1>1. summary \in SummaryRows /\ l \in Learners /\ summary.version \in 1..Len(states[l])
      /\ summary.made \in SignalTimes(l) /\ summary.made \in Times /\ summary.decided \subseteq DecisionsOf(l)
      /\ summary.waiting \in SUBSET Queries /\ summary.version \in Nat /\ Times = 1..MaxTime /\ MaxTime \in Nat
  BY TablesAssumption DEF Assembled, SummaryRows, Times
<1>2. x = [stage |-> summary.stage, learner |-> summary.learner, waiting |-> summary.waiting \ {q},
           version |-> summary.version, made |-> summary.made, total |-> total, advance |-> advance,
           count |-> count, first |-> first, last |-> last,
           versions |-> summary.versions, pages |-> summary.pages, cap |-> summary.cap, decided |-> summary.decided]
  OBVIOUS
<1> HIDE DEF x
<1>3. total \in Nat /\ advance \in Nat
      /\ (q = "types" => /\ advance <= total
                         /\ total = advance => \A i \in summary.decided : decisions[i].signal \in Advances)
  <2>1. CASE q = "types"
    <3>1. /\ TypeCounts(l).total \in Nat /\ TypeCounts(l).advance \in 0..TypeCounts(l).total
          /\ TypeCounts(l).total = TypeCounts(l).advance =>
               \A i \in DecisionsOf(l) : decisions[i].signal \in Advances
      BY <1>1, CountedTypes
    <3> QED
      BY <2>1, <3>1, <1>1
  <2>2. CASE q # "types"
    BY <2>2, <1>1 DEF SummaryRows
  <2> QED
    BY <2>1, <2>2
<1>4. count \in Nat /\ (q = "count" => count >= summary.version)
  <2>1. CASE q = "count"
    <3>1. count = Len(states[l]) /\ Len(states[l]) \in Nat
      BY <2>1, <1>1 DEF TablesInv, TablesTyped, VersionPerSignal
    <3> QED
      BY <3>1, <1>1
  <2>2. CASE q # "count"
    BY <2>2, <1>1 DEF SummaryRows
  <2> QED
    BY <2>1, <2>2
<1>5. FirstSignalAt(l) \in 1..summary.made /\ LastSignalAt(l) \in summary.made..MaxTime
  BY <1>1, FirstAndLast
<1>6. first \in 0..MaxTime /\ (q = "first" => first # 0 /\ first <= summary.made)
  <2>1. CASE q = "first"
    BY <2>1, <1>1, <1>5
  <2>2. CASE q # "first"
    BY <2>2, <1>1 DEF SummaryRows
  <2> QED
    BY <2>1, <2>2
<1>7. last \in 0..MaxTime /\ (q = "last" => last >= summary.made)
  <2>1. CASE q = "last"
    BY <2>1, <1>1, <1>5
  <2>2. CASE q # "last"
    BY <2>2, <1>1 DEF SummaryRows
  <2> QED
    BY <2>1, <2>2
<1>8. x \in SummaryRows
  <2>1. /\ summary.stage \in {"reading", "answered"} /\ summary.versions \in Nat /\ summary.pages \in Nat
        /\ summary.cap \in PageCaps /\ summary.decided \in SUBSET Nat /\ summary.waiting \ {q} \in SUBSET Queries
    BY <1>1 DEF SummaryRows
  <2> QED
    BY <2>1, <1>1, <1>2, <1>3, <1>4, <1>6, <1>7 DEF SummaryRows
<1>9. x.waiting = summary.waiting \ {q} /\ x.version = summary.version /\ x.made = summary.made
      /\ x.learner = l /\ x.decided = summary.decided /\ x.count = count /\ x.first = first /\ x.last = last
      /\ x.total = total /\ x.advance = advance /\ x.stage = summary.stage
      /\ x.versions = summary.versions /\ x.pages = summary.pages /\ x.cap = summary.cap
  BY <1>2
<1>10. /\ "count" \notin x.waiting => count >= summary.version
       /\ "first" \notin x.waiting => first # 0 /\ first <= summary.made
       /\ "last" \notin x.waiting => last >= summary.made
  BY <1>4, <1>6, <1>7, <1>9 DEF Assembled
<1>11. TypesAnswered(x)
  <2>1. CASE q = "types"
    BY <2>1, <1>3, <1>9 DEF TypesAnswered
  <2>2. CASE q # "types"
    BY <2>2, <1>9 DEF Assembled, TypesAnswered
  <2> QED
    BY <2>1, <2>2
<1>12. PagesRead(x)
  BY <1>9 DEF Assembled, PagesRead
<1>13. x.stage = "answered" => x.waiting = {}
  BY <1>9 DEF Assembled
<1> QED
  BY <1>1, <1>8, <1>9, <1>10, <1>11, <1>12, <1>13 DEF Assembled, x


\* The whole summary in one go.
LEMMA ServerKeeps ==
    ASSUME TablesInv, NEW l \in Learners, states[l] # <<>>, NEW cap \in PageCaps,
           NEW x, x = [Found(l, {}, cap) EXCEPT
             !.stage = "answered",
             !.total = TypeCounts(l).total, !.advance = TypeCounts(l).advance,
             !.count = SignalCount(l), !.first = FirstSignalAt(l), !.last = LastSignalAt(l),
             !.versions = AllVersions(l, cap),
             !.pages = (AllVersions(l, cap) + VersionsPerPage - 1) \div VersionsPerPage]
    PROVE  Assembled(x)
<1> DEFINE P == VersionsPerPage  made == states[l][Len(states[l])]  all == AllVersions(l, cap)
           pages == (AllVersions(l, cap) + VersionsPerPage - 1) \div VersionsPerPage
<1>1. /\ Len(states[l]) \in Nat \ {0} /\ made \in SignalTimes(l) /\ made \in Times
      /\ DecisionsOf(l) \subseteq Nat
  BY FoundIsAssembled
<1>2. cap \in Nat \ {0} /\ P \in Nat \ {0} /\ Times = 1..MaxTime /\ MaxTime \in Nat
  BY SummaryAssumption, TablesAssumption DEF Times
<1>3. PICK n \in Nat \ {0} : n = Len(states[l])
  BY <1>1
<1>4. PICK m \in Nat : m = cap * P
  BY <1>2
<1>5. all \in Nat /\ all <= m /\ all = MinOf({n, m})
  <2>1. all = MinOf({n, m})
    BY <1>3, <1>4 DEF AllVersions
  <2>2. MinOf({n, m}) = IF n <= m THEN n ELSE m
    BY MinOfTwo
  <2> HIDE DEF all
  <2> QED
    BY <2>1, <2>2
<1>6. pages \in 0..cap
  <2> HIDE DEF all
  <2>1. all <= cap * P
    BY <1>4, <1>5
  <2>2. (all + P - 1) \div P \in 0..cap
    BY <2>1, <1>2, <1>5, PagesUpToCap
  <2> QED
    BY <2>2 DEF all
<1>7. /\ TypeCounts(l).total \in Nat /\ TypeCounts(l).advance \in 0..TypeCounts(l).total
      /\ TypeCounts(l).total = TypeCounts(l).advance =>
           \A i \in DecisionsOf(l) : decisions[i].signal \in Advances
  BY CountedTypes
<1>8. FirstSignalAt(l) \in 1..made /\ LastSignalAt(l) \in made..MaxTime
  BY <1>1, FirstAndLast
<1>9. SignalCount(l) = n
  BY <1>3 DEF TablesInv, VersionPerSignal
<1>10. x = [stage |-> "answered", learner |-> l, waiting |-> {}, version |-> n, made |-> made,
            total |-> TypeCounts(l).total, advance |-> TypeCounts(l).advance, count |-> SignalCount(l),
            first |-> FirstSignalAt(l), last |-> LastSignalAt(l),
            versions |-> all, pages |-> pages, cap |-> cap, decided |-> DecisionsOf(l)]
  BY <1>3 DEF Found
<1> HIDE DEF made, all, pages
<1>11. PICK total \in Nat, advance \in Nat, first \in 0..MaxTime, last \in 0..MaxTime, D \in SUBSET Nat :
         /\ total = TypeCounts(l).total /\ advance = TypeCounts(l).advance
         /\ first = FirstSignalAt(l) /\ last = LastSignalAt(l) /\ D = DecisionsOf(l)
  BY <1>1, <1>2, <1>7, <1>8
<1>12. x = [stage |-> "answered", learner |-> l, waiting |-> {}, version |-> n, made |-> made,
            total |-> total, advance |-> advance, count |-> n, first |-> first, last |-> last,
            versions |-> all, pages |-> pages, cap |-> cap, decided |-> D]
  BY <1>9, <1>10, <1>11
<1>13. x \in SummaryRows
  <2>1. pages \in Nat
    BY <1>2, <1>6
  <2> QED
    BY <2>1, <1>1, <1>5, <1>12 DEF SummaryRows
<1>14. x.stage = "answered" /\ x.waiting = {} /\ x.version = n /\ x.made = made
       /\ x.learner = l /\ x.decided = D /\ x.count = n /\ x.first = first /\ x.last = last
       /\ x.total = total /\ x.advance = advance
       /\ x.versions = all /\ x.pages = pages /\ x.cap = cap
  <2> DEFINE y == [stage |-> "answered", learner |-> l, waiting |-> {}, version |-> n, made |-> made,
                   total |-> total, advance |-> advance, count |-> n, first |-> first, last |-> last,
                   versions |-> all, pages |-> pages, cap |-> cap, decided |-> D]
  <2>1. y.stage = "answered" /\ y.waiting = {} /\ y.version = n /\ y.made = made
        /\ y.learner = l /\ y.decided = D /\ y.count = n /\ y.first = first /\ y.last = last
        /\ y.total = total /\ y.advance = advance
        /\ y.versions = all /\ y.pages = pages /\ y.cap = cap
    OBVIOUS
  <2>2. x = y
    BY <1>12
  <2> HIDE DEF y
  <2> QED
    BY <2>1, <2>2
<1>15. TypesAnswered(x)
  BY <1>7, <1>11, <1>14 DEF TypesAnswered
<1>16. PagesRead(x)
  <2>1. x.cap * VersionsPerPage = m /\ x.pages <= x.cap
    BY <1>4, <1>6, <1>14, <1>2
  <2> QED
    BY <2>1, <1>5, <1>14 DEF PagesRead
<1>17. x.version \in 1..Len(states[x.learner]) /\ x.count >= x.version
       /\ x.first # 0 /\ x.first <= x.made /\ x.last >= x.made
  BY <1>1, <1>2, <1>3, <1>8, <1>11, <1>14
<1> QED
  BY <1>1, <1>11, <1>13, <1>14, <1>15, <1>16, <1>17 DEF Assembled

\* What was right of the tables stays right of the same tables.
LEMMA SameTables ==
    ASSUME TablesInv, UNCHANGED tableVars
    PROVE  TablesInv' /\ \A x : Assembled(x) => Assembled(x)'
<1>1. /\ store' = store /\ now' = now /\ received' = received /\ signals' = signals
      /\ states' = states /\ decisions' = decisions /\ request' = request
  BY DEF tableVars, tables
<1>2. \A l \in Learners : VersionPerSignal(l) => VersionPerSignal(l)'
  BY <1>1 DEF VersionPerSignal, SignalCount, SignalTimes
<1>3. TablesInv'
  BY <1>1, <1>2 DEF TablesInv, TablesTyped
<1>4. \A l : SignalTimes(l) = (SignalTimes(l))' /\ DecisionsOf(l) = (DecisionsOf(l))'
  BY <1>1 DEF SignalTimes, DecisionsOf
<1>5. ASSUME NEW x, Assembled(x) PROVE Assembled(x)'
  BY <1>1, <1>4, <1>5 DEF Assembled, TypesAnswered, PagesRead
<1> QED
  BY <1>3, <1>5


\* A step that leaves the tables alone and ends with a summary that is right of them.
LEMMA NewSummary ==
    ASSUME TablesInv, UNCHANGED tableVars, NEW x, Assembled(x), summary' = x
    PROVE  SummaryInv'
<1>1. TablesInv' /\ Assembled(x)'
  BY SameTables
<1>2. Assembled(summary)'
  BY <1>1 DEF Assembled, TypesAnswered, PagesRead
<1> QED
  BY <1>1, <1>2 DEF SummaryInv

\* No summary has been asked for yet, and no signal accepted.
LEMMA InitSummary == TablesInit /\ summary = NoSummary => SummaryInv
<1> SUFFICES ASSUME TablesInit, summary = NoSummary PROVE SummaryInv
  OBVIOUS
<1>1. 1 \in Times /\ 0 \in 0..MaxTime
  BY TablesAssumption DEF Times
<1>2. TablesTyped
  BY <1>1 DEF TablesInit, TablesTyped
<1>3. ASSUME NEW l \in Learners PROVE VersionPerSignal(l)
  <2>1. states[l] = <<>> /\ DOMAIN signals = {}
    BY DEF TablesInit
  <2>2. SignalCount(l) = Cardinality({})
    BY <2>1 DEF SignalCount
  <2> QED
    BY <2>1, <2>2, FS_EmptySet DEF VersionPerSignal
<1> QED
  BY <1>2, <1>3 DEF SummaryInv, TablesInv

\* Every step keeps it.
LEMMA SummaryStepKeeps == SummaryInv /\ [SummaryNext]_<<tableVars, summary>> => SummaryInv'
<1> SUFFICES ASSUME SummaryInv, [SummaryNext]_<<tableVars, summary>> PROVE SummaryInv'
  OBVIOUS
<1>1. TablesInv
  BY DEF SummaryInv
<1>2. summary.stage = "reading" => Assembled(summary)
  BY DEF SummaryInv, NoSummary
<1>3. CASE UNCHANGED <<tableVars, summary>>
  <2>1. CASE summary \in {NoSummary, [stage |-> "not_found"]}
    BY <1>1, <1>3, <2>1, SameTables DEF SummaryInv, NoSummary
  <2>2. CASE Assembled(summary)
    <3>1. PICK x : x = summary
      OBVIOUS
    <3>2. Assembled(x) /\ summary' = x
      BY <1>3, <2>2, <3>1
    <3> QED
      BY <1>1, <1>3, <3>2, NewSummary
  <2> QED
    BY <2>1, <2>2 DEF SummaryInv
<1>4. CASE summary.stage = "none" /\ TablesNext /\ UNCHANGED summary
  <2>1. summary = NoSummary
    BY <1>4 DEF SummaryInv, Assembled, SummaryRows
  <2> QED
    BY <1>1, <1>4, <2>1, TablesStep DEF SummaryInv, NoSummary
<1>5. CASE /\ summary.stage = "reading" /\ UNCHANGED summary
           /\ Tick \/ \E r \in Requests : Accept(r) \/ Decide(r)
  <2>1. TablesInv' /\ TablesGrow
    BY <1>1, <1>5, TablesStep DEF TablesNext
  <2>2. PICK x : x = summary
    OBVIOUS
  <2>3. Assembled(x) /\ summary' = x
    BY <1>2, <1>5, <2>2
  <2>4. Assembled(x)'
    BY <1>1, <2>1, <2>3, GrowingKeeps
  <2>5. Assembled(summary)'
    BY <2>3, <2>4 DEF Assembled, TypesAnswered, PagesRead
  <2> QED
    BY <2>1, <2>5 DEF SummaryInv
<1>6. ASSUME NEW l \in Learners, NotFound(l) PROVE SummaryInv'
  BY <1>1, <1>6, SameTables DEF NotFound, SummaryInv
<1>7. ASSUME NEW l \in Learners, SummarizeOnServer(l) PROVE SummaryInv'
  <2> DEFINE answer(cap) == [Found(l, {}, cap) EXCEPT
             !.stage = "answered",
             !.total = TypeCounts(l).total, !.advance = TypeCounts(l).advance,
             !.count = SignalCount(l), !.first = FirstSignalAt(l), !.last = LastSignalAt(l),
             !.versions = AllVersions(l, cap),
             !.pages = (AllVersions(l, cap) + VersionsPerPage - 1) \div VersionsPerPage]
  <2>1. PICK cap \in PageCaps : summary' = answer(cap)
    BY <1>7 DEF SummarizeOnServer
  <2>2. PICK x : summary' = x /\ x = answer(cap)
    BY <2>1
  <2>3. states[l] # <<>> /\ UNCHANGED tableVars
    BY <1>7 DEF SummarizeOnServer
  <2>4. Assembled(x)
    BY <1>1, <2>2, <2>3, ServerKeeps
  <2> QED
    BY <1>1, <2>2, <2>3, <2>4, NewSummary
<1>8. ASSUME NEW l \in Learners, GetState(l) PROVE SummaryInv'
  <2>1. PICK cap \in PageCaps : summary' = Found(l, Queries, cap)
    BY <1>8 DEF GetState
  <2>2. PICK x : summary' = x /\ x = Found(l, Queries, cap)
    BY <2>1
  <2>3. states[l] # <<>> /\ UNCHANGED tableVars
    BY <1>8 DEF GetState
  <2>4. Assembled(x)
    BY <1>1, <2>2, <2>3, FoundIsAssembled
  <2> QED
    BY <1>1, <2>2, <2>3, <2>4, NewSummary
<1>9. ASSUME NEW q \in Queries, Answered(q) PROVE SummaryInv'
  <2>1. /\ Assembled(summary) /\ q \in summary.waiting /\ UNCHANGED tableVars /\ summary \in SummaryRows
    BY <1>2, <1>9 DEF Answered, Assembled
  <2>2. PICK y \in SummaryRows : y = summary
    BY <2>1
  <2>3. PICK w : w = summary.waiting \ {q}
    OBVIOUS
  <2>4. PICK s : /\ s = [summary EXCEPT !.waiting = summary.waiting \ {q}]
                 /\ s = [stage |-> y.stage, learner |-> y.learner, waiting |-> w, version |-> y.version,
                         made |-> y.made, total |-> y.total, advance |-> y.advance, count |-> y.count,
                         first |-> y.first, last |-> y.last, versions |-> y.versions, pages |-> y.pages,
                         cap |-> y.cap, decided |-> y.decided]
    <3>1. [y EXCEPT !.waiting = w] = [summary EXCEPT !.waiting = summary.waiting \ {q}]
      BY <2>2, <2>3
    <3>2. [y EXCEPT !.waiting = w]
            = [stage |-> y.stage, learner |-> y.learner, waiting |-> w, version |-> y.version,
               made |-> y.made, total |-> y.total, advance |-> y.advance, count |-> y.count,
               first |-> y.first, last |-> y.last, versions |-> y.versions, pages |-> y.pages,
               cap |-> y.cap, decided |-> y.decided]
      BY DEF SummaryRows
    <3> QED
      BY <3>1, <3>2
  <2>5. CASE q = "types"
    <3>1. PICK t, a : t = TypeCounts(summary.learner).total /\ a = TypeCounts(summary.learner).advance
      OBVIOUS
    <3>2. summary' = [s EXCEPT !.total = t, !.advance = a]
      BY <1>9, <2>5, <2>4, <3>1 DEF Answered
    <3>3. PICK x : x = [stage |-> y.stage, learner |-> y.learner, waiting |-> w, version |-> y.version,
                        made |-> y.made, total |-> t, advance |-> a, count |-> y.count, first |-> y.first, last |-> y.last,
                        versions |-> y.versions, pages |-> y.pages, cap |-> y.cap, decided |-> y.decided]
      OBVIOUS
    <3>4. summary' = x
      <4> DEFINE z == [s EXCEPT !.total = t]
      <4>1. z = [stage |-> y.stage, learner |-> y.learner, waiting |-> w, version |-> y.version,
                 made |-> y.made, total |-> t, advance |-> y.advance, count |-> y.count,
                 first |-> y.first, last |-> y.last, versions |-> y.versions, pages |-> y.pages,
                 cap |-> y.cap, decided |-> y.decided]
        <5>1. s = [stage |-> y.stage, learner |-> y.learner, waiting |-> w, version |-> y.version,
                   made |-> y.made, total |-> y.total, advance |-> y.advance, count |-> y.count,
                   first |-> y.first, last |-> y.last, versions |-> y.versions, pages |-> y.pages,
                   cap |-> y.cap, decided |-> y.decided]
          BY <2>4
        <5> QED
          BY <5>1
      <4>2. summary' = [z EXCEPT !.advance = a]
        BY <3>2, <2>4
      <4> HIDE DEF z
      <4> QED
        BY <4>1, <4>2, <3>3
    <3>5. Assembled(x)
      BY <1>1, <2>1, <2>2, <2>3, <2>5, <3>1, <3>3, AnswerKeeps
    <3> QED
      BY <1>1, <2>1, <3>4, <3>5, NewSummary
  <2>6. CASE q = "count"
    <3>1. PICK c : c = SignalCount(summary.learner)
      OBVIOUS
    <3>2. summary' = [s EXCEPT !.count = c]
      BY <1>9, <2>6, <2>4, <3>1 DEF Answered
    <3>3. PICK x : x = [stage |-> y.stage, learner |-> y.learner, waiting |-> w, version |-> y.version,
                        made |-> y.made, total |-> y.total, advance |-> y.advance, count |-> c, first |-> y.first, last |-> y.last,
                        versions |-> y.versions, pages |-> y.pages, cap |-> y.cap, decided |-> y.decided]
      OBVIOUS
    <3>4. summary' = x
      BY <2>4, <3>2, <3>3
    <3>5. Assembled(x)
      BY <1>1, <2>1, <2>2, <2>3, <2>6, <3>1, <3>3, AnswerKeeps
    <3> QED
      BY <1>1, <2>1, <3>4, <3>5, NewSummary
  <2>7. CASE q = "first"
    <3>1. PICK f : f = FirstSignalAt(summary.learner)
      OBVIOUS
    <3>2. summary' = [s EXCEPT !.first = f]
      BY <1>9, <2>7, <2>4, <3>1 DEF Answered
    <3>3. PICK x : x = [stage |-> y.stage, learner |-> y.learner, waiting |-> w, version |-> y.version,
                        made |-> y.made, total |-> y.total, advance |-> y.advance, count |-> y.count, first |-> f, last |-> y.last,
                        versions |-> y.versions, pages |-> y.pages, cap |-> y.cap, decided |-> y.decided]
      OBVIOUS
    <3>4. summary' = x
      BY <2>4, <3>2, <3>3
    <3>5. Assembled(x)
      BY <1>1, <2>1, <2>2, <2>3, <2>7, <3>1, <3>3, AnswerKeeps
    <3> QED
      BY <1>1, <2>1, <3>4, <3>5, NewSummary
  <2>8. CASE q = "last"
    <3>1. PICK m : m = LastSignalAt(summary.learner)
      OBVIOUS
    <3>2. summary' = [s EXCEPT !.last = m]
      BY <1>9, <2>8, <2>4, <3>1 DEF Answered
    <3>3. PICK x : x = [stage |-> y.stage, learner |-> y.learner, waiting |-> w, version |-> y.version,
                        made |-> y.made, total |-> y.total, advance |-> y.advance, count |-> y.count, first |-> y.first, last |-> m,
                        versions |-> y.versions, pages |-> y.pages, cap |-> y.cap, decided |-> y.decided]
      OBVIOUS
    <3>4. summary' = x
      BY <2>4, <3>2, <3>3
    <3>5. Assembled(x)
      BY <1>1, <2>1, <2>2, <2>3, <2>8, <3>1, <3>3, AnswerKeeps
    <3> QED
      BY <1>1, <2>1, <3>4, <3>5, NewSummary
  <2>9. CASE q = "trajectory"
    <3> DEFINE u == [summary EXCEPT !.waiting = summary.waiting \ {"trajectory"}]
               x == [u EXCEPT !.versions = AfterPage(u), !.pages = u.pages + 1,
                              !.waiting = IF LastPage(u) THEN u.waiting ELSE u.waiting \cup {"trajectory"}]
    <3>1. Assembled(x)
      BY <1>1, <2>1, <2>9, PageKeeps
    <3>2. summary' = x
      <4>1. Answered("trajectory")
        BY <1>9, <2>9
      <4> QED
        BY <4>1 DEF Answered
    <3> HIDE DEF x
    <3>3. PICK z : z = x
      OBVIOUS
    <3>4. Assembled(z) /\ summary' = z
      BY <3>1, <3>2, <3>3
    <3> QED
      BY <1>1, <2>1, <3>4, NewSummary
  <2> QED
    BY <2>5, <2>6, <2>7, <2>8, <2>9 DEF Queries
<1>10. CASE Assemble
  <2>1. PICK y \in SummaryRows : y = summary
    BY <1>2, <1>10 DEF Assemble, Assembled
  <2>2. PICK x : x = [y EXCEPT !.stage = "answered"] /\ summary' = x /\ y.waiting = {}
    BY <1>10, <2>1 DEF Assemble
  <2>3. /\ x \in SummaryRows /\ x.stage = "answered" /\ x.learner = y.learner /\ x.waiting = {}
        /\ x.version = y.version /\ x.made = y.made /\ x.total = y.total /\ x.advance = y.advance
        /\ x.count = y.count /\ x.first = y.first /\ x.last = y.last
        /\ x.versions = y.versions /\ x.pages = y.pages /\ x.cap = y.cap /\ x.decided = y.decided
    BY <2>2 DEF SummaryRows
  <2>4. Assembled(y)
    BY <1>2, <1>10, <2>1 DEF Assemble
  <2>5. Assembled(x)
    BY <2>2, <2>3, <2>4 DEF Assembled, TypesAnswered, PagesRead
  <2> QED
    BY <1>1, <1>10, <2>2, <2>5, NewSummary DEF Assemble
<1> QED
  BY <1>3, <1>4, <1>5, <1>6, <1>7, <1>8, <1>9, <1>10 DEF SummaryNext


\* What the runs check of a summary.
LEMMA SummaryFollows == SummaryInv => SummaryHolds
<1> SUFFICES ASSUME SummaryInv PROVE SummaryHolds
  OBVIOUS
<1>1. CASE summary \in {NoSummary, [stage |-> "not_found"]}
  BY <1>1 DEF NoSummary, SummaryHolds, SummaryTypeOK, SummaryCoversState, TrajectoryEndsAtState,
              GiftedSeesHistory, Shown
<1>2. CASE Assembled(summary)
  <2>1. summary \in SummaryRows /\ Times = 1..MaxTime /\ MaxTime \in Nat
    BY <1>2, TablesAssumption DEF Assembled, Times
  <2>2. /\ summary.stage \in {"reading", "answered"} /\ summary.learner \in Learners
        /\ summary.waiting \subseteq Queries /\ summary.version \in Nat /\ summary.made \in Times
        /\ summary.total \in Nat /\ summary.advance \in Nat /\ summary.count \in Nat
        /\ summary.first \in 0..MaxTime /\ summary.last \in 0..MaxTime
        /\ summary.versions \in Nat /\ summary.cap \in PageCaps /\ summary.pages \in Nat
    BY <2>1 DEF SummaryRows
  <2>3. /\ summary.advance \in 0..summary.total /\ summary.pages \in 0..summary.cap
    <3>1. summary.cap \in Nat
      BY <2>2, SummaryAssumption
    <3> QED
      BY <1>2, <2>2, <3>1 DEF Assembled, TypesAnswered, PagesRead
  <2>4. summary.decided \subseteq DOMAIN decisions
    BY <1>2 DEF Assembled, DecisionsOf
  <2>5. SummaryTypeOK
    BY <2>1, <2>2, <2>3, <2>4 DEF SummaryTypeOK
  <2>6. Shown => summary.waiting = {}
    BY <1>2 DEF Shown, Assembled
  <2>7. SummaryCoversState
    BY <1>2, <2>6 DEF SummaryCoversState, Assembled
  <2>8. TrajectoryEndsAtState
    BY <1>2, <2>6 DEF TrajectoryEndsAtState, Assembled, PagesRead
  <2>9. GiftedSeesHistory
    BY <1>2, <2>6 DEF GiftedSeesHistory, Gifted, Assembled, TypesAnswered
  <2> QED
    BY <2>5, <2>7, <2>8, <2>9 DEF SummaryHolds
<1> QED
  BY <1>1, <1>2 DEF SummaryInv

\* The parts of a summary, read one after the other while signals go on being ingested, belong
\* together on both deployments: the signals counted, their first and last times and the trajectory
\* reach to the state that is shown, and nobody is shown as gifted over an earlier decision, for
\* any number of signals, requests and pages.
THEOREM SummaryAlwaysHolds == SummarySpec => []SummaryHolds
  BY InitSummary, SummaryStepKeeps, SummaryFollows, PTL DEF SummarySpec

--------------------------------------------------------------------------------
\* A request is well formed enough to be asked, and what was corrected in it has stayed corrected; where
\* a range was found empty, its beginning is the first moment or version.
Names ==
  {"none", "org_id", "learner_reference", "version", "from_version", "to_version", "limit", "page_size", "page_token",
   "recent_decisions_limit", "from_time", "to_time", "fields", "trajectory_fields", "outcome"}
Codes ==
  {"none", "org_scope_required", "missing_required_field", "invalid_length", "invalid_timestamp", "invalid_time_range",
   "invalid_type", "page_size_out_of_range", "invalid_page_token", "limit_out_of_range", "invalid_outcome_filter",
   "invalid_format"}
Faults == [field : Names, code : Codes]
Answers == {x \in Faults : x.field # "none" => x.code # "none"}
Posed ==
  /\ asked = [host |-> asked.host, endpoint |-> asked.endpoint, params |-> asked.params]
  /\ asked.host \in Hosts /\ asked.endpoint \in Endpoints
  /\ asked.params = [f \in ToSet(ParametersOf[asked.endpoint]) |-> asked.params[f]]
  /\ \A f \in DOMAIN asked.params : asked.params[f] \in KindsOf(f)
RequestInv ==
  \/ asked = NotAsked /\ corrected = <<>>
  \/ /\ Posed /\ corrected \in Seq(Faults)
     /\ \A i \in DOMAIN corrected :
          /\ corrected[i].field \in DOMAIN asked.params /\ asked.params[corrected[i].field] \in WellFormed
          /\ corrected[i].code \in {"invalid_time_range", "invalid_format"} => asked.params[corrected[i].field] # "two"

\* The first of the faults that were found, if there is one.
LEMMA FirstFaultIsFound ==
    ASSUME NEW s \in Seq(Faults)
    PROVE  /\ FirstFault(s) = Fine \/ (FirstFault(s) \in Range(s) /\ FirstFault(s).code # "none")
           /\ FirstFault(s).code = "none" => \A x \in Range(s) : x.code = "none"
<1> DEFINE found == {i \in DOMAIN s : s[i].code # "none"}
<1>1. found \in SUBSET Nat
  OBVIOUS
<1>2. FirstFault(s) = IF found = {} THEN Fine ELSE s[CHOOSE i \in found : \A j \in found : i <= j]
  BY DEF FirstFault
<1>3. CASE found = {}
  BY <1>2, <1>3 DEF Range
<1>4. CASE found # {}
  <2>1. \E i \in found : \A j \in found : i <= j
    BY <1>1, <1>4, Smallest
  <2>2. (CHOOSE i \in found : \A j \in found : i <= j) \in found
    BY <2>1
  <2>3. \E i \in found : FirstFault(s) = s[i]
    BY <1>2, <1>4, <2>2
  <2> QED
    BY <2>3 DEF Range
<1> QED
  BY <1>3, <1>4

\* Of two lists the first is looked at first.
LEMMA FirstFaultOfBoth ==
    ASSUME NEW s \in Seq(Faults), NEW t \in Seq(Faults)
    PROVE  /\ s \o t \in Seq(Faults) /\ Range(s \o t) = Range(s) \cup Range(t)
           /\ FirstFault(s \o t) = IF FirstFault(s).code # "none" THEN FirstFault(s) ELSE FirstFault(t)
<1> DEFINE u == s \o t
           Failing(r) == {i \in DOMAIN r : r[i].code # "none"}
           At(r) == CHOOSE i \in Failing(r) : \A j \in Failing(r) : i <= j
<1>1. /\ u \in Seq(Faults) /\ Len(u) = Len(s) + Len(t) /\ DOMAIN u = 1..Len(u)
      /\ \A i \in 1..Len(s) : u[i] = s[i]
      /\ \A i \in 1..Len(t) : u[Len(s) + i] = t[i]
      /\ \A i \in 1..Len(u) : i > Len(s) => i - Len(s) \in 1..Len(t) /\ u[i] = t[i - Len(s)]
  OBVIOUS
<1>2. DOMAIN s = 1..Len(s) /\ DOMAIN t = 1..Len(t) /\ Len(s) \in Nat /\ Len(t) \in Nat
  OBVIOUS
<1> HIDE DEF u
<1>3. Range(u) = Range(s) \cup Range(t)
  <2>1. ASSUME NEW i \in 1..Len(u) PROVE u[i] \in Range(s) \cup Range(t)
    <3>1. CASE i <= Len(s)
      <4>1. i \in DOMAIN s /\ u[i] = s[i]
        BY <1>1, <1>2, <3>1
      <4> QED
        BY <4>1 DEF Range
    <3>2. CASE i > Len(s)
      <4>1. i - Len(s) \in DOMAIN t /\ u[i] = t[i - Len(s)]
        BY <1>1, <1>2, <3>2
      <4> QED
        BY <4>1 DEF Range
    <3> QED
      BY <1>2, <3>1, <3>2
  <2>2. \A i \in DOMAIN s : s[i] \in Range(u)
    BY <1>1, <1>2 DEF Range
  <2>3. \A i \in DOMAIN t : t[i] \in Range(u)
    <3> SUFFICES ASSUME NEW i \in 1..Len(t) PROVE t[i] \in Range(u)
      BY <1>2
    <3>1. Len(s) + i \in DOMAIN u /\ u[Len(s) + i] = t[i]
      BY <1>1, <1>2
    <3> QED
      BY <3>1 DEF Range
  <2> QED
    BY <1>1, <2>1, <2>2, <2>3 DEF Range
<1>4. \A r \in {s, t, u} : /\ Failing(r) \in SUBSET Nat
                           /\ FirstFault(r) = IF Failing(r) = {} THEN Fine ELSE r[At(r)]
                           /\ Failing(r) # {} => At(r) \in Failing(r) /\ \A j \in Failing(r) : At(r) <= j
  <2> SUFFICES ASSUME NEW r \in {s, t, u}
               PROVE  /\ Failing(r) \in SUBSET Nat
                      /\ FirstFault(r) = IF Failing(r) = {} THEN Fine ELSE r[At(r)]
                      /\ Failing(r) # {} => At(r) \in Failing(r) /\ \A j \in Failing(r) : At(r) <= j
    OBVIOUS
  <2>1. Failing(r) \in SUBSET Nat
    BY <1>1, <1>2
  <2>2. Failing(r) # {} => \E i \in Failing(r) : \A j \in Failing(r) : i <= j
    BY <2>1, Smallest
  <2> QED
    BY <2>1, <2>2 DEF FirstFault
<1>5. \A i \in Nat : i \in Failing(u) <=> (i \in Failing(s) \/ (i > Len(s) /\ i - Len(s) \in Failing(t)))
  BY <1>1, <1>2
<1> HIDE DEF Failing, At
<1>6. CASE Failing(s) # {}
  <2>1. At(s) \in Failing(s) /\ At(s) \in 1..Len(s) /\ s[At(s)].code # "none"
    BY <1>2, <1>4, <1>6 DEF Failing
  <2>2. Failing(u) # {} /\ At(u) \in Failing(u) /\ \A j \in Failing(u) : At(u) <= j
    BY <1>4, <1>5, <2>1
  <2>3. At(u) <= At(s)
    BY <1>5, <2>1, <2>2
  <2>4. At(u) \in Failing(s)
    BY <1>4, <1>5, <2>1, <2>2, <2>3
  <2>5. At(u) = At(s)
    BY <1>4, <2>1, <2>3, <2>4
  <2>6. FirstFault(u) = FirstFault(s) /\ FirstFault(s).code # "none"
    BY <1>1, <1>4, <1>6, <2>1, <2>2, <2>5
  <2> QED
    BY <1>1, <1>3, <2>6 DEF u
<1>7. CASE Failing(s) = {} /\ Failing(t) # {}
  <2>1. At(t) \in Failing(t) /\ At(t) \in 1..Len(t) /\ \A j \in Failing(t) : At(t) <= j
    BY <1>2, <1>4, <1>7 DEF Failing
  <2>2. Len(s) + At(t) \in Failing(u)
    BY <1>2, <1>5, <2>1
  <2>3. At(u) \in Failing(u) /\ At(u) \in Nat /\ \A j \in Failing(u) : At(u) <= j
    BY <1>4, <2>2
  <2>4. At(u) > Len(s) /\ At(u) - Len(s) \in Failing(t)
    BY <1>5, <1>7, <2>3
  <2>5. At(u) = Len(s) + At(t)
    BY <1>2, <2>1, <2>2, <2>3, <2>4
  <2>6. FirstFault(u) = FirstFault(t) /\ FirstFault(s) = Fine
    BY <1>1, <1>2, <1>4, <1>7, <2>1, <2>2, <2>5
  <2> QED
    BY <1>1, <1>3, <2>6 DEF u, Fine
<1>8. CASE Failing(s) = {} /\ Failing(t) = {}
  <2>1. Failing(u) = {}
    BY <1>4, <1>5, <1>8
  <2>2. FirstFault(u) = FirstFault(t) /\ FirstFault(s) = Fine
    BY <1>4, <1>8, <2>1
  <2> QED
    BY <1>1, <1>3, <2>2 DEF u, Fine
<1> QED
  BY <1>6, <1>7, <1>8

LEMMA FaultTyped ==
    ASSUME NEW field \in Names, NEW bad \in BOOLEAN, NEW code \in Codes
    PROVE  Fault(field, bad, code) \in Faults
BY DEF Fault, Faults, Codes

LEMMA FirstOfOne ==
    ASSUME NEW a \in Faults
    PROVE  <<a>> \in Seq(Faults) /\ Range(<<a>>) = {a} /\ FirstFault(<<a>>) = IF a.code # "none" THEN a ELSE Fine
<1>1. <<a>> \in Seq(Faults) /\ Range(<<a>>) = {a}
  BY DEF Range
<1>2. FirstFault(<<a>>) = Fine \/ (FirstFault(<<a>>) = a /\ a.code # "none")
  BY <1>1, FirstFaultIsFound
<1>3. FirstFault(<<a>>).code = "none" => a.code = "none"
  BY <1>1, FirstFaultIsFound
<1> QED
  BY <1>1, <1>2, <1>3 DEF Fine

LEMMA FirstOfTwo ==
    ASSUME NEW a \in Faults, NEW b \in Faults
    PROVE  /\ <<a, b>> \in Seq(Faults) /\ Range(<<a, b>>) = {a, b}
           /\ FirstFault(<<a, b>>) = IF a.code # "none" THEN a ELSE IF b.code # "none" THEN b ELSE Fine
<1>2. <<a>> \in Seq(Faults) /\ <<b>> \in Seq(Faults)
  OBVIOUS
<1>1. <<a, b>> = <<a>> \o <<b>>
  <2> DEFINE u == <<a>> \o <<b>>
  <2>1. u \in Seq(Faults) /\ Len(u) = 2 /\ u[1] = a /\ u[2] = b
    BY <1>2
  <2> HIDE DEF u
  <2>2. u = [i \in 1..2 |-> u[i]]
    BY <2>1
  <2>3. <<a, b>> = [i \in 1..2 |-> u[i]]
    BY <2>1
  <2> QED
    BY <2>2, <2>3 DEF u
<1>3. /\ <<a>> \o <<b>> \in Seq(Faults) /\ Range(<<a>> \o <<b>>) = Range(<<a>>) \cup Range(<<b>>)
      /\ FirstFault(<<a>> \o <<b>>) = IF FirstFault(<<a>>).code # "none" THEN FirstFault(<<a>>) ELSE FirstFault(<<b>>)
  BY <1>2, FirstFaultOfBoth
<1>4. Range(<<a, b>>) = {a, b} /\ <<a, b>> \in Seq(Faults)
  BY <1>1, <1>3, FirstOfOne
<1>5. FirstFault(<<a, b>>) = IF FirstFault(<<a>>).code # "none" THEN FirstFault(<<a>>) ELSE FirstFault(<<b>>)
  BY <1>1, <1>3
<1> HIDE <1>1
<1> QED
  BY <1>4, <1>5, FirstOfOne DEF Fine

LEMMA FirstOfThree ==
    ASSUME NEW a \in Faults, NEW b \in Faults, NEW c \in Faults
    PROVE  /\ <<a, b, c>> \in Seq(Faults) /\ Range(<<a, b, c>>) = {a, b, c}
           /\ FirstFault(<<a, b, c>>) = IF a.code # "none" THEN a ELSE IF b.code # "none" THEN b
                                       ELSE IF c.code # "none" THEN c ELSE Fine
<1>1. <<a, b, c>> = <<a, b>> \o <<c>>
  OBVIOUS
<1>2. <<a, b>> \in Seq(Faults) /\ <<c>> \in Seq(Faults)
  OBVIOUS
<1>3. /\ <<a, b>> \o <<c>> \in Seq(Faults) /\ Range(<<a, b>> \o <<c>>) = Range(<<a, b>>) \cup Range(<<c>>)
      /\ FirstFault(<<a, b>> \o <<c>>) = IF FirstFault(<<a, b>>).code # "none" THEN FirstFault(<<a, b>>) ELSE FirstFault(<<c>>)
  BY <1>2, FirstFaultOfBoth
<1>4. Range(<<a, b, c>>) = {a, b, c} /\ <<a, b, c>> \in Seq(Faults)
  <2>1. Range(<<a, b>>) = {a, b} /\ Range(<<c>>) = {c}
    BY FirstOfOne, FirstOfTwo
  <2>2. Range(<<a, b, c>>) = Range(<<a, b>>) \cup Range(<<c>>)
    BY <1>1, <1>3
  <2>3. <<a, b, c>> \in Seq(Faults)
    OBVIOUS
  <2> QED
    BY <2>1, <2>2, <2>3
<1>5. FirstFault(<<a, b, c>>) = IF FirstFault(<<a, b>>).code # "none" THEN FirstFault(<<a, b>>) ELSE FirstFault(<<c>>)
  BY <1>1, <1>3
<1> QED
  BY <1>4, <1>5, FirstOfOne, FirstOfTwo DEF Fine

--------------------------------------------------------------------------------
\* What is found fault with names a parameter that is not well-formed, or the beginning of a range.
BeyondEnd(q, x) ==
  x.field \in {"from_time", "from_version"} /\ x.code \in {"invalid_time_range", "invalid_format"} /\ q[x.field] = "two"
Named(q, x) ==
  x.code # "none" => x.field \in DOMAIN q /\ x.field # "none" /\ (q[x.field] \in WellFormed => BeyondEnd(q, x))
AllNamed(q, s) == s \in Seq(Faults) /\ \A x \in Range(s) : Named(q, x)

LEMMA FirstIsNamed ==
    ASSUME NEW q, NEW s, AllNamed(q, s)
    PROVE  Named(q, FirstFault(s)) /\ FirstFault(s) \in Answers
<1>1. FirstFault(s) = Fine \/ (FirstFault(s) \in Range(s) /\ FirstFault(s).code # "none")
  BY FirstFaultIsFound DEF AllNamed
<1>2. Named(q, Fine) /\ Fine \in Answers
  BY DEF Answers, Named, Fine, Faults, Names, Codes
<1>3. Range(s) \subseteq Faults
  BY DEF AllNamed, Range
<1> QED
  BY <1>1, <1>2, <1>3 DEF AllNamed, Answers

LEMMA BothNamed ==
    ASSUME NEW q, NEW s, NEW t, AllNamed(q, s), AllNamed(q, t)
    PROVE  AllNamed(q, s \o t)
BY FirstFaultOfBoth DEF AllNamed

LEMMA LaterNamed ==
    ASSUME NEW q, NEW s, NEW t \in Seq(Faults), AllNamed(q, s), Named(q, FirstFault(t)), FirstFault(t) \in Answers
    PROVE  Named(q, FirstFault(s \o t)) /\ FirstFault(s \o t) \in Answers
<1>1. s \in Seq(Faults) /\ Named(q, FirstFault(s)) /\ FirstFault(s) \in Answers
  BY FirstIsNamed DEF AllNamed
<1>2. FirstFault(s \o t) = IF FirstFault(s).code # "none" THEN FirstFault(s) ELSE FirstFault(t)
  BY <1>1, FirstFaultOfBoth
<1> QED
  BY <1>1, <1>2

LEMMA OneNamed ==
    ASSUME NEW q, NEW a \in Faults, Named(q, a)
    PROVE  AllNamed(q, <<a>>)
BY FirstOfOne DEF AllNamed

LEMMA TwoNamed ==
    ASSUME NEW q, NEW a \in Faults, NEW b \in Faults, Named(q, a), Named(q, b)
    PROVE  AllNamed(q, <<a, b>>)
BY FirstOfTwo DEF AllNamed

LEMMA ThreeNamed ==
    ASSUME NEW q, NEW a \in Faults, NEW b \in Faults, NEW c \in Faults, Named(q, a), Named(q, b), Named(q, c)
    PROVE  AllNamed(q, <<a, b, c>>)
BY FirstOfThree DEF AllNamed

LEMMA FourNamed ==
    ASSUME NEW q, NEW a \in Faults, NEW b \in Faults, NEW c \in Faults, NEW d \in Faults,
           Named(q, a), Named(q, b), Named(q, c), Named(q, d)
    PROVE  AllNamed(q, <<a, b, c, d>>)
<1>1. <<a, b, c, d>> \in Seq(Faults) /\ Range(<<a, b, c, d>>) = {a, b, c, d}
  BY DEF Range
<1> QED
  BY <1>1 DEF AllNamed

LEMMA FiveNamed ==
    ASSUME NEW q, NEW a \in Faults, NEW b \in Faults, NEW c \in Faults, NEW d \in Faults, NEW e \in Faults,
           Named(q, a), Named(q, b), Named(q, c), Named(q, d), Named(q, e)
    PROVE  AllNamed(q, <<a, b, c, d, e>>)
<1>1. <<a, b, c, d, e>> \in Seq(Faults) /\ Range(<<a, b, c, d, e>>) = {a, b, c, d, e}
  BY DEF Range
<1> QED
  BY <1>1 DEF AllNamed

LEMMA SixNamed ==
    ASSUME NEW q, NEW a \in Faults, NEW b \in Faults, NEW c \in Faults, NEW d \in Faults, NEW e \in Faults, NEW f \in Faults,
           Named(q, a), Named(q, b), Named(q, c), Named(q, d), Named(q, e), Named(q, f)
    PROVE  AllNamed(q, <<a, b, c, d, e, f>>)
<1>1. <<a, b, c, d, e, f>> \in Seq(Faults) /\ Range(<<a, b, c, d, e, f>>) = {a, b, c, d, e, f}
  BY DEF Range
<1> QED
  BY <1>1 DEF AllNamed

LEMMA FaultNamed ==
    ASSUME NEW q, NEW field \in DOMAIN q, field \in Names \ {"none"}, NEW bad \in BOOLEAN, NEW code \in Codes,
           bad => q[field] \notin WellFormed
    PROVE  Fault(field, bad, code) \in Faults /\ Named(q, Fault(field, bad, code))
BY FaultTyped DEF Fault, Named

LEMMA OrgNamed ==
    ASSUME NEW q, "org_id" \in DOMAIN q
    PROVE  AllNamed(q, OrgFaults(q))
<1>1. /\ Fault("org_id", NotText(q.org_id), "org_scope_required") \in Faults
      /\ Named(q, Fault("org_id", NotText(q.org_id), "org_scope_required"))
  BY DEF Fault, Faults, Names, Codes, Named, NotText, WellFormed
<1>2. /\ Fault("org_id", q.org_id = "long", "invalid_length") \in Faults
      /\ Named(q, Fault("org_id", q.org_id = "long", "invalid_length"))
  BY DEF Fault, Faults, Names, Codes, Named, WellFormed
<1> QED
  BY <1>1, <1>2, TwoNamed DEF OrgFaults

LEMMA LearnerNamed ==
    ASSUME NEW q, "learner_reference" \in DOMAIN q
    PROVE  AllNamed(q, LearnerFaults(q))
<1>1. /\ Fault("learner_reference", NotText(q.learner_reference), "missing_required_field") \in Faults
      /\ Named(q, Fault("learner_reference", NotText(q.learner_reference), "missing_required_field"))
  BY DEF Fault, Faults, Names, Codes, Named, NotText, WellFormed
<1>2. /\ Fault("learner_reference", q.learner_reference = "long", "invalid_length") \in Faults
      /\ Named(q, Fault("learner_reference", q.learner_reference = "long", "invalid_length"))
  BY DEF Fault, Faults, Names, Codes, Named, WellFormed
<1> QED
  BY <1>1, <1>2, TwoNamed DEF LearnerFaults

LEMMA MomentNamed ==
    ASSUME NEW q, NEW field \in {"from_time", "to_time"}, field \in DOMAIN q
    PROVE  AllNamed(q, MomentFaults(q, field))
<1>1. /\ Fault(field, NotText(q[field]), "missing_required_field") \in Faults
      /\ Named(q, Fault(field, NotText(q[field]), "missing_required_field"))
  BY DEF Fault, Faults, Names, Codes, Named, NotText, WellFormed
<1>2. /\ Fault(field, q[field] = "bad", "invalid_timestamp") \in Faults
      /\ Named(q, Fault(field, q[field] = "bad", "invalid_timestamp"))
  BY DEF Fault, Faults, Names, Codes, Named, WellFormed
<1> QED
  BY <1>1, <1>2, TwoNamed DEF MomentFaults

LEMMA SignalsNamed ==
    ASSUME NEW q, {"org_id", "learner_reference", "from_time", "to_time", "page_size", "page_token"} \subseteq DOMAIN q
    PROVE  AllNamed(q, SignalsFaults(q))
<1> DEFINE a == Fault("org_id", NotText(q.org_id), "org_scope_required")
           b == Fault("learner_reference", NotText(q.learner_reference), "missing_required_field")
           c == Fault("from_time", q.from_time = "two" /\ q.to_time = "one", "invalid_time_range")
           d == Fault("page_size", NotNumber(q.page_size), "invalid_type")
           e == Fault("page_size", q.page_size \in {"zero", "over"}, "page_size_out_of_range")
           f == Fault("page_token", q.page_token = "repeated", "invalid_type")
           g == Fault("page_token", q.page_token = "bad", "invalid_page_token")
<1>a. a \in Faults /\ Named(q, a)
  BY DEF Fault, Faults, Names, Codes, Named, NotText, NotNumber, WellFormed
<1>b. b \in Faults /\ Named(q, b)
  BY DEF Fault, Faults, Names, Codes, Named, NotText, NotNumber, WellFormed
<1>c. c \in Faults /\ Named(q, c)
  BY DEF Fault, Faults, Names, Codes, Named, BeyondEnd
<1>d. d \in Faults /\ Named(q, d)
  BY DEF Fault, Faults, Names, Codes, Named, NotText, NotNumber, WellFormed
<1>e. e \in Faults /\ Named(q, e)
  BY DEF Fault, Faults, Names, Codes, Named, NotText, NotNumber, WellFormed
<1>f. f \in Faults /\ Named(q, f)
  BY DEF Fault, Faults, Names, Codes, Named, NotText, NotNumber, WellFormed
<1>g. g \in Faults /\ Named(q, g)
  BY DEF Fault, Faults, Names, Codes, Named, NotText, NotNumber, WellFormed
<1>1. AllNamed(q, MomentFaults(q, "from_time")) /\ AllNamed(q, MomentFaults(q, "to_time"))
  BY MomentNamed
<1>2. SignalsFaults(q) = <<a, b>> \o MomentFaults(q, "from_time") \o MomentFaults(q, "to_time") \o <<c, d, e, f, g>>
  BY DEF SignalsFaults
<1> HIDE DEF a, b, c, d, e, f, g
<1>3. AllNamed(q, <<a, b>>) /\ AllNamed(q, <<c, d, e, f, g>>)
  BY <1>a, <1>b, <1>c, <1>d, <1>e, <1>f, <1>g, TwoNamed, FiveNamed
<1>4. AllNamed(q, <<a, b>> \o MomentFaults(q, "from_time"))
  BY <1>1, <1>3, BothNamed
<1>5. AllNamed(q, <<a, b>> \o MomentFaults(q, "from_time") \o MomentFaults(q, "to_time"))
  BY <1>1, <1>4, BothNamed
<1> QED
  BY <1>2, <1>3, <1>5, BothNamed

LEMMA StateNamed ==
    ASSUME NEW q, {"org_id", "learner_reference", "version"} \subseteq DOMAIN q
    PROVE  AllNamed(q, StateFaults(q))
<1> DEFINE a == Fault("version", q.version \in {"text", "repeated", "zero"}, "invalid_type")
<1>1. a \in Faults /\ Named(q, a)
  BY DEF Fault, Faults, Names, Codes, Named, NotText, NotNumber, WellFormed
<1>2. AllNamed(q, OrgFaults(q)) /\ AllNamed(q, LearnerFaults(q))
  BY OrgNamed, LearnerNamed
<1>3. StateFaults(q) = OrgFaults(q) \o LearnerFaults(q) \o <<a>>
  BY DEF StateFaults
<1> HIDE DEF a
<1>4. AllNamed(q, <<a>>) /\ AllNamed(q, OrgFaults(q) \o LearnerFaults(q))
  BY <1>1, <1>2, OneNamed, BothNamed
<1> QED
  BY <1>3, <1>4, BothNamed

LEMMA ListNamed ==
    ASSUME NEW q, {"org_id", "limit"} \subseteq DOMAIN q
    PROVE  AllNamed(q, ListFaults(q))
<1> DEFINE a == Fault("limit", NotNumber(q.limit) \/ q.limit \in {"zero", "over"}, "limit_out_of_range")
<1>1. a \in Faults /\ Named(q, a)
  BY DEF Fault, Faults, Names, Codes, Named, NotText, NotNumber, WellFormed
<1>2. ListFaults(q) = OrgFaults(q) \o <<a>>
  BY DEF ListFaults
<1> HIDE DEF a
<1>3. AllNamed(q, OrgFaults(q)) /\ AllNamed(q, <<a>>)
  BY <1>1, OneNamed, OrgNamed
<1> QED
  BY <1>2, <1>3, BothNamed

LEMMA IngestionNamed ==
    ASSUME NEW q, {"org_id", "limit", "outcome"} \subseteq DOMAIN q
    PROVE  AllNamed(q, IngestionFaults(q))
<1> DEFINE a == Fault("limit", NotNumber(q.limit), "invalid_type")
           b == Fault("limit", q.limit \in {"zero", "over"}, "limit_out_of_range")
           c == Fault("outcome", q.outcome \in {"bad", "repeated"}, "invalid_outcome_filter")
<1>a. a \in Faults /\ Named(q, a)
  BY DEF Fault, Faults, Names, Codes, Named, NotText, NotNumber, WellFormed
<1>b. b \in Faults /\ Named(q, b)
  BY DEF Fault, Faults, Names, Codes, Named, NotText, NotNumber, WellFormed
<1>c. c \in Faults /\ Named(q, c)
  BY DEF Fault, Faults, Names, Codes, Named, NotText, NotNumber, WellFormed
<1>2. IngestionFaults(q) = OrgFaults(q) \o <<a, b, c>>
  BY DEF IngestionFaults
<1> HIDE DEF a, b, c
<1>3. AllNamed(q, OrgFaults(q)) /\ AllNamed(q, <<a, b, c>>)
  BY <1>a, <1>b, <1>c, ThreeNamed, OrgNamed
<1> QED
  BY <1>2, <1>3, BothNamed

LEMMA SummaryNamed ==
    ASSUME NEW q, {"org_id", "learner_reference", "recent_decisions_limit", "trajectory_fields"} \subseteq DOMAIN q
    PROVE  AllNamed(q, SummaryFaults(q))
<1> DEFINE a == Fault("recent_decisions_limit", q.recent_decisions_limit \in {"text", "lead", "repeated"}, "invalid_type")
           b == Fault("recent_decisions_limit", q.recent_decisions_limit \in {"zero", "over"}, "invalid_format")
           c == Fault("trajectory_fields", q.trajectory_fields = "repeated", "invalid_type")
           d == FieldsFault(q, "trajectory_fields")
<1>a. a \in Faults /\ Named(q, a)
  BY DEF Fault, Faults, Names, Codes, Named, NotText, NotNumber, WellFormed
<1>b. b \in Faults /\ Named(q, b)
  BY DEF Fault, Faults, Names, Codes, Named, NotText, NotNumber, WellFormed
<1>c. c \in Faults /\ Named(q, c)
  BY DEF Fault, Faults, Names, Codes, Named, NotText, NotNumber, WellFormed
<1>d. d \in Faults /\ Named(q, d)
  BY DEF FieldsFault, Fault, Faults, Names, Codes, Named, WellFormed
<1>1. AllNamed(q, OrgFaults(q)) /\ AllNamed(q, LearnerFaults(q))
  BY OrgNamed, LearnerNamed
<1>2. SummaryFaults(q) = LearnerFaults(q) \o OrgFaults(q) \o <<a, b, c, d>>
  BY DEF SummaryFaults
<1> HIDE DEF a, b, c, d
<1>3. AllNamed(q, <<a, b, c, d>>) /\ AllNamed(q, LearnerFaults(q) \o OrgFaults(q))
  BY <1>a, <1>b, <1>c, <1>d, <1>1, FourNamed, BothNamed
<1> QED
  BY <1>2, <1>3, BothNamed

\* The trajectory compares the versions last, when neither is at fault by itself.
LEMMA TrajectoryNamed ==
    ASSUME NEW q,
           {"org_id", "learner_reference", "fields", "from_version", "to_version", "page_size", "page_token"} \subseteq DOMAIN q,
           {q.from_version, q.to_version} \subseteq Numbers
    PROVE  Named(q, FirstFault(TrajectoryFaults(q))) /\ FirstFault(TrajectoryFaults(q)) \in Answers
<1> DEFINE a == Fault("fields", NotText(q.fields), "missing_required_field")
           b == FieldsFault(q, "fields")
           c == Fault("from_version", q.from_version \in {"text", "repeated", "zero"}, "invalid_type")
           d == Fault("to_version", q.to_version \in {"text", "repeated", "zero"}, "invalid_type")
           e == Fault("page_size", q.page_size \in {"text", "repeated", "zero", "over"}, "page_size_out_of_range")
           f == Fault("page_token", q.page_token \in {"bad", "repeated"}, "invalid_page_token")
           g == Fault("from_version", VersionOf(q.from_version, 1) > VersionOf(q.to_version, 2), "invalid_format")
<1>a. a \in Faults /\ Named(q, a)
  BY DEF Fault, Faults, Names, Codes, Named, NotText, NotNumber, WellFormed
<1>b. b \in Faults /\ Named(q, b)
  BY DEF FieldsFault, Fault, Faults, Names, Codes, Named, WellFormed
<1>c. c \in Faults /\ Named(q, c)
  BY DEF Fault, Faults, Names, Codes, Named, NotText, NotNumber, WellFormed
<1>d. d \in Faults /\ Named(q, d)
  BY DEF Fault, Faults, Names, Codes, Named, NotText, NotNumber, WellFormed
<1>e. e \in Faults /\ Named(q, e)
  BY DEF Fault, Faults, Names, Codes, Named, NotText, NotNumber, WellFormed
<1>f. f \in Faults /\ Named(q, f)
  BY DEF Fault, Faults, Names, Codes, Named, NotText, NotNumber, WellFormed
<1>g. g \in Faults /\ (d.code = "none" => Named(q, g))
  <2>1. g \in Faults
    BY DEF Fault, Faults, Names, Codes
  <2>2. ASSUME d.code = "none", g.code # "none", q.from_version \in WellFormed PROVE q.from_version = "two"
    <3>1. q.to_version \notin {"text", "repeated", "zero"}
      BY <2>2 DEF Fault
    <3>2. VersionOf(q.from_version, 1) > VersionOf(q.to_version, 2)
      BY <2>2 DEF Fault
    <3>3. q.from_version \in {"one", "two"}
      BY <2>2 DEF WellFormed, Numbers
    <3>4. q.from_version # "two" => VersionOf(q.from_version, 1) = 1
      BY <3>3 DEF VersionOf
    <3>5. q.to_version \in {"missing", "blank", "one", "two", "lead", "over"}
      BY <3>1 DEF Numbers
    <3>6. VersionOf(q.to_version, 2) \in {1, 2, 101}
      BY <3>5 DEF VersionOf
    <3> QED
      BY <3>2, <3>3, <3>4, <3>6
  <2> QED
    BY <2>1, <2>2 DEF Fault, Named, BeyondEnd
<1>1. AllNamed(q, OrgFaults(q)) /\ AllNamed(q, LearnerFaults(q))
  BY OrgNamed, LearnerNamed
<1>2. TrajectoryFaults(q) = OrgFaults(q) \o LearnerFaults(q) \o <<a, b, c, d, e, f, g>>
  BY DEF TrajectoryFaults
<1> HIDE DEF a, b, c, d, e, f, g
<1>3. AllNamed(q, <<a, b, c, d, e, f>>) /\ AllNamed(q, OrgFaults(q) \o LearnerFaults(q))
  BY <1>a, <1>b, <1>c, <1>d, <1>e, <1>f, <1>1, SixNamed, BothNamed
<1>4. <<a, b, c, d, e, f>> \in Seq(Faults) /\ <<g>> \in Seq(Faults) /\ <<a, b, c, d, e, f, g>> \in Seq(Faults)
  BY <1>a, <1>b, <1>c, <1>d, <1>e, <1>f, <1>g
<1>5. <<a, b, c, d, e, f, g>> = <<a, b, c, d, e, f>> \o <<g>>
  <2> DEFINE u == <<a, b, c, d, e, f>> \o <<g>>
  <2>1. /\ u \in Seq(Faults) /\ Len(u) = 7 /\ u[1] = a /\ u[2] = b /\ u[3] = c /\ u[4] = d /\ u[5] = e /\ u[6] = f
        /\ u[7] = g
    BY <1>4
  <2> HIDE DEF u
  <2>2. u = [i \in 1..7 |-> u[i]]
    BY <2>1
  <2>3. <<a, b, c, d, e, f, g>> = [i \in 1..7 |-> u[i]]
    BY <2>1
  <2> QED
    BY <2>2, <2>3 DEF u
<1>6. /\ FirstFault(<<a, b, c, d, e, f, g>>) =
           IF FirstFault(<<a, b, c, d, e, f>>).code # "none" THEN FirstFault(<<a, b, c, d, e, f>>) ELSE FirstFault(<<g>>)
  BY <1>4, <1>5, FirstFaultOfBoth
<1>7. d \in Range(<<a, b, c, d, e, f>>)
  <2>1. Range(<<a, b, c, d, e, f>>) = {a, b, c, d, e, f}
    BY DEF Range
  <2> QED
    BY <2>1
<1>8. FirstFault(<<a, b, c, d, e, f>>).code = "none" => d.code = "none"
  BY <1>4, <1>7, FirstFaultIsFound
<1>9. Named(q, FirstFault(<<a, b, c, d, e, f, g>>)) /\ FirstFault(<<a, b, c, d, e, f, g>>) \in Answers
  <2>1. CASE FirstFault(<<a, b, c, d, e, f>>).code # "none"
    BY <1>3, <1>6, <2>1, FirstIsNamed
  <2>2. CASE FirstFault(<<a, b, c, d, e, f>>).code = "none"
    <3>1. AllNamed(q, <<g>>)
      BY <1>8, <1>g, <2>2, OneNamed
    <3> QED
      BY <1>6, <2>2, <3>1, FirstIsNamed
  <2> QED
    BY <2>1, <2>2
<1> DEFINE u == <<a, b, c, d, e, f, g>>
<1>10. TrajectoryFaults(q) = (OrgFaults(q) \o LearnerFaults(q)) \o u /\ u \in Seq(Faults)
  BY <1>2, <1>4
<1>11. Named(q, FirstFault(u)) /\ FirstFault(u) \in Answers
  BY <1>9
<1> HIDE DEF u
<1> QED
  BY <1>3, <1>10, <1>11, LaterNamed

\* The copies of three endpoints name no parameter.
LEMMA LooseUnnamed ==
    ASSUME NEW q
    PROVE  \A s \in {LambdaStateFaults(q), LambdaListFaults(q), LambdaIngestionFaults(q)} :
             s \in Seq(Faults) /\ FirstFault(s) \in Faults /\ FirstFault(s).field = "none"
<1> DEFINE Unnamed(s) == s \in Seq(Faults) /\ \A x \in Range(s) : x.field = "none"
<1>1. ASSUME NEW s, Unnamed(s) PROVE s \in Seq(Faults) /\ FirstFault(s) \in Faults /\ FirstFault(s).field = "none"
  <2>1. FirstFault(s) = Fine \/ FirstFault(s) \in Range(s)
    BY <1>1, FirstFaultIsFound
  <2>2. Range(s) \subseteq Faults
    BY <1>1 DEF Range
  <2>3. Fine \in Faults /\ Fine.field = "none"
    BY DEF Fine, Faults, Names, Codes
  <2> QED
    BY <1>1, <2>1, <2>2, <2>3
<1> DEFINE a == Fault("none", NotText(q.org_id), "org_scope_required")
           b == Fault("none", NotText(q.learner_reference), "missing_required_field")
           c == Fault("none", q.version \in {"text", "zero"}, "invalid_type")
           d == Fault("none", q.limit \in {"text", "zero", "over"}, "limit_out_of_range")
           e == Fault("none", q.outcome = "bad", "invalid_outcome_filter")
<1>2. {a, b, c, d, e} \subseteq Faults /\ \A x \in {a, b, c, d, e} : x.field = "none"
  BY DEF Fault, Faults, Names, Codes, NotText
<1>3. /\ LambdaStateFaults(q) = <<a, b, c>> /\ LambdaListFaults(q) = <<a, d>>
      /\ LambdaIngestionFaults(q) = LambdaListFaults(q) \o <<e>>
  BY DEF LambdaStateFaults, LambdaListFaults, LambdaIngestionFaults
<1> HIDE DEF a, b, c, d, e
<1>4. Unnamed(LambdaStateFaults(q))
  BY <1>2, <1>3, FirstOfThree
<1>5. Unnamed(LambdaListFaults(q)) /\ Unnamed(<<e>>)
  BY <1>2, <1>3, FirstOfOne, FirstOfTwo
<1> DEFINE l == LambdaListFaults(q)
           o == <<e>>
<1>6. Unnamed(LambdaIngestionFaults(q))
  <2>1. LambdaIngestionFaults(q) = l \o o /\ Unnamed(l) /\ Unnamed(o)
    BY <1>3, <1>5
  <2> HIDE DEF l, o
  <2>2. l \o o \in Seq(Faults) /\ Range(l \o o) = Range(l) \cup Range(o)
    BY <2>1, FirstFaultOfBoth
  <2> QED
    BY <2>1, <2>2
<1> HIDE DEF Unnamed
<1> QED
  BY <1>1, <1>4, <1>5, <1>6

--------------------------------------------------------------------------------
\* What is received of a parameter is one of its kinds; the two hosts differ on one that is repeated.
LEMMA HasWellFormed ==
    ASSUME NEW field \in Names \ {"none"}
    PROVE  \E k \in KindsOf(field) \cap WellFormed : k # "two"
<1>1. CASE field \in {"org_id", "learner_reference"}
  BY <1>1 DEF KindsOf, WellFormed, Texts
<1>2. CASE field \in {"version", "from_version", "to_version", "limit", "page_size", "recent_decisions_limit"}
  BY <1>2 DEF KindsOf, WellFormed, Numbers
<1>3. CASE field \in {"from_time", "to_time"}
  BY <1>3 DEF KindsOf, WellFormed, Moments
<1>4. CASE field \in {"fields", "trajectory_fields"}
  BY <1>4 DEF KindsOf, WellFormed, FieldLists
<1>5. CASE field = "page_token"
  BY <1>5 DEF KindsOf, WellFormed, Tokens
<1>6. CASE field = "outcome"
  BY <1>6 DEF KindsOf, WellFormed, OutcomeFilters
<1> QED
  BY <1>1, <1>2, <1>3, <1>4, <1>5, <1>6 DEF Names

LEMMA ReceivedKind ==
    ASSUME NEW host \in Hosts, NEW field \in Names \ {"none"}, NEW kind \in KindsOf(field)
    PROVE  Received(host, kind, field) \in KindsOf(field) /\ (kind # "repeated" => Received(host, kind, field) = kind)
BY HasWellFormed DEF Received

AllEndpoints == {"signals", "decisions", "state", "list", "ingestion", "trajectory", "summary"}
LEMMA NamesOf ==
    ASSUME NEW e \in AllEndpoints
    PROVE  /\ ToSet(ParametersOf[e]) \subseteq Names \ {"none"}
           /\ e \in {"signals", "decisions"} =>
                ToSet(ParametersOf[e]) = {"org_id", "learner_reference", "from_time", "to_time", "page_size", "page_token"}
           /\ e = "state" => ToSet(ParametersOf[e]) = {"org_id", "learner_reference", "version"}
           /\ e = "list" => ToSet(ParametersOf[e]) = {"org_id", "limit"}
           /\ e = "ingestion" => ToSet(ParametersOf[e]) = {"org_id", "limit", "outcome"}
           /\ e = "trajectory" => ToSet(ParametersOf[e]) =
                {"org_id", "learner_reference", "fields", "from_version", "to_version", "page_size", "page_token"}
           /\ e = "summary" => ToSet(ParametersOf[e]) =
                {"org_id", "learner_reference", "recent_decisions_limit", "trajectory_fields"}
<1>1. CASE e \in {"signals", "decisions"}
  BY <1>1 DEF ParametersOf, ToSet, Names
<1>2. CASE e \in {"state", "list", "ingestion"}
  BY <1>2 DEF ParametersOf, ToSet, Names
<1>3. CASE e = "trajectory"
  BY <1>3 DEF ParametersOf, ToSet, Names
<1>4. CASE e = "summary"
  BY <1>4 DEF ParametersOf, ToSet, Names
<1> QED
  BY <1>1, <1>2, <1>3, <1>4 DEF AllEndpoints

\* A request that may be asked of an endpoint.
Askable(e, p) ==
  e \in AllEndpoints /\ p = [f \in ToSet(ParametersOf[e]) |-> p[f]] /\ \A f \in DOMAIN p : p[f] \in KindsOf(f)
Loose(e) == e \in {"state", "list", "ingestion"}

LEMMA AnswerNamed ==
    ASSUME NEW host \in Hosts, NEW e, NEW p, Askable(e, p)
    PROVE  LET x == AnswerOf(host, e, p) IN
           x \in Answers /\ (IF host = "lambda" /\ Loose(e) THEN x.field = "none" ELSE Named(p, x))
<1> DEFINE q == [f \in DOMAIN p |-> Received(host, p[f], f)]
           s == FaultsOf(host, e, q)
           x == FirstFault(s)
<1>1. AnswerOf(host, e, p) = x
  BY DEF AnswerOf
<1>2. DOMAIN p = ToSet(ParametersOf[e]) /\ DOMAIN q = DOMAIN p /\ e \in AllEndpoints
  BY DEF Askable
<1>3. \A f \in DOMAIN p : f \in Names \ {"none"} /\ q[f] \in KindsOf(f) /\ (p[f] # "repeated" => q[f] = p[f])
  BY <1>2, NamesOf, ReceivedKind DEF Askable
<1> HIDE DEF q
<1>4. CASE host = "lambda" /\ Loose(e)
  <2>1. s \in {LambdaStateFaults(q), LambdaListFaults(q), LambdaIngestionFaults(q)}
    BY <1>4 DEF FaultsOf, Loose
  <2> HIDE DEF s
  <2> QED
    BY <1>1, <1>4, <2>1, LooseUnnamed DEF Answers
<1>5. CASE ~(host = "lambda" /\ Loose(e))
  <2>1. Named(q, x) /\ x \in Answers
    <3>1. CASE e \in {"signals", "decisions"}
      <4>1. s = SignalsFaults(q)
        BY <3>1 DEF FaultsOf, DecisionsFaults
      <4>2. AllNamed(q, s)
        BY <1>2, <3>1, <4>1, NamesOf, SignalsNamed
      <4> HIDE DEF s
      <4> QED
        BY <4>2, FirstIsNamed
    <3>2. CASE e = "state"
      <4>1. s = StateFaults(q)
        BY <1>5, <3>2 DEF FaultsOf, Loose, Hosts
      <4>2. AllNamed(q, s)
        BY <1>2, <3>2, <4>1, NamesOf, StateNamed
      <4> HIDE DEF s
      <4> QED
        BY <4>2, FirstIsNamed
    <3>3. CASE e = "list"
      <4>1. s = ListFaults(q)
        BY <1>5, <3>3 DEF FaultsOf, Loose, Hosts
      <4>2. AllNamed(q, s)
        BY <1>2, <3>3, <4>1, NamesOf, ListNamed
      <4> HIDE DEF s
      <4> QED
        BY <4>2, FirstIsNamed
    <3>4. CASE e = "ingestion"
      <4>1. s = IngestionFaults(q)
        BY <1>5, <3>4 DEF FaultsOf, Loose, Hosts
      <4>2. AllNamed(q, s)
        BY <1>2, <3>4, <4>1, NamesOf, IngestionNamed
      <4> HIDE DEF s
      <4> QED
        BY <4>2, FirstIsNamed
    <3>5. CASE e = "trajectory"
      <4>1. s = TrajectoryFaults(q)
        BY <3>5 DEF FaultsOf, LambdaTrajectoryFaults
      <4>2. DOMAIN q = {"org_id", "learner_reference", "fields", "from_version", "to_version", "page_size", "page_token"}
        BY <1>2, <3>5, NamesOf
      <4>3. {q.from_version, q.to_version} \subseteq Numbers
        <5>1. q["from_version"] \in KindsOf("from_version") /\ q["to_version"] \in KindsOf("to_version")
          BY <1>2, <1>3, <4>2
        <5> QED
          BY <5>1 DEF KindsOf
      <4> HIDE DEF s
      <4> QED
        BY <4>1, <4>2, <4>3, TrajectoryNamed
    <3>6. CASE e = "summary"
      <4>1. s = SummaryFaults(q)
        BY <3>6 DEF FaultsOf, LambdaSummaryFaults
      <4>2. AllNamed(q, s)
        BY <1>2, <3>6, <4>1, NamesOf, SummaryNamed
      <4> HIDE DEF s
      <4> QED
        BY <4>2, FirstIsNamed
    <3> QED
      BY <1>2, <3>1, <3>2, <3>3, <3>4, <3>5, <3>6 DEF AllEndpoints
  <2> HIDE DEF x
  <2>2. Named(p, x)
    BY <1>2, <1>3, <2>1 DEF Named, BeyondEnd, WellFormed
  <2> QED
    BY <1>1, <1>5, <2>1, <2>2
<1> QED
  BY <1>4, <1>5

--------------------------------------------------------------------------------
\* The codes of the lists that the copies of three endpoints are compared with.
LEMMA CodeOfBoth ==
    ASSUME NEW s \in Seq(Faults), NEW t \in Seq(Faults)
    PROVE  FirstFault(s \o t).code = IF FirstFault(s).code # "none" THEN FirstFault(s).code ELSE FirstFault(t).code
BY FirstFaultOfBoth

LEMMA OrgCode ==
    ASSUME NEW q
    PROVE  /\ OrgFaults(q) \in Seq(Faults)
           /\ FirstFault(OrgFaults(q)).code =
                IF NotText(q.org_id) THEN "org_scope_required" ELSE IF q.org_id = "long" THEN "invalid_length" ELSE "none"
<1> DEFINE a == Fault("org_id", NotText(q.org_id), "org_scope_required")
           b == Fault("org_id", q.org_id = "long", "invalid_length")
<1>1. a \in Faults /\ b \in Faults
  BY DEF Fault, Faults, Names, Codes, NotText
<1>2. a.code = (IF NotText(q.org_id) THEN "org_scope_required" ELSE "none")
  BY DEF Fault, NotText
<1>3. b.code = (IF q.org_id = "long" THEN "invalid_length" ELSE "none")
  BY DEF Fault
<1>4. OrgFaults(q) = <<a, b>>
  BY DEF OrgFaults
<1> HIDE DEF a, b
<1> QED
  BY <1>1, <1>2, <1>3, <1>4, FirstOfTwo DEF NotText, Fine

LEMMA LearnerCode ==
    ASSUME NEW q
    PROVE  /\ LearnerFaults(q) \in Seq(Faults)
           /\ FirstFault(LearnerFaults(q)).code =
                IF NotText(q.learner_reference) THEN "missing_required_field"
                ELSE IF q.learner_reference = "long" THEN "invalid_length" ELSE "none"
<1> DEFINE a == Fault("learner_reference", NotText(q.learner_reference), "missing_required_field")
           b == Fault("learner_reference", q.learner_reference = "long", "invalid_length")
<1>1. a \in Faults /\ b \in Faults
  BY DEF Fault, Faults, Names, Codes, NotText
<1>2. a.code = (IF NotText(q.learner_reference) THEN "missing_required_field" ELSE "none")
  BY DEF Fault, NotText
<1>3. b.code = (IF q.learner_reference = "long" THEN "invalid_length" ELSE "none")
  BY DEF Fault
<1>4. LearnerFaults(q) = <<a, b>>
  BY DEF LearnerFaults
<1> HIDE DEF a, b
<1> QED
  BY <1>1, <1>2, <1>3, <1>4, FirstOfTwo DEF NotText, Fine

LEMMA StateCodes ==
    ASSUME NEW q, q.version # "repeated",
           FirstFault(StateFaults(q)).code # FirstFault(LambdaStateFaults(q)).code
    PROVE  q.org_id = "long" \/ q.learner_reference = "long"
<1> SUFFICES ASSUME q.org_id # "long", q.learner_reference # "long" PROVE FALSE
  OBVIOUS
<1> DEFINE v == Fault("version", q.version \in {"text", "repeated", "zero"}, "invalid_type")
           a == Fault("none", NotText(q.org_id), "org_scope_required")
           b == Fault("none", NotText(q.learner_reference), "missing_required_field")
           c == Fault("none", q.version \in {"text", "zero"}, "invalid_type")
           o == OrgFaults(q)
           l == LearnerFaults(q)
           w == <<v>>
<1>1. {v, a, b, c} \subseteq Faults
  BY DEF Fault, Faults, Names, Codes, NotText
<1>2. /\ a.code = (IF NotText(q.org_id) THEN "org_scope_required" ELSE "none")
      /\ b.code = (IF NotText(q.learner_reference) THEN "missing_required_field" ELSE "none")
      /\ c.code = (IF q.version \in {"text", "zero"} THEN "invalid_type" ELSE "none")
      /\ v.code = c.code
  BY DEF Fault, NotText
<1>3. LambdaStateFaults(q) = <<a, b, c>> /\ StateFaults(q) = o \o l \o w
  BY DEF LambdaStateFaults, StateFaults
<1>4. w \in Seq(Faults) /\ FirstFault(w).code = v.code
  BY <1>1, FirstOfOne DEF Fine
<1>5. o \in Seq(Faults) /\ FirstFault(o).code = (IF NotText(q.org_id) THEN "org_scope_required" ELSE "none")
  BY OrgCode
<1>6. l \in Seq(Faults) /\ FirstFault(l).code = (IF NotText(q.learner_reference) THEN "missing_required_field" ELSE "none")
  BY LearnerCode
<1> HIDE DEF v, a, b, c, o, l, w
<1>7. FirstFault(LambdaStateFaults(q)).code =
        IF a.code # "none" THEN a.code ELSE IF b.code # "none" THEN b.code ELSE c.code
  BY <1>1, <1>3, FirstOfThree DEF Fine
<1>8. o \o l \in Seq(Faults)
  BY <1>5, <1>6, FirstFaultOfBoth
<1>9. FirstFault(StateFaults(q)).code =
        IF FirstFault(o).code # "none" THEN FirstFault(o).code
        ELSE IF FirstFault(l).code # "none" THEN FirstFault(l).code ELSE v.code
  BY <1>3, <1>4, <1>5, <1>6, <1>8, CodeOfBoth
<1> QED
  BY <1>2, <1>5, <1>6, <1>7, <1>9

LEMMA ListCodes ==
    ASSUME NEW q, q.limit # "repeated",
           FirstFault(ListFaults(q)).code # FirstFault(LambdaListFaults(q)).code
    PROVE  q.org_id = "long" \/ q.limit = "blank"
<1> SUFFICES ASSUME q.org_id # "long", q.limit # "blank" PROVE FALSE
  OBVIOUS
<1> DEFINE v == Fault("limit", NotNumber(q.limit) \/ q.limit \in {"zero", "over"}, "limit_out_of_range")
           a == Fault("none", NotText(q.org_id), "org_scope_required")
           d == Fault("none", q.limit \in {"text", "zero", "over"}, "limit_out_of_range")
           o == OrgFaults(q)
           w == <<v>>
<1>1. {v, a, d} \subseteq Faults
  BY DEF Fault, Faults, Names, Codes, NotText, NotNumber
<1>2. a.code = (IF NotText(q.org_id) THEN "org_scope_required" ELSE "none") /\ v.code = d.code
  BY DEF Fault, NotText, NotNumber
<1>3. LambdaListFaults(q) = <<a, d>> /\ ListFaults(q) = o \o w
  BY DEF LambdaListFaults, ListFaults
<1>4. w \in Seq(Faults) /\ FirstFault(w).code = v.code
  BY <1>1, FirstOfOne DEF Fine
<1>5. o \in Seq(Faults) /\ FirstFault(o).code = (IF NotText(q.org_id) THEN "org_scope_required" ELSE "none")
  BY OrgCode
<1> HIDE DEF v, a, d, o, w
<1>6. FirstFault(LambdaListFaults(q)).code = IF a.code # "none" THEN a.code ELSE d.code
  BY <1>1, <1>3, FirstOfTwo DEF Fine
<1>7. FirstFault(ListFaults(q)).code = IF FirstFault(o).code # "none" THEN FirstFault(o).code ELSE v.code
  BY <1>3, <1>4, <1>5, CodeOfBoth
<1> QED
  BY <1>2, <1>5, <1>6, <1>7

LEMMA IngestionCodes ==
    ASSUME NEW q, q.limit # "repeated", q.outcome # "repeated",
           FirstFault(IngestionFaults(q)).code # FirstFault(LambdaIngestionFaults(q)).code
    PROVE  q.org_id = "long" \/ q.limit \in {"blank", "text"}
<1> SUFFICES ASSUME q.org_id # "long", q.limit \notin {"blank", "text"} PROVE FALSE
  OBVIOUS
<1> DEFINE u == Fault("limit", NotNumber(q.limit), "invalid_type")
           v == Fault("limit", q.limit \in {"zero", "over"}, "limit_out_of_range")
           x == Fault("outcome", q.outcome \in {"bad", "repeated"}, "invalid_outcome_filter")
           a == Fault("none", NotText(q.org_id), "org_scope_required")
           d == Fault("none", q.limit \in {"text", "zero", "over"}, "limit_out_of_range")
           e == Fault("none", q.outcome = "bad", "invalid_outcome_filter")
           o == OrgFaults(q)
           l == LambdaListFaults(q)
           w == <<u, v, x>>
           y == <<e>>
<1>1. {u, v, x, a, d, e} \subseteq Faults
  BY DEF Fault, Faults, Names, Codes, NotText, NotNumber
<1>2. /\ a.code = (IF NotText(q.org_id) THEN "org_scope_required" ELSE "none")
      /\ u.code = "none" /\ v.code = d.code /\ x.code = e.code
  BY DEF Fault, NotText, NotNumber
<1>3. LambdaIngestionFaults(q) = l \o y /\ l = <<a, d>> /\ IngestionFaults(q) = o \o w
  BY DEF LambdaIngestionFaults, LambdaListFaults, IngestionFaults
<1>4. w \in Seq(Faults) /\ FirstFault(w).code = (IF u.code # "none" THEN u.code ELSE IF v.code # "none" THEN v.code ELSE x.code)
  BY <1>1, FirstOfThree DEF Fine
<1>5. o \in Seq(Faults) /\ FirstFault(o).code = (IF NotText(q.org_id) THEN "org_scope_required" ELSE "none")
  BY OrgCode
<1>6. y \in Seq(Faults) /\ FirstFault(y).code = e.code
  BY <1>1, FirstOfOne DEF Fine
<1> HIDE DEF u, v, x, a, d, e, o, w, y, l
<1>7. l \in Seq(Faults) /\ FirstFault(l).code = IF a.code # "none" THEN a.code ELSE d.code
  BY <1>1, <1>3, FirstOfTwo DEF Fine
<1>8. FirstFault(LambdaIngestionFaults(q)).code = IF FirstFault(l).code # "none" THEN FirstFault(l).code ELSE e.code
  BY <1>3, <1>6, <1>7, CodeOfBoth
<1>9. FirstFault(IngestionFaults(q)).code = IF FirstFault(o).code # "none" THEN FirstFault(o).code ELSE FirstFault(w).code
  BY <1>3, <1>4, <1>5, CodeOfBoth
<1> QED
  BY <1>2, <1>4, <1>5, <1>7, <1>8, <1>9

LEMMA AnswersAlike ==
    ASSUME NEW e, NEW p, Askable(e, p), \A f \in DOMAIN p : p[f] # "repeated"
    PROVE  LET server == AnswerOf("server", e, p)  lambda == AnswerOf("lambda", e, p) IN
           /\ server.code # lambda.code =>
                \/ Loose(e) /\ \E f \in {"org_id", "learner_reference"} \cap DOMAIN p : p[f] = "long"
                \/ e = "list" /\ p.limit = "blank"
                \/ e = "ingestion" /\ p.limit \in {"blank", "text"}
           /\ ~Loose(e) => server = lambda
<1>1. DOMAIN p = ToSet(ParametersOf[e]) /\ e \in AllEndpoints /\ p = [f \in DOMAIN p |-> p[f]]
  BY DEF Askable
<1>2. ASSUME NEW host \in Hosts PROVE AnswerOf(host, e, p) = FirstFault(FaultsOf(host, e, p))
  <2> DEFINE q == [f \in DOMAIN p |-> Received(host, p[f], f)]
  <2>1. \A f \in DOMAIN p : Received(host, p[f], f) = p[f]
    BY <1>1, NamesOf, ReceivedKind DEF Askable
  <2>2. q = p
    BY <1>1, <2>1
  <2>3. AnswerOf(host, e, p) = FirstFault(FaultsOf(host, e, q))
    BY DEF AnswerOf
  <2> HIDE DEF q
  <2> QED
    BY <2>2, <2>3
<1> DEFINE server == FirstFault(FaultsOf("server", e, p))
           lambda == FirstFault(FaultsOf("lambda", e, p))
<1>3. AnswerOf("server", e, p) = server /\ AnswerOf("lambda", e, p) = lambda
  BY <1>2 DEF Hosts
<1>4. CASE ~Loose(e)
  <2>1. FaultsOf("server", e, p) = FaultsOf("lambda", e, p)
    BY <1>1, <1>4 DEF FaultsOf, Loose, LambdaTrajectoryFaults, LambdaSummaryFaults, AllEndpoints
  <2> QED
    BY <1>3, <1>4, <2>1
<1>5. CASE e = "state"
  <2>1. server = FirstFault(StateFaults(p)) /\ lambda = FirstFault(LambdaStateFaults(p))
    BY <1>5 DEF FaultsOf
  <2>2. DOMAIN p = {"org_id", "learner_reference", "version"}
    BY <1>1, <1>5, NamesOf
  <2>3. p.version # "repeated"
    BY <2>2
  <2> HIDE DEF server, lambda
  <2>4. server.code # lambda.code => p.org_id = "long" \/ p.learner_reference = "long"
    BY <2>1, <2>3, StateCodes
  <2> QED
    BY <1>3, <1>5, <2>2, <2>4 DEF Loose
<1>6. CASE e = "list"
  <2>1. server = FirstFault(ListFaults(p)) /\ lambda = FirstFault(LambdaListFaults(p))
    BY <1>6 DEF FaultsOf
  <2>2. DOMAIN p = {"org_id", "limit"}
    BY <1>1, <1>6, NamesOf
  <2>3. p.limit # "repeated"
    BY <2>2
  <2> HIDE DEF server, lambda
  <2>4. server.code # lambda.code => p.org_id = "long" \/ p.limit = "blank"
    BY <2>1, <2>3, ListCodes
  <2> QED
    BY <1>3, <1>6, <2>2, <2>4 DEF Loose
<1>7. CASE e = "ingestion"
  <2>1. server = FirstFault(IngestionFaults(p)) /\ lambda = FirstFault(LambdaIngestionFaults(p))
    BY <1>7 DEF FaultsOf
  <2>2. DOMAIN p = {"org_id", "limit", "outcome"}
    BY <1>1, <1>7, NamesOf
  <2>3. p.limit # "repeated" /\ p.outcome # "repeated"
    BY <2>2
  <2> HIDE DEF server, lambda
  <2>4. server.code # lambda.code => p.org_id = "long" \/ p.limit \in {"blank", "text"}
    BY <2>1, <2>3, IngestionCodes
  <2> QED
    BY <1>3, <1>7, <2>2, <2>4 DEF Loose
<1> QED
  BY <1>4, <1>5, <1>6, <1>7 DEF Loose

--------------------------------------------------------------------------------
LEMMA AskedIsAskable == Posed => Askable(asked.endpoint, asked.params) /\ asked # NotAsked
<1> SUFFICES ASSUME Posed PROVE Askable(asked.endpoint, asked.params) /\ asked # NotAsked
  OBVIOUS
<1>1. asked.endpoint \in AllEndpoints
  BY RequestAssumption DEF Posed, AllEndpoints
<1>2. asked # NotAsked
  BY <1>1 DEF NotAsked, AllEndpoints
<1> QED
  BY <1>1, <1>2 DEF Posed, Askable

\* The first request has a kind for each of the parameters.
LEMMA FirstRequestIsAsked ==
    ASSUME NEW host \in Hosts, NEW e \in Endpoints, AskFirst(host, e)
    PROVE  Posed'
<1> DEFINE names == ToSet(ParametersOf[e])
<1>1. PICK wrong \in SUBSET names :
        \E w \in {g \in [wrong -> UNION {KindsOf(f) : f \in names}] :
                    \A f \in wrong : g[f] \in KindsOf(f) \ (WellFormed \ {"two"})} :
          asked' = [host |-> host, endpoint |-> e,
                    params |-> [f \in names |-> IF f \in wrong THEN w[f]
                                                ELSE CHOOSE k \in KindsOf(f) \cap WellFormed : k # "two"]]
  BY DEF AskFirst
<1>2. PICK w \in {g \in [wrong -> UNION {KindsOf(f) : f \in names}] :
                    \A f \in wrong : g[f] \in KindsOf(f) \ (WellFormed \ {"two"})} :
        asked' = [host |-> host, endpoint |-> e,
                  params |-> [f \in names |-> IF f \in wrong THEN w[f]
                                              ELSE CHOOSE k \in KindsOf(f) \cap WellFormed : k # "two"]]
  BY <1>1
<1> DEFINE p == [f \in names |-> IF f \in wrong THEN w[f] ELSE CHOOSE k \in KindsOf(f) \cap WellFormed : k # "two"]
<1>3. asked' = [host |-> host, endpoint |-> e, params |-> p]
  BY <1>2
<1>4. names \subseteq Names \ {"none"}
  BY RequestAssumption, NamesOf DEF AllEndpoints
<1>5. ASSUME NEW f \in names PROVE p[f] \in KindsOf(f)
  <2>1. CASE f \in wrong
    BY <1>2, <2>1
  <2>2. CASE f \notin wrong
    <3>1. \E k \in KindsOf(f) \cap WellFormed : k # "two"
      BY <1>4, HasWellFormed
    <3> QED
      BY <2>2, <3>1
  <2> QED
    BY <2>1, <2>2
<1>6. p = [f \in names |-> p[f]] /\ DOMAIN p = names
  OBVIOUS
<1> HIDE DEF p
<1> QED
  BY <1>3, <1>5, <1>6 DEF Posed

LEMMA RequestStep == RequestInv /\ [RequestNext]_requestVars => RequestInv'
<1> SUFFICES ASSUME RequestInv, [RequestNext]_requestVars PROVE RequestInv'
  OBVIOUS
<1>1. ASSUME NEW host \in Hosts, NEW e \in Endpoints, AskFirst(host, e) PROVE RequestInv'
  <2>1. asked = NotAsked /\ corrected' = corrected
    BY <1>1 DEF AskFirst
  <2>2. corrected = <<>>
    BY <2>1, AskedIsAskable DEF RequestInv
  <2>3. Posed'
    BY <1>1, FirstRequestIsAsked
  <2>4. corrected' \in Seq(Faults) /\ DOMAIN corrected' = {}
    BY <2>1, <2>2
  <2> QED
    BY <2>3, <2>4 DEF RequestInv
<1>2. ASSUME NEW kind \in WellFormed, asked # NotAsked, CorrectNamed(kind) PROVE RequestInv'
  <2> DEFINE p == asked.params
             e == asked.endpoint
             x == AnswerOf(asked.host, e, p)
  <2>1. /\ Posed /\ corrected \in Seq(Faults)
        /\ \A i \in DOMAIN corrected :
             /\ corrected[i].field \in DOMAIN p /\ p[corrected[i].field] \in WellFormed
             /\ corrected[i].code \in {"invalid_time_range", "invalid_format"} => p[corrected[i].field] # "two"
    BY <1>2 DEF RequestInv
  <2>2. /\ x.field # "none" /\ kind \in KindsOf(x.field)
        /\ x.code \in {"invalid_time_range", "invalid_format"} => kind # "two"
        /\ asked' = [asked EXCEPT !.params[x.field] = kind] /\ corrected' = Append(corrected, x)
    BY <1>2 DEF CorrectNamed
  <2>3. x \in Answers /\ Named(p, x)
    <3>1. asked.host \in Hosts /\ Askable(e, p)
      BY <2>1, AskedIsAskable DEF Posed
    <3> QED
      BY <2>2, <3>1, AnswerNamed
  <2>4. x \in Faults /\ x.code # "none"
    BY <2>2, <2>3 DEF Answers
  <2> HIDE DEF x
  <2>5. x.field \in DOMAIN p
    BY <2>3, <2>4 DEF Named
  <2>6. /\ asked'.host = asked.host /\ asked'.endpoint = e /\ asked'.params = [p EXCEPT ![x.field] = kind]
        /\ asked' = [host |-> asked'.host, endpoint |-> asked'.endpoint, params |-> asked'.params]
    BY <2>1, <2>2 DEF Posed
  <2>7. p = [f \in ToSet(ParametersOf[e]) |-> p[f]] /\ \A f \in DOMAIN p : p[f] \in KindsOf(f)
    BY <2>1 DEF Posed
  <2> DEFINE r == [p EXCEPT ![x.field] = kind]
  <2>8. /\ DOMAIN r = DOMAIN p /\ r[x.field] = kind /\ \A f \in DOMAIN p : f # x.field => r[f] = p[f]
        /\ r = [f \in ToSet(ParametersOf[e]) |-> r[f]]
    BY <2>5, <2>7
  <2>9. asked'.params = r
    BY <2>6
  <2> HIDE DEF p, e, r
  <2>10. Posed'
    <3>1. \A f \in DOMAIN r : r[f] \in KindsOf(f)
      BY <2>2, <2>5, <2>7, <2>8
    <3>2. asked'.host \in Hosts /\ asked'.endpoint \in Endpoints
      BY <2>1, <2>6 DEF Posed, e
    <3> QED
      BY <2>6, <2>8, <2>9, <3>1, <3>2 DEF Posed
  <2>11. /\ corrected' \in Seq(Faults) /\ DOMAIN corrected' = DOMAIN corrected \cup {Len(corrected) + 1}
         /\ corrected'[Len(corrected) + 1] = x /\ \A i \in DOMAIN corrected : corrected'[i] = corrected[i]
    BY <2>1, <2>2, <2>4
  <2>12. ASSUME NEW i \in DOMAIN corrected'
         PROVE  /\ corrected'[i].field \in DOMAIN r /\ r[corrected'[i].field] \in WellFormed
                /\ corrected'[i].code \in {"invalid_time_range", "invalid_format"} => r[corrected'[i].field] # "two"
    <3>1. CASE corrected'[i] = x
      BY <1>2, <2>2, <2>5, <2>8, <3>1
    <3>2. CASE i \in DOMAIN corrected /\ corrected'[i] = corrected[i]
      <4>1. CASE corrected[i].field # x.field
        BY <2>1, <2>8, <3>2, <4>1 DEF p
      <4>2. CASE corrected[i].field = x.field
        <5>1. p[x.field] \in WellFormed
          BY <2>1, <3>2, <4>2 DEF p
        <5>2. p[x.field] = "two"
          BY <2>3, <2>4, <5>1 DEF Named, BeyondEnd
        <5>3. corrected[i].code \notin {"invalid_time_range", "invalid_format"}
          BY <2>1, <3>2, <4>2, <5>2 DEF p
        <5> QED
          BY <1>2, <2>5, <2>8, <3>2, <4>2, <5>3
      <4> QED
        BY <4>1, <4>2
    <3> QED
      BY <2>11, <3>1, <3>2
  <2> QED
    BY <2>9, <2>10, <2>11, <2>12 DEF RequestInv
<1>3. CASE UNCHANGED requestVars
  BY <1>3 DEF RequestInv, requestVars, Posed
<1> QED
  BY <1>1, <1>2, <1>3 DEF RequestNext

LEMMA InvEnds == RequestInv => CorrectionsEnd
<1> SUFFICES ASSUME RequestInv, asked # NotAsked PROVE CorrectionsEnd
  BY DEF CorrectionsEnd
<1> DEFINE p == asked.params
           x == AnswerOf(asked.host, asked.endpoint, p)
<1>1. /\ Posed /\ corrected \in Seq(Faults)
      /\ \A i \in DOMAIN corrected :
           /\ corrected[i].field \in DOMAIN p /\ p[corrected[i].field] \in WellFormed
           /\ corrected[i].code \in {"invalid_time_range", "invalid_format"} => p[corrected[i].field] # "two"
  BY DEF RequestInv
<1>2. asked.host \in Hosts /\ Askable(asked.endpoint, p)
  BY <1>1, AskedIsAskable DEF Posed
<1>3. x.field = "none" \/ Named(p, x)
  BY <1>2, AnswerNamed
<1>4. "none" \notin DOMAIN p
  BY <1>2, NamesOf DEF Askable
<1>5. CorrectionsEnd <=>
        (x.code # "none" /\ {i \in DOMAIN corrected : corrected[i].field = x.field} # {} =>
           /\ x.field \in {"from_time", "from_version"} /\ x.code \in {"invalid_time_range", "invalid_format"}
           /\ \A i \in {j \in DOMAIN corrected : corrected[j].field = x.field} : corrected[i].code # x.code)
  BY DEF CorrectionsEnd
<1> HIDE DEF x
<1>6. ASSUME x.code # "none", NEW i \in DOMAIN corrected, corrected[i].field = x.field
      PROVE  BeyondEnd(p, x) /\ corrected[i].code # x.code
  <2>1. BeyondEnd(p, x)
    BY <1>1, <1>3, <1>4, <1>6 DEF Named
  <2> QED
    BY <1>1, <1>6, <2>1 DEF BeyondEnd
<1> QED
  BY <1>5, <1>6 DEF BeyondEnd

LEMMA InvAgrees == RequestInv => HostsAgree
<1> SUFFICES ASSUME RequestInv, asked # NotAsked PROVE HostsAgree
  BY DEF HostsAgree
<1> DEFINE p == asked.params
           e == asked.endpoint
           server == AnswerOf("server", e, p)
           lambda == AnswerOf("lambda", e, p)
<1>1. Askable(e, p)
  BY AskedIsAskable DEF RequestInv
<1>2. lambda.code # "none" => (lambda.field = "none" <=> Loose(e))
  <2>1. IF Loose(e) THEN lambda.field = "none" ELSE Named(p, lambda)
    BY <1>1, AnswerNamed DEF Hosts
  <2> QED
    BY <2>1 DEF Named
<1>3. (\A f \in DOMAIN p : p[f] # "repeated") =>
        /\ server.code # lambda.code =>
             \/ Loose(e) /\ \E f \in {"org_id", "learner_reference"} \cap DOMAIN p : p[f] = "long"
             \/ e = "list" /\ p.limit = "blank"
             \/ e = "ingestion" /\ p.limit \in {"blank", "text"}
        /\ ~Loose(e) => server = lambda
  BY <1>1, AnswersAlike
<1> QED
  BY <1>2, <1>3 DEF HostsAgree, Loose

\* Whichever endpoint is asked with whatever parameters, the two hosts find the same fault but for the
\* differences listed, and a client that corrects what is named comes to an end.
THEOREM RequestsAlwaysAnswered == RequestSpec => []RequestsAnswered
<1>1. RequestInit => RequestInv
  BY DEF RequestInit, RequestInv
<1>2. RequestInv => RequestsAnswered
  BY InvEnds, InvAgrees DEF RequestsAnswered
<1> QED
  BY <1>1, <1>2, RequestStep, PTL DEF RequestSpec

--------------------------------------------------------------------------------
\* The listings of the read API, followed page by page while signals go on being ingested.
\* The order of the keys is a strict and total one.
LEMMA LexOrder ==
  /\ \A p \in Nat \X Nat : ~LexLess(p, p)
  /\ \A p, q, r \in Nat \X Nat : LexLess(p, q) /\ LexLess(q, r) => LexLess(p, r)
  /\ \A p, q \in Nat \X Nat : p = q \/ LexLess(p, q) \/ LexLess(q, p)
<1>1. \A p \in Nat \X Nat : p = <<p[1], p[2]>> /\ p[1] \in Nat /\ p[2] \in Nat
  OBVIOUS
<1>2. \A p \in Nat \X Nat : ~LexLess(p, p)
  BY <1>1 DEF LexLess
<1>3. ASSUME NEW p \in Nat \X Nat, NEW q \in Nat \X Nat, NEW r \in Nat \X Nat, LexLess(p, q), LexLess(q, r)
      PROVE  LexLess(p, r)
  BY <1>1, <1>3 DEF LexLess
<1>4. ASSUME NEW p \in Nat \X Nat, NEW q \in Nat \X Nat PROVE p = q \/ LexLess(p, q) \/ LexLess(q, p)
  <2>1. p = <<p[1], p[2]>> /\ q = <<q[1], q[2]>> /\ p[1] \in Nat /\ p[2] \in Nat /\ q[1] \in Nat /\ q[2] \in Nat
    BY <1>1
  <2>2. p[1] = q[1] /\ p[2] = q[2] => p = q
    BY <2>1
  <2> QED
    BY <2>1, <2>2 DEF LexLess
<1> QED
  BY <1>2, <1>3, <1>4

\* As many rows are before a row as its place says, because no two have as many before them.
Keyed(K, key) ==
  /\ IsFiniteSet(K) /\ DOMAIN key = K
  /\ \A x \in K : key[x] \in Nat \X Nat
  /\ \A x, y \in K : key[x] = key[y] => x = y
Preceding(K, key, x) == {y \in K : LexLess(key[y], key[x])}
LEMMA EachPlaceIsTaken ==
    ASSUME NEW K, NEW key, Keyed(K, key)
    PROVE  /\ Cardinality(K) \in Nat
           /\ \A x \in K : Cardinality(Preceding(K, key, x)) \in 0..(Cardinality(K) - 1)
           /\ \A x, y \in K : LexLess(key[x], key[y]) <=>
                Cardinality(Preceding(K, key, x)) < Cardinality(Preceding(K, key, y))
           /\ \A n \in 1..Cardinality(K) : \E x \in K : Cardinality(Preceding(K, key, x)) = n - 1
<1> DEFINE c == Cardinality(K)
           rank == [x \in K |-> Cardinality(Preceding(K, key, x))]
<1>1. c \in Nat /\ IsFiniteSet(K)
  BY FS_CardinalityType DEF Keyed
<1>2. ASSUME NEW x \in K PROVE /\ Preceding(K, key, x) \in SUBSET (K \ {x}) /\ IsFiniteSet(Preceding(K, key, x))
                               /\ Cardinality(Preceding(K, key, x)) \in 0..(c - 1)
  <2>1. Preceding(K, key, x) \in SUBSET (K \ {x})
    BY LexOrder DEF Preceding, Keyed
  <2>2. IsFiniteSet(K \ {x}) /\ Cardinality(K \ {x}) = c - 1
    BY <1>1, FS_RemoveElement
  <2>3. IsFiniteSet(Preceding(K, key, x)) /\ Cardinality(Preceding(K, key, x)) <= c - 1
    BY <2>1, <2>2, FS_Subset
  <2>4. Cardinality(Preceding(K, key, x)) \in Nat
    BY <2>3, FS_CardinalityType
  <2> QED
    BY <1>1, <2>1, <2>3, <2>4
<1>3. ASSUME NEW x \in K, NEW y \in K, LexLess(key[x], key[y])
      PROVE  Cardinality(Preceding(K, key, x)) < Cardinality(Preceding(K, key, y))
  <2>1. Preceding(K, key, x) \subseteq Preceding(K, key, y)
    BY <1>3, LexOrder DEF Preceding, Keyed
  <2>2. x \in Preceding(K, key, y) /\ x \notin Preceding(K, key, x)
    BY <1>2, <1>3 DEF Preceding
  <2>3. IsFiniteSet(Preceding(K, key, y)) /\ Preceding(K, key, x) # Preceding(K, key, y)
    BY <1>2, <2>2
  <2>4. /\ Cardinality(Preceding(K, key, x)) <= Cardinality(Preceding(K, key, y))
        /\ Cardinality(Preceding(K, key, x)) # Cardinality(Preceding(K, key, y))
    BY <2>1, <2>3, FS_Subset
  <2> QED
    BY <1>2, <2>4
<1>4. ASSUME NEW x \in K, NEW y \in K
      PROVE  LexLess(key[x], key[y]) <=> Cardinality(Preceding(K, key, x)) < Cardinality(Preceding(K, key, y))
  <2>1. x = y \/ LexLess(key[x], key[y]) \/ LexLess(key[y], key[x])
    BY LexOrder DEF Keyed
  <2>2. x = y => ~LexLess(key[x], key[y])
    BY LexOrder DEF Keyed
  <2> QED
    BY <1>2, <1>3, <2>1, <2>2
<1>5. rank \in Injection(K, 0..(c - 1))
  <2>1. rank \in [K -> 0..(c - 1)]
    BY <1>2
  <2>2. ASSUME NEW x \in K, NEW y \in K, rank[x] = rank[y] PROVE x = y
    <3>1. x = y \/ LexLess(key[x], key[y]) \/ LexLess(key[y], key[x])
      BY LexOrder DEF Keyed
    <3> QED
      BY <1>2, <1>3, <2>2, <3>1
  <2> HIDE DEF rank
  <2> QED
    BY <2>1, <2>2 DEF Injection, IsInjective
<1>6. IsFiniteSet(0..(c - 1)) /\ Cardinality(0..(c - 1)) = c
  <2>1. 0 \in Int /\ c - 1 \in Int
    BY <1>1
  <2>2. IsFiniteSet(0..(c - 1)) /\ Cardinality(0..(c - 1)) = IF 0 > c - 1 THEN 0 ELSE c - 1 - 0 + 1
    BY <2>1, FS_Interval
  <2> QED
    BY <1>1, <2>2
<1>7. rank \in Surjection(K, 0..(c - 1))
  <2> HIDE DEF rank, c
  <2> QED
    BY <1>5, <1>6, FS_Injection DEF c
<1>8. ASSUME NEW n \in 1..c PROVE \E x \in K : Cardinality(Preceding(K, key, x)) = n - 1
  <2>1. n - 1 \in 0..(c - 1)
    BY <1>1
  <2>2. PICK x \in K : rank[x] = n - 1
    BY <1>7, <2>1 DEF Surjection
  <2> QED
    BY <2>2
<1> QED
  BY <1>1, <1>2, <1>4, <1>8

\* Rows that are sorted: each once, in the order of their keys.
LEMMA SortedRows ==
    ASSUME NEW K, NEW key, Keyed(K, key)
    PROVE  /\ SortedBy(key) \in Seq(K) /\ Len(SortedBy(key)) = Cardinality(K) /\ Cardinality(K) \in Nat
           /\ ToSet(SortedBy(key)) = K
           /\ \A i \in 1..Cardinality(K) : Cardinality(Preceding(K, key, SortedBy(key)[i])) = i - 1
           /\ \A i, j \in 1..Cardinality(K) : i < j => LexLess(key[SortedBy(key)[i]], key[SortedBy(key)[j]])
<1> DEFINE c == Cardinality(K)
           Rank(x) == Cardinality(Preceding(K, key, x))
           s == [n \in 1..c |-> CHOOSE x \in K : Rank(x) = n - 1]
<1>1. c \in Nat /\ (\A n \in 1..c : \E x \in K : Rank(x) = n - 1)
      /\ \A x \in K : Rank(x) \in 0..(c - 1)
  BY EachPlaceIsTaken
<1>2. \A x, y \in K : LexLess(key[x], key[y]) <=> Rank(x) < Rank(y)
  BY EachPlaceIsTaken
<1>3. SortedBy(key) = s
  BY DEF SortedBy, Preceding, Keyed
<1> HIDE DEF Rank
<1>4. \A n \in 1..c : s[n] \in K /\ Rank(s[n]) = n - 1
  BY <1>1
<1>5. s \in [1..c -> K]
  BY <1>4
<1>6. s \in Seq(K) /\ Len(s) = c /\ DOMAIN s = 1..c
  BY <1>1, <1>5
<1>7. ASSUME NEW x \in K PROVE \E n \in 1..c : s[n] = x
  <2>1. Rank(x) + 1 \in 1..c
    BY <1>1
  <2>2. s[Rank(x) + 1] \in K /\ Rank(s[Rank(x) + 1]) = Rank(x)
    BY <1>1, <1>4, <2>1
  <2> DEFINE y == s[Rank(x) + 1]
  <2>3. y \in K /\ Rank(y) = Rank(x) /\ Rank(x) \in Nat
    BY <1>1, <2>2
  <2> HIDE DEF s, y
  <2>4. ~LexLess(key[x], key[y]) /\ ~LexLess(key[y], key[x])
    BY <1>2, <2>3
  <2>5. key[x] = key[y]
    BY <2>3, <2>4, LexOrder DEF Keyed
  <2>6. x = y
    BY <2>3, <2>5 DEF Keyed
  <2> QED
    BY <2>1, <2>6 DEF y
<1> HIDE DEF s, c
<1>8. ToSet(s) = K
  BY <1>4, <1>6, <1>7 DEF ToSet
<1>9. \A i, j \in 1..c : i < j => LexLess(key[s[i]], key[s[j]])
  BY <1>1, <1>2, <1>4
<1> QED
  BY <1>1, <1>3, <1>4, <1>6, <1>8, <1>9 DEF Rank, c

Ascending(s) == \A i, j \in DOMAIN s : i < j => s[i] < s[j]
Distinct(s) == \A i, j \in DOMAIN s : s[i] = s[j] => i = j

\* Rows whose keys grow with their numbers are in the order of their numbers.
LEMMA SortedNumbers ==
    ASSUME NEW K \in SUBSET Nat, NEW key, Keyed(K, key), \A x, y \in K : x < y => LexLess(key[x], key[y])
    PROVE  /\ Ascending(SortedBy(key)) /\ Cardinality(K) \in Nat
           /\ \A i \in 1..Cardinality(K) : Cardinality({y \in K : y < SortedBy(key)[i]}) = i - 1
<1> DEFINE s == SortedBy(key)
           c == Cardinality(K)
<1>1. /\ s \in Seq(K) /\ Len(s) = c /\ c \in Nat
      /\ \A i \in 1..c : Cardinality(Preceding(K, key, s[i])) = i - 1
      /\ \A i, j \in 1..c : i < j => LexLess(key[s[i]], key[s[j]])
  BY SortedRows
<1> HIDE DEF s, c
<1>2. DOMAIN s = 1..c /\ \A i \in 1..c : s[i] \in K
  BY <1>1
<1>3. \A x, y \in K : LexLess(key[x], key[y]) <=> x < y
  <2> SUFFICES ASSUME NEW x \in K, NEW y \in K, LexLess(key[x], key[y]) PROVE x < y
    OBVIOUS
  <2>1. key[x] \in Nat \X Nat /\ key[y] \in Nat \X Nat
    BY DEF Keyed
  <2>2. x # y /\ ~LexLess(key[y], key[x])
    BY <2>1, LexOrder
  <2> QED
    BY <2>2
<1>4. Ascending(s)
  BY <1>1, <1>2, <1>3 DEF Ascending
<1>5. \A x \in K : Preceding(K, key, x) = {y \in K : y < x}
  BY <1>3 DEF Preceding
<1> QED
  BY <1>1, <1>2, <1>4, <1>5 DEF s, c

LEMMA RowIdsKeyed ==
    ASSUME NEW K \in SUBSET Nat, IsFiniteSet(K)
    PROVE  Keyed(K, RowIds(K)) /\ \A x, y \in K : x < y => LexLess(RowIds(K)[x], RowIds(K)[y])
BY DEF Keyed, RowIds, LexLess

\* Numbers that follow one another.
LEMMA SortedInterval ==
    ASSUME NEW a \in Nat, NEW b \in Nat, a <= b
    PROVE  SortedBy(RowIds((a + 1)..b)) = [i \in 1..(b - a) |-> a + i]
<1> DEFINE K == (a + 1)..b
           s == SortedBy(RowIds(K))
<1>1. K \in SUBSET Nat /\ IsFiniteSet(K) /\ Cardinality(K) = b - a
  <2>1. a + 1 \in Int /\ b \in Int
    OBVIOUS
  <2>2. IsFiniteSet((a + 1)..b) /\ Cardinality((a + 1)..b) = IF a + 1 > b THEN 0 ELSE b - (a + 1) + 1
    BY <2>1, FS_Interval
  <2> QED
    BY <2>2
<1> HIDE DEF K
<1>2. Keyed(K, RowIds(K)) /\ \A x, y \in K : x < y => LexLess(RowIds(K)[x], RowIds(K)[y])
  BY <1>1, RowIdsKeyed
<1>3. s \in Seq(K) /\ Len(s) = b - a
  BY <1>1, <1>2, SortedRows
<1>4. \A i \in 1..(b - a) : Cardinality({y \in K : y < s[i]}) = i - 1
  BY <1>1, <1>2, SortedNumbers
<1> HIDE DEF s
<1>5. ASSUME NEW i \in 1..(b - a) PROVE s[i] = a + i
  <2>1. s[i] \in K
    BY <1>3
  <2>2. PICK x \in K : x = s[i]
    BY <2>1
  <2>3. {y \in K : y < x} = (a + 1)..(x - 1) /\ x \in Nat /\ x > a
    BY <2>2 DEF K
  <2>4. a + 1 \in Int /\ x - 1 \in Int
    BY <2>3
  <2>5. Cardinality((a + 1)..(x - 1)) = IF a + 1 > x - 1 THEN 0 ELSE x - 1 - (a + 1) + 1
    BY <2>4, FS_Interval
  <2>6. Cardinality((a + 1)..(x - 1)) = i - 1
    BY <1>4, <2>2, <2>3
  <2> QED
    BY <2>2, <2>3, <2>5, <2>6
<1>6. s = [i \in 1..(b - a) |-> s[i]]
  BY <1>3
<1>7. s = [i \in 1..(b - a) |-> a + i]
  BY <1>5, <1>6
<1> QED
  BY <1>7 DEF s, K


--------------------------------------------------------------------------------
\* Parts of sequences, and sequences that follow one another.
LEMMA Taken ==
    ASSUME NEW S, NEW s \in Seq(S), NEW n \in Nat
    PROVE  /\ Take(s, n) \in Seq(S)
           /\ Len(Take(s, n)) = IF n < Len(s) THEN n ELSE Len(s)
           /\ \A i \in 1..Len(Take(s, n)) : Take(s, n)[i] = s[i] /\ i \in DOMAIN s
           /\ ToSet(Take(s, n)) \subseteq ToSet(s)
           /\ Len(s) <= n => ToSet(Take(s, n)) = ToSet(s)
           /\ \A x \in ToSet(s) \ ToSet(Take(s, n)) : \E i \in DOMAIN s : i > n /\ x = s[i]
           /\ Ascending(s) => Ascending(Take(s, n))
           /\ Distinct(s) => Distinct(Take(s, n))
<1> DEFINE m == IF n < Len(s) THEN n ELSE Len(s)
           t == Take(s, n)
<1>1. Len(s) \in Nat /\ m \in Nat /\ m <= Len(s) /\ DOMAIN s = 1..Len(s) /\ m <= n
  OBVIOUS
<1>2. t = SubSeq(s, 1, m)
  BY DEF Take
<1> HIDE DEF m, t
<1>3. t \in Seq(S) /\ Len(t) = m /\ \A i \in 1..m : t[i] = s[i]
  BY <1>1, <1>2
<1>4. DOMAIN t = 1..m /\ \A i \in 1..m : i \in DOMAIN s
  BY <1>1, <1>3
<1>5. ToSet(t) \subseteq ToSet(s)
  BY <1>3, <1>4 DEF ToSet
<1>6. ASSUME NEW x \in ToSet(s) \ ToSet(t) PROVE \E i \in DOMAIN s : i > n /\ x = s[i]
  <2>1. PICK i \in DOMAIN s : x = s[i]
    BY <1>6 DEF ToSet
  <2>2. i \notin 1..m
    BY <1>3, <1>4, <1>6, <2>1 DEF ToSet
  <2>3. i > n
    BY <1>1, <2>2 DEF m
  <2> QED
    BY <2>1, <2>3
<1>7. Len(s) <= n => ToSet(s) \subseteq ToSet(t)
  BY <1>1, <1>6
<1>8. Ascending(s) => Ascending(t)
  BY <1>3, <1>4 DEF Ascending
<1>9. Distinct(s) => Distinct(t)
  BY <1>3, <1>4 DEF Distinct
<1> QED
  BY <1>3, <1>4, <1>5, <1>6, <1>7, <1>8, <1>9 DEF t, m

LEMMA Reversed ==
    ASSUME NEW S, NEW s \in Seq(S)
    PROVE  /\ Reverse(s) \in Seq(S) /\ Len(Reverse(s)) = Len(s) /\ ToSet(Reverse(s)) = ToSet(s)
           /\ \A i \in 1..Len(s) : Reverse(s)[i] = s[Len(s) - i + 1] /\ Len(s) - i + 1 \in 1..Len(s)
<1> DEFINE t == Reverse(s)
<1>1. Len(s) \in Nat /\ DOMAIN s = 1..Len(s) /\ \A i \in 1..Len(s) : s[i] \in S /\ Len(s) - i + 1 \in 1..Len(s)
  OBVIOUS
<1>2. t = [i \in 1..Len(s) |-> s[(Len(s) - i) + 1]]
  BY DEF Reverse
<1>3. t \in [1..Len(s) -> S]
  BY <1>1, <1>2
<1>4. t \in Seq(S) /\ Len(t) = Len(s) /\ DOMAIN t = 1..Len(s)
  BY <1>1, <1>3
<1>5. \A i \in 1..Len(s) : t[i] = s[Len(s) - i + 1]
  BY <1>2
<1> HIDE DEF t
<1>6. ToSet(t) \subseteq ToSet(s)
  BY <1>1, <1>4, <1>5 DEF ToSet
<1>7. ASSUME NEW i \in 1..Len(s) PROVE s[i] \in ToSet(t)
  <2>1. PICK j \in 1..Len(s) : j = Len(s) - i + 1
    BY <1>1
  <2>2. t[j] = s[Len(s) - j + 1] /\ Len(s) - j + 1 = i
    BY <1>1, <1>5, <2>1
  <2> QED
    BY <1>4, <2>2 DEF ToSet
<1>8. ToSet(s) \subseteq ToSet(t)
  BY <1>1, <1>7 DEF ToSet
<1> QED
  BY <1>1, <1>4, <1>5, <1>6, <1>8 DEF t

LEMMA Joined ==
    ASSUME NEW s \in Seq(Nat), NEW t \in Seq(Nat)
    PROVE  /\ s \o t \in Seq(Nat) /\ ToSet(s \o t) = ToSet(s) \cup ToSet(t) /\ Len(s \o t) = Len(s) + Len(t)
           /\ \A i \in 1..Len(s) : (s \o t)[i] = s[i]
           /\ \A i \in 1..Len(t) : (s \o t)[Len(s) + i] = t[i]
           /\ Ascending(s) /\ Ascending(t) /\ (\A x \in ToSet(s), y \in ToSet(t) : x < y) => Ascending(s \o t)
           /\ Distinct(s) /\ Distinct(t) /\ ToSet(s) \cap ToSet(t) = {} => Distinct(s \o t)
<1> DEFINE u == s \o t
<1>1. /\ u \in Seq(Nat) /\ Len(u) = Len(s) + Len(t) /\ DOMAIN u = 1..Len(u)
      /\ \A i \in 1..Len(s) : u[i] = s[i]
      /\ \A i \in 1..Len(t) : u[Len(s) + i] = t[i]
      /\ \A i \in 1..Len(u) : i > Len(s) => i - Len(s) \in 1..Len(t) /\ u[i] = t[i - Len(s)]
  OBVIOUS
<1>2. DOMAIN s = 1..Len(s) /\ DOMAIN t = 1..Len(t) /\ Len(s) \in Nat /\ Len(t) \in Nat
  OBVIOUS
<1> HIDE DEF u
<1>3. ASSUME NEW i \in DOMAIN u
      PROVE  \/ i \in DOMAIN s /\ u[i] = s[i]
             \/ i > Len(s) /\ i - Len(s) \in DOMAIN t /\ u[i] = t[i - Len(s)]
  BY <1>1, <1>2
<1>4. ToSet(u) = ToSet(s) \cup ToSet(t)
  <2>1. ToSet(u) \subseteq ToSet(s) \cup ToSet(t)
    BY <1>3 DEF ToSet
  <2>2. \A i \in DOMAIN s : s[i] \in ToSet(u)
    BY <1>1, <1>2 DEF ToSet
  <2>3. ASSUME NEW i \in DOMAIN t PROVE t[i] \in ToSet(u)
    <3>1. Len(s) + i \in DOMAIN u /\ u[Len(s) + i] = t[i]
      BY <1>1, <1>2
    <3> QED
      BY <3>1 DEF ToSet
  <2>4. ToSet(s) \subseteq ToSet(u) /\ ToSet(t) \subseteq ToSet(u)
    BY <2>2, <2>3 DEF ToSet
  <2> QED
    BY <2>1, <2>4
<1>5. ASSUME Ascending(s), Ascending(t), \A x \in ToSet(s), y \in ToSet(t) : x < y PROVE Ascending(u)
  <2> SUFFICES ASSUME NEW i \in DOMAIN u, NEW j \in DOMAIN u, i < j PROVE u[i] < u[j]
    BY DEF Ascending
  <2>1. i \in Nat /\ j \in Nat
    BY <1>1
  <2>2. CASE j \in DOMAIN s /\ u[j] = s[j]
    <3>1. i \in DOMAIN s /\ u[i] = s[i]
      BY <1>2, <1>3, <2>1, <2>2
    <3> QED
      BY <1>5, <2>2, <3>1 DEF Ascending
  <2>3. CASE j > Len(s) /\ j - Len(s) \in DOMAIN t /\ u[j] = t[j - Len(s)]
    <3>1. CASE i \in DOMAIN s /\ u[i] = s[i]
      <4>1. u[i] \in ToSet(s) /\ u[j] \in ToSet(t)
        BY <2>3, <3>1 DEF ToSet
      <4> QED
        BY <1>5, <4>1
    <3>2. CASE i > Len(s) /\ i - Len(s) \in DOMAIN t /\ u[i] = t[i - Len(s)]
      <4>1. i - Len(s) < j - Len(s)
        BY <1>2, <2>1
      <4> QED
        BY <1>5, <2>3, <3>2, <4>1 DEF Ascending
    <3> QED
      BY <1>3, <3>1, <3>2
  <2> QED
    BY <1>3, <2>2, <2>3
<1>6. ASSUME Distinct(s), Distinct(t), ToSet(s) \cap ToSet(t) = {} PROVE Distinct(u)
  <2> SUFFICES ASSUME NEW i \in DOMAIN u, NEW j \in DOMAIN u, u[i] = u[j] PROVE i = j
    BY DEF Distinct
  <2>1. i \in Nat /\ j \in Nat
    BY <1>1
  <2>2. ASSUME NEW k \in DOMAIN u
        PROVE  \/ k \in DOMAIN s /\ u[k] = s[k] /\ u[k] \in ToSet(s)
               \/ k > Len(s) /\ k - Len(s) \in DOMAIN t /\ u[k] = t[k - Len(s)] /\ u[k] \in ToSet(t)
    BY <1>3 DEF ToSet
  <2>3. CASE i \in DOMAIN s /\ u[i] = s[i] /\ u[i] \in ToSet(s)
    <3>1. j \in DOMAIN s /\ u[j] = s[j]
      BY <1>6, <2>2, <2>3
    <3> QED
      BY <1>6, <2>3, <3>1 DEF Distinct
  <2>4. CASE i > Len(s) /\ i - Len(s) \in DOMAIN t /\ u[i] = t[i - Len(s)] /\ u[i] \in ToSet(t)
    <3>1. j > Len(s) /\ j - Len(s) \in DOMAIN t /\ u[j] = t[j - Len(s)]
      BY <1>6, <2>2, <2>4
    <3>2. i - Len(s) = j - Len(s)
      BY <1>6, <2>4, <3>1 DEF Distinct
    <3> QED
      BY <1>2, <2>1, <3>2
  <2> QED
    BY <2>2, <2>3, <2>4
<1> QED
  BY <1>1, <1>4, <1>5, <1>6 DEF u

\* What is picked of a sequence, each place once.
LEMMA PickedOnce ==
    ASSUME NEW S, NEW s \in Seq(S), NEW P \in SUBSET DOMAIN s
    PROVE  /\ Picked(s, P) \in Seq(S) /\ Len(Picked(s, P)) = Cardinality(P) /\ Cardinality(P) \in 0..Len(s)
           /\ Distinct(s) => Distinct(Picked(s, P))
           /\ Cardinality(P) = Len(s) => Picked(s, P) = s
<1> DEFINE order == SortedBy(RowIds(P))
           c == Cardinality(P)
           t == Picked(s, P)
<1>1. Len(s) \in Nat /\ DOMAIN s = 1..Len(s) /\ IsFiniteSet(1..Len(s)) /\ Cardinality(1..Len(s)) = Len(s)
  <2>1. 1 \in Int /\ Len(s) \in Int /\ Len(s) \in Nat /\ DOMAIN s = 1..Len(s)
    OBVIOUS
  <2>2. IsFiniteSet(1..Len(s)) /\ Cardinality(1..Len(s)) = IF 1 > Len(s) THEN 0 ELSE Len(s) - 1 + 1
    BY <2>1, FS_Interval
  <2> QED
    BY <2>1, <2>2
<1>2. /\ IsFiniteSet(P) /\ c <= Len(s) /\ (c = Len(s) => P = 1..Len(s))
  BY <1>1, FS_Subset
<1>3. P \in SUBSET Nat
  BY <1>1
<1>4. /\ order \in Seq(P) /\ Len(order) = c /\ c \in Nat
      /\ \A i, j \in 1..c : i < j => RowIds(P)[order[i]] # RowIds(P)[order[j]]
  <2>1. Keyed(P, RowIds(P))
    BY <1>2, <1>3, RowIdsKeyed
  <2>2. /\ order \in Seq(P) /\ Len(order) = c /\ c \in Nat
        /\ \A i, j \in 1..c : i < j => LexLess(RowIds(P)[order[i]], RowIds(P)[order[j]])
    BY <2>1, SortedRows
  <2> HIDE DEF order, c
  <2>3. \A i \in 1..c : RowIds(P)[order[i]] \in Nat \X Nat
    BY <2>1, <2>2 DEF Keyed
  <2> QED
    BY <2>2, <2>3, LexOrder
<1>5. t = [n \in DOMAIN order |-> s[order[n]]]
  BY DEF Picked
<1> HIDE DEF t
<1>6. c = Len(s) => order = [i \in 1..c |-> i]
  <2> SUFFICES ASSUME c = Len(s) PROVE order = [i \in 1..c |-> i]
    OBVIOUS
  <2>1. P = 1..Len(s)
    BY <1>2
  <2>2. PICK n \in Nat : n = Len(s)
    BY <1>1
  <2>3. SortedBy(RowIds((0 + 1)..n)) = [i \in 1..(n - 0) |-> 0 + i]
    BY SortedInterval
  <2>4. (0 + 1)..n = P /\ n - 0 = n /\ c = n
    BY <2>1, <2>2
  <2>5. [i \in 1..n |-> 0 + i] = [i \in 1..n |-> i]
    OBVIOUS
  <2> HIDE DEF c
  <2> QED
    BY <2>3, <2>4, <2>5
<1> HIDE DEF order, c
<1>7. DOMAIN order = 1..c /\ \A i \in 1..c : order[i] \in P
  BY <1>4
<1>8. t \in [1..c -> S]
  BY <1>5, <1>7
<1>9. t \in Seq(S) /\ Len(t) = c
  BY <1>4, <1>8
<1>10. ASSUME Distinct(s) PROVE Distinct(t)
  <2> SUFFICES ASSUME NEW i \in 1..c, NEW j \in 1..c, t[i] = t[j] PROVE i = j
    BY <1>8 DEF Distinct
  <2>1. order[i] = order[j]
    BY <1>5, <1>7, <1>10 DEF Distinct
  <2> QED
    BY <1>4, <2>1
<1>11. ASSUME c = Len(s) PROVE t = s
  <2>1. \A i \in 1..c : t[i] = s[i]
    BY <1>5, <1>6, <1>11
  <2>2. s = [i \in 1..c |-> s[i]] /\ t = [i \in 1..c |-> t[i]]
    BY <1>8, <1>11
  <2> QED
    BY <2>1, <2>2
<1> QED
  BY <1>1, <1>2, <1>4, <1>9, <1>10, <1>11 DEF t, c

\* A page of DynamoDB that has another after it is full, and all that was evaluated was kept.
DynamoAnswer(page, S, rest, n, kept, key) ==
  /\ page.items \in Seq(S) /\ Distinct(page.items) /\ page.token \in Nat \X Nat
  /\ page.token # NoToken =>
       /\ Len(rest) > n /\ page.token = key[rest[n + 1]]
       /\ Len(page.items) = n /\ \A i \in 1..n : page.items[i] = rest[i]
  /\ ToSet(rest) \subseteq kept /\ Len(rest) <= n => ToSet(page.items) = ToSet(rest)
  /\ ToSet(rest) \subseteq kept /\ Len(rest) > n => page.token = key[rest[n + 1]]
LEMMA DynamoPages ==
    ASSUME NEW S, NEW rest \in Seq(S), Distinct(rest), NEW n \in Nat \ {0}, NEW kept, NEW key, DOMAIN key = S,
           \A x \in S : key[x] \in Nat \X Nat
    PROVE  DynamoAnswer(DynamoPage(rest, n, kept, key), S, rest, n, kept, key)
<1> DEFINE evaluated == Take(rest, n + 1)
           P == {i \in DOMAIN evaluated : evaluated[i] \in kept}
           items == Picked(evaluated, P)
           first == Take(items, n)
           token == IF Len(items) > n THEN key[rest[n + 1]] ELSE NoToken
           page == DynamoPage(rest, n, kept, key)
<1>1. page = [items |-> first, token |-> token]
  BY DEF DynamoPage
<1>2. page.items = first /\ page.token = token
  BY <1>1
<1> HIDE DEF page
<1>3. /\ evaluated \in Seq(S) /\ Len(evaluated) = (IF n + 1 < Len(rest) THEN n + 1 ELSE Len(rest))
      /\ \A i \in 1..Len(evaluated) : evaluated[i] = rest[i] /\ i \in DOMAIN rest
      /\ Distinct(evaluated) /\ Len(rest) \in Nat
      /\ Len(rest) <= n + 1 => ToSet(evaluated) = ToSet(rest)
  <2> HIDE DEF P, items, first, token
  <2>1. n + 1 \in Nat
    OBVIOUS
  <2> DEFINE k == n + 1
  <2>2. k \in Nat
    BY <2>1
  <2>3. evaluated = Take(rest, k)
    OBVIOUS
  <2> HIDE DEF k, evaluated
  <2>4. /\ evaluated \in Seq(S) /\ Len(evaluated) = (IF k < Len(rest) THEN k ELSE Len(rest))
        /\ \A i \in 1..Len(evaluated) : evaluated[i] = rest[i] /\ i \in DOMAIN rest
        /\ Distinct(evaluated)
        /\ Len(rest) <= k => ToSet(evaluated) = ToSet(rest)
    BY <2>2, <2>3, Taken
  <2>5. Len(rest) \in Nat
    OBVIOUS
  <2> QED
    BY <2>4, <2>5 DEF k
<1> HIDE DEF evaluated
<1>4. P \in SUBSET DOMAIN evaluated
  OBVIOUS
<1>5. P = DOMAIN evaluated <=> \A i \in DOMAIN evaluated : evaluated[i] \in kept
  OBVIOUS
<1> HIDE DEF P
<1>6. /\ items \in Seq(S) /\ Len(items) = Cardinality(P) /\ Cardinality(P) \in 0..Len(evaluated) /\ Distinct(items)
      /\ Cardinality(P) = Len(evaluated) => items = evaluated
  BY <1>3, <1>4, PickedOnce
<1> HIDE DEF items
<1>7. /\ first \in Seq(S) /\ Len(first) = (IF n < Len(items) THEN n ELSE Len(items)) /\ Distinct(first)
      /\ \A i \in 1..Len(first) : first[i] = items[i]
      /\ Len(items) <= n => ToSet(first) = ToSet(items)
  BY <1>6, Taken
<1> HIDE DEF first
<1>8. Len(items) > n => Len(evaluated) = n + 1 /\ items = evaluated /\ Len(rest) > n
  <2>1. Len(evaluated) <= n + 1 /\ Len(evaluated) \in Nat /\ (Len(evaluated) = n + 1 => Len(rest) > n)
    BY <1>3
  <2>2. Len(items) \in Nat /\ Len(items) <= Len(evaluated) /\ (Len(items) = Len(evaluated) => items = evaluated)
    BY <1>6, <2>1
  <2> QED
    BY <2>1, <2>2
<1>9. \A i \in 1..Len(rest) : rest[i] \in S
  OBVIOUS
<1>10. Len(items) > n => key[rest[n + 1]] \in Nat \X Nat
  BY <1>8, <1>9
<1>11. token \in Nat \X Nat
  BY <1>10 DEF NoToken
<1>12. ASSUME token # NoToken
       PROVE  /\ Len(rest) > n /\ token = key[rest[n + 1]]
              /\ Len(first) = n /\ \A i \in 1..n : first[i] = rest[i]
  <2>1. Len(items) > n /\ token = key[rest[n + 1]]
    BY <1>12
  <2> HIDE DEF token
  <2>2. Len(items) = n + 1 /\ items = evaluated /\ Len(rest) > n /\ Len(evaluated) = n + 1
    BY <1>8, <2>1
  <2>3. Len(first) = n
    BY <1>7, <2>2
  <2>4. \A i \in 1..n : first[i] = evaluated[i] /\ evaluated[i] = rest[i]
    <3>1. \A i \in 1..n : first[i] = items[i]
      BY <1>7, <2>3
    <3>2. \A i \in 1..(n + 1) : evaluated[i] = rest[i]
      BY <1>3, <2>2
    <3> QED
      BY <2>2, <3>1, <3>2
  <2> QED
    BY <2>1, <2>2, <2>3, <2>4
<1>13. ASSUME ToSet(rest) \subseteq kept PROVE Len(items) = Len(evaluated) /\ items = evaluated
  <2>1. DOMAIN evaluated = 1..Len(evaluated)
    BY <1>3
  <2>6. \A i \in DOMAIN evaluated : evaluated[i] \in ToSet(rest)
    BY <1>3, <2>1 DEF ToSet
  <2>2. P = 1..Len(evaluated)
    BY <1>5, <1>13, <2>1, <2>6
  <2>3. PICK m \in Nat : m = Len(evaluated)
    BY <1>3
  <2>4. 1 \in Int /\ m \in Int
    OBVIOUS
  <2>5. Cardinality(1..m) = IF 1 > m THEN 0 ELSE m - 1 + 1
    BY <2>4, FS_Interval
  <2> QED
    BY <1>6, <2>2, <2>3, <2>5
<1>14. ToSet(rest) \subseteq kept /\ Len(rest) <= n => ToSet(first) = ToSet(rest)
  BY <1>3, <1>7, <1>13
<1>15. ToSet(rest) \subseteq kept /\ Len(rest) > n => token = key[rest[n + 1]]
  BY <1>3, <1>13
<1> QED
  BY <1>2, <1>7, <1>11, <1>12, <1>14, <1>15 DEF page, DynamoAnswer

--------------------------------------------------------------------------------
\* Where a listing is: the inductive invariant.
Versions == UNION {{k} \X DOMAIN states[k] : k \in Learners}
LogOf(kind) == IF kind = "decisions" THEN decisions ELSE signals

TablesSound ==
  /\ TablesTypeOK
  /\ InTimeOrder(signals) /\ InTimeOrder(decisions)
  /\ \A i \in DOMAIN signals : signals[i].at <= now
  /\ \A i \in DOMAIN decisions : decisions[i].at <= now
  /\ \A k \in Learners : \A v \in DOMAIN states[k] : states[k][v] <= now
  /\ \A r \in Requests : request[r].stage = "deciding" => received[request[r].signal] # 0
  /\ IsFiniteSet(Versions)

ListingRows ==
  [status : {"more", "ended", "refused"}, kind : Kinds, learner : Learners, size : PageSizes,
   outcome : Outcomes \cup {"any"}, to : Nat, until : Times, token : Nat \X Nat, seen : Seq(Nat),
   before : SUBSET Nat, pages : Nat]

\* Where the next page begins: what lies before it.
PassedLearner(l, k) == l.token # NoToken /\ ~LexLess(<<MaxTime - l.token[1], l.token[2]>>, RosterKey(k))
PassedOutcome(l, i) == l.token # NoToken /\ ~LexLess(OutcomeKey(i), l.token)
KeysOf(S) == {OutcomeKey(i) : i \in S}

\* Signals and decisions of the server: the rows up to the cursor, in their order.
RowsRead(l) ==
  /\ Ascending(l.seen) /\ ToSet(l.seen) \subseteq RowsOf(l) /\ l.before \subseteq RowsOf(l)
  /\ l.status = "more" =>
       /\ l.token[2] = 0 /\ l.token[1] \in 0..Len(LogOf(l.kind))
       /\ ToSet(l.seen) = {i \in RowsOf(l) : i <= l.token[1]}
  /\ l.status = "ended" => l.before \subseteq ToSet(l.seen)
  /\ l.status # "refused"

VersionsRead(l) ==
  /\ l.seen = [i \in 1..Len(l.seen) |-> i]
  /\ l.before \subseteq DOMAIN states[l.learner]
  /\ l.status = "more" => l.token = <<Len(l.seen), 0>>
  /\ l.status = "ended" => \A v \in l.before : l.to = 0 \/ v <= l.to => v \in ToSet(l.seen)

\* The log of the server, as long as its entries are in the order of their times.
EntriesRead(l) ==
  /\ l.status # "refused" /\ ToSet(l.seen) \cup l.before \subseteq RowsOf(l)
  /\ l.status = "more" => l.token[2] = 0 /\ l.token[1] \in 0..Len(outcomes)
  /\ InTimeOrder(outcomes) =>
       /\ Distinct(l.seen)
       /\ l.status = "more" =>
            /\ l.token # NoToken \/ l.seen = <<>>
            /\ \A i \in DOMAIN l.seen : l.seen[i] >= l.token[1]
            /\ \A i \in l.before : l.token # NoToken /\ i >= l.token[1] => i \in ToSet(l.seen)
       /\ l.status = "ended" => l.before \subseteq ToSet(l.seen)

LearnersRead(l) ==
  /\ Distinct(l.seen) /\ ToSet(l.seen) \cup l.before \subseteq RowsOf(l) /\ l.status # "refused" /\ l.until <= now
  /\ l.status = "more" =>
       /\ l.token[1] <= MaxTime
       /\ \A k \in ToSet(l.seen) : PassedLearner(l, k)
       /\ \A k \in l.before \ ToSet(l.seen) : ~PassedLearner(l, k) \/ UpdatedAt(k) >= l.until
  /\ l.status = "ended" => \A k \in l.before \ ToSet(l.seen) : UpdatedAt(k) >= l.until

OneRead(l) == Distinct(l.seen) /\ (l.status = "more" /\ l.token = NoToken => l.seen = <<>>)

KeysRead(l) ==
  /\ Distinct(l.seen) /\ l.status # "refused" /\ ToSet(l.seen) \cup l.before \subseteq DOMAIN outcomes
  /\ l.status = "more" => \A i \in ToSet(l.seen) : PassedOutcome(l, i)
  /\ l.outcome = "any" =>
       /\ IsFiniteSet(KeysOf(l.before))
       /\ l.status = "more" =>
            Cardinality(KeysOf({i \in l.before : PassedOutcome(l, i)}) \ KeysOf(ToSet(l.seen))) <= l.pages
       /\ l.status = "ended" => Cardinality(KeysOf(l.before) \ KeysOf(ToSet(l.seen))) < l.pages

PagesFollow(l) ==
  CASE l.kind = "trajectory" -> VersionsRead(l)
    [] l.kind \in {"signals", "decisions"} -> IF store = "sqlite" THEN RowsRead(l) ELSE OneRead(l)
    [] l.kind = "ingestion" -> IF store = "sqlite" THEN EntriesRead(l) ELSE KeysRead(l)
    [] l.kind = "roster" -> store = "sqlite" => LearnersRead(l)

ListingInv == TablesSound /\ (listing = NoListing \/ (listing \in ListingRows /\ PagesFollow(listing)))

--------------------------------------------------------------------------------
\* One page after another.
LEMMA Wider ==
    ASSUME NEW S, NEW T, S \subseteq T, NEW s \in Seq(S)
    PROVE  s \in Seq(T)
<1>1. s \in [1..Len(s) -> S] /\ Len(s) \in Nat
  OBVIOUS
<1>2. s \in [1..Len(s) -> T]
  BY <1>1
<1> QED
  BY <1>1, <1>2

\* A page of SQLite, and one that goes on from what was seen in the order of the numbers.
LEMMA SqlitePages ==
    ASSUME NEW K, NEW rows \in Seq(K), ToSet(rows) = K, NEW n \in Nat \ {0}, NEW cursor,
           \A x \in K : cursor[x] \in Nat \X Nat /\ cursor[x] # NoToken
    PROVE  LET page == SqlitePage(rows, n, cursor) IN
           /\ page.items = Take(rows, n) /\ page.token \in Nat \X Nat
           /\ page.token = NoToken <=> Len(rows) <= n
           /\ page.token # NoToken => Len(rows) > n /\ rows[n] \in K /\ n \in DOMAIN rows /\ page.token = cursor[rows[n]]
<1> DEFINE page == SqlitePage(rows, n, cursor)
<1>1. page.items = Take(rows, n) /\ page.token = IF Len(rows) > n THEN cursor[rows[n]] ELSE NoToken
  BY DEF SqlitePage
<1>2. Len(rows) \in Nat /\ (Len(rows) > n => n \in DOMAIN rows /\ rows[n] \in K)
  OBVIOUS
<1>3. NoToken \in Nat \X Nat
  BY DEF NoToken
<1> HIDE DEF page
<1> QED
  BY <1>1, <1>2, <1>3 DEF page

UpTo(s, R, t) == ToSet(s) = {i \in R : i <= t}
After(s, R, t) == ToSet(s) = {i \in R : i > t}
GoesOn(all, R, t, rows, n) ==
  /\ all \in Seq(Nat) /\ Ascending(all) /\ ToSet(all) \subseteq R
  /\ Len(rows) <= n => ToSet(all) = R
  /\ Len(rows) > n => rows[n] \in R /\ rows[n] > t /\ UpTo(all, R, rows[n])
LEMMA AscendingPage ==
    ASSUME NEW R \in SUBSET Nat, NEW seen \in Seq(Nat), Ascending(seen), NEW t \in Nat, UpTo(seen, R, t),
           NEW rows \in Seq(Nat), After(rows, R, t), Ascending(rows), NEW n \in Nat \ {0},
           NEW all, all = seen \o Take(rows, n)
    PROVE  GoesOn(all, R, t, rows, n)
<1> DEFINE p == Take(rows, n)
<1>1. /\ p \in Seq(Nat) /\ Ascending(p) /\ ToSet(p) \subseteq ToSet(rows)
      /\ Len(p) = IF n < Len(rows) THEN n ELSE Len(rows)
      /\ \A i \in 1..Len(p) : p[i] = rows[i]
      /\ Len(rows) <= n => ToSet(p) = ToSet(rows)
      /\ \A x \in ToSet(rows) \ ToSet(p) : \E i \in DOMAIN rows : i > n /\ x = rows[i]
  BY Taken
<1> DEFINE A == ToSet(seen)
           B == ToSet(rows)
           C == ToSet(p)
<1>0. /\ A \subseteq R /\ B \subseteq R /\ C \subseteq B
      /\ \A x \in R : x \in Nat
      /\ \A x \in A : x <= t
      /\ \A x \in B : x > t
      /\ \A x \in R : x \in A \/ x \in B
  BY <1>1 DEF UpTo, After
<1> HIDE DEF p, A, B, C
<1>2. \A x \in A, y \in C : x < y
  BY <1>0
<1>3. all \in Seq(Nat) /\ Ascending(all) /\ ToSet(all) = ToSet(seen) \cup ToSet(p)
  BY <1>1, <1>2, Joined DEF A, C, p
<1>4. Len(rows) <= n => ToSet(all) = R
  BY <1>0, <1>1, <1>3 DEF A, B, C
<1>5. ASSUME Len(rows) > n PROVE rows[n] \in R /\ rows[n] > t /\ UpTo(all, R, rows[n])
  <2>1. n \in DOMAIN rows /\ rows[n] \in ToSet(rows)
    BY <1>5 DEF ToSet
  <2>2. ASSUME NEW x \in ToSet(p) PROVE x <= rows[n]
    <3>1. PICK i \in 1..Len(p) : x = p[i]
      BY <1>1 DEF ToSet
    <3>2. i \in DOMAIN rows /\ i <= n /\ x = rows[i]
      BY <1>1, <1>5, <3>1
    <3>3. i = n \/ rows[i] < rows[n]
      BY <2>1, <3>2 DEF Ascending
    <3> QED
      BY <2>1, <3>2, <3>3
  <2>3. ASSUME NEW x \in ToSet(rows), x \notin ToSet(p) PROVE x > rows[n]
    <3>1. PICK i \in DOMAIN rows : i > n /\ x = rows[i]
      BY <1>1, <2>3
    <3> QED
      BY <2>1, <3>1 DEF Ascending
  <2>4. rows[n] \in R /\ rows[n] > t
    BY <1>0, <2>1 DEF B
  <2>7. PICK m \in Nat : m = rows[n] /\ m \in R /\ m > t
    BY <2>4
  <2>5. ASSUME NEW x \in R, x <= rows[n] PROVE x \in ToSet(all)
    <3>2. x \in A \/ x \in B
      BY <1>0
    <3>3. x \in B => x \in C
      <4>1. x \in Nat /\ x <= m
        BY <2>5, <2>7
      <4>2. x \in B /\ x \notin C => x > m
        BY <2>3, <2>7 DEF B, C
      <4> QED
        BY <2>7, <4>1, <4>2
    <3> QED
      BY <1>3, <3>2, <3>3 DEF A, B, C
  <2>6. ASSUME NEW x \in ToSet(all) PROVE x \in R /\ x <= rows[n]
    <3>1. x \in A \/ x \in C
      BY <1>3 DEF A, C
    <3>2. x \in A => x \in R /\ x <= rows[n]
      BY <1>0, <2>7
    <3>3. x \in C => x \in R /\ x <= rows[n]
      BY <1>0, <2>2 DEF C
    <3> QED
      BY <3>1, <3>2, <3>3
  <2> QED
    BY <2>4, <2>5, <2>6 DEF UpTo
<1>6. ToSet(all) \subseteq R
  BY <1>0, <1>3 DEF A, C
<1> QED
  BY <1>3, <1>4, <1>5, <1>6 DEF p, GoesOn

--------------------------------------------------------------------------------
\* What an answer makes of a listing.
AfterAnswer(l) ==
  IF Refused(l) THEN [l EXCEPT !.status = "refused"]
  ELSE LET page == PageOf(l) IN
       [l EXCEPT !.seen = @ \o page.items, !.token = page.token, !.pages = @ + 1,
                 !.status = IF page.token = NoToken THEN "ended" ELSE "more"]
SameRequest(l, m) ==
  /\ m.kind = l.kind /\ m.learner = l.learner /\ m.size = l.size /\ m.outcome = l.outcome /\ m.to = l.to
  /\ m.until = l.until /\ m.before = l.before

LEMMA AfterAnswerFields ==
    ASSUME NEW l \in ListingRows, ~Refused(l), PageOf(l).items \in Seq(Nat), PageOf(l).token \in Nat \X Nat
    PROVE  LET m == AfterAnswer(l) IN
           /\ m \in ListingRows /\ SameRequest(l, m) /\ m.seen = l.seen \o PageOf(l).items
           /\ m.token = PageOf(l).token /\ m.pages = l.pages + 1
           /\ m.status = IF PageOf(l).token = NoToken THEN "ended" ELSE "more"
<1> DEFINE items == PageOf(l).items
           token == PageOf(l).token
           status == IF token = NoToken THEN "ended" ELSE "more"
           m == AfterAnswer(l)
<1>1. m = [l EXCEPT !.seen = l.seen \o items, !.token = token, !.pages = l.pages + 1, !.status = status]
  BY DEF AfterAnswer
<1>2. l.seen \o items \in Seq(Nat) /\ l.pages + 1 \in Nat /\ token \in Nat \X Nat
  <2>1. l.seen \in Seq(Nat) /\ l.pages \in Nat
    BY DEF ListingRows
  <2> QED
    BY <2>1, Joined
<1>3. status \in {"more", "ended", "refused"}
  OBVIOUS
<1> HIDE DEF items, token, status, m
<1>4. m \in ListingRows
  BY <1>1, <1>2, <1>3 DEF ListingRows
<1>5. /\ m.seen = l.seen \o items /\ m.token = token /\ m.pages = l.pages + 1 /\ m.status = status
      /\ SameRequest(l, m)
  BY <1>1 DEF ListingRows, SameRequest
<1> QED
  BY <1>4, <1>5 DEF items, token, status, m

\* The rows of a listing are numbers, and finitely many.
LEMMA LogFinite ==
    ASSUME NEW S, NEW s \in Seq(S), NEW R \in SUBSET DOMAIN s
    PROVE  R \in SUBSET Nat /\ IsFiniteSet(R) /\ R \subseteq 1..Len(s) /\ Len(s) \in Nat
<1>1. 1 \in Int /\ Len(s) \in Int /\ Len(s) \in Nat /\ DOMAIN s = 1..Len(s)
  OBVIOUS
<1>2. IsFiniteSet(1..Len(s))
  BY <1>1, FS_Interval
<1>3. IsFiniteSet(R)
  BY <1>1, <1>2, FS_Subset
<1> QED
  BY <1>1, <1>3

LEMMA DatedKeyed ==
    ASSUME NEW K \in SUBSET Nat, IsFiniteSet(K), NEW log, \A i \in K : log[i].at \in Nat
    PROVE  /\ Keyed(K, Dated(K, log))
           /\ \A i \in K : Dated(K, log)[i] = <<log[i].at, i>> /\ (i # 0 => Dated(K, log)[i] # NoToken)
           /\ (\A i, j \in K : i < j => log[i].at <= log[j].at) =>
                \A i, j \in K : i < j => LexLess(Dated(K, log)[i], Dated(K, log)[j])
BY DEF Keyed, Dated, LexLess, NoToken

LEMMA RosterFinite ==
    ASSUME TablesSound
    PROVE  LET R == {k \in Learners : states[k] # <<>>} IN
           R \in SUBSET Nat /\ IsFiniteSet(R) /\ \A k \in R : UpdatedAt(k) \in Times /\ UpdatedAt(k) <= now
<1> DEFINE R == {k \in Learners : states[k] # <<>>}
           T == {w[1] : w \in Versions}
           f == [w \in Versions |-> w[1]]
<1>1. IsFiniteSet(Versions) /\ states \in [Learners -> Seq(Times)]
  BY DEF TablesSound, TablesTypeOK
<1>2. f \in Surjection(Versions, T)
  BY DEF Surjection
<1>3. IsFiniteSet(T)
  <2> HIDE DEF f, T
  <2> QED
    BY <1>1, <1>2, FS_Surjection
<1>4. ASSUME NEW k \in R PROVE k \in T
  <2>1. 1 \in DOMAIN states[k]
    BY <1>1
  <2>2. <<k, 1>> \in Versions
    BY <2>1 DEF Versions
  <2>3. <<k, 1>>[1] = k
    OBVIOUS
  <2> QED
    BY <2>2, <2>3
<1>5. ASSUME NEW k \in R PROVE UpdatedAt(k) \in Times /\ UpdatedAt(k) <= now
  <2>1. PICK s \in Seq(Times) : s = states[k]
    BY <1>1
  <2>2. Len(s) \in DOMAIN s
    BY <2>1
  <2>3. s[Len(s)] \in Times /\ s[Len(s)] <= now
    BY <2>1, <2>2 DEF TablesSound
  <2> QED
    BY <2>1, <2>3 DEF UpdatedAt
<1> HIDE DEF T
<1>6. R \subseteq T
  BY <1>4
<1>7. IsFiniteSet(R)
  BY <1>3, <1>6, FS_Subset
<1>8. R \in SUBSET Nat
  BY TablesAssumption
<1> QED
  BY <1>5, <1>7, <1>8

LEMMA SameRows ==
    ASSUME NEW l, NEW m, SameRequest(l, m)
    PROVE  RowsOf(m) = RowsOf(l)
BY DEF RowsOf, SameRequest

\* The next page of the server's signals or decisions: the rows after the cursor, in the order of their
\* numbers because that is the order of their times.
LEMMA RowsPage ==
    ASSUME TablesSound, NEW l \in ListingRows, l.status = "more", l.kind \in {"signals", "decisions"}, store = "sqlite",
           RowsRead(l)
    PROVE  AfterAnswer(l) \in ListingRows /\ SameRequest(l, AfterAnswer(l)) /\ RowsRead(AfterAnswer(l))
<1> DEFINE log == LogOf(l.kind)
           R == RowsOf(l)
           t == l.token[1]
           n == l.size
           later == {i \in R : i > t}
           key == Dated(later, log)
           rows == SortedBy(key)
           m == AfterAnswer(l)
           page == PageOf(l)
<1>1. log \in Seq(Row) /\ InTimeOrder(log) /\ R \in SUBSET DOMAIN log
  BY DEF LogOf, RowsOf, TablesSound, TablesTypeOK
<1>2. page = SqlitePage(rows, n, RowIds(later)) /\ ~Refused(l)
  BY DEF PageOf, SqliteSignals, SqliteDecisions, LogOf, Refused, TokenForm
<1>3. n \in Nat \ {0} /\ t \in Nat /\ l.seen \in Seq(Nat) /\ l.token \in Nat \X Nat
  BY ListingsAssumption DEF ListingRows
<1>4. /\ Ascending(l.seen) /\ ToSet(l.seen) \subseteq R /\ l.before \subseteq R
      /\ l.token[2] = 0 /\ t \in 0..Len(log)
      /\ ToSet(l.seen) = {i \in R : i <= t}
  BY DEF RowsRead
<1>5. m.kind = l.kind => LogOf(m.kind) = log
  OBVIOUS
<1> HIDE DEF log, R, t, n, m, page
<1>6. R \in SUBSET Nat /\ IsFiniteSet(R) /\ R \subseteq 1..Len(log) /\ Len(log) \in Nat
  BY <1>1, LogFinite
<1>7. later \in SUBSET Nat /\ later \subseteq R /\ IsFiniteSet(later)
  BY <1>6, FS_Subset
<1>8. \A i \in R : i \in DOMAIN log /\ log[i] \in Row /\ log[i].at \in Nat
  <2>1. \A i \in R : i \in DOMAIN log /\ log[i] \in Row
    BY <1>1
  <2> QED
    BY <2>1 DEF Row, Times
<1>9. \A i, j \in later : i < j => log[i].at <= log[j].at
  BY <1>1, <1>7, <1>8 DEF InTimeOrder
<1>10. \A i \in later : i # 0 /\ i > t
  BY <1>3
<1> HIDE DEF later
<1>11. Keyed(later, key) /\ \A i, j \in later : i < j => LexLess(key[i], key[j])
  <2>1. \A i \in later : log[i].at \in Nat
    BY <1>7, <1>8
  <2> QED
    BY <1>7, <1>9, <2>1, DatedKeyed
<1> HIDE DEF key
<1>12. rows \in Seq(later) /\ ToSet(rows) = later /\ Ascending(rows)
  BY <1>7, <1>11, SortedRows, SortedNumbers
<1> HIDE DEF rows
<1>13. rows \in Seq(Nat)
  BY <1>7, <1>12, Wider
<1>14. \A x \in later : RowIds(later)[x] = <<x, 0>> /\ RowIds(later)[x] \in Nat \X Nat /\ RowIds(later)[x] # NoToken
  BY <1>7, <1>10 DEF RowIds, NoToken
<1>15. /\ page.items = Take(rows, n) /\ page.token \in Nat \X Nat
       /\ page.token = NoToken <=> Len(rows) <= n
       /\ page.token # NoToken =>
            Len(rows) > n /\ rows[n] \in later /\ n \in DOMAIN rows /\ page.token = RowIds(later)[rows[n]]
  BY <1>2, <1>3, <1>12, <1>14, SqlitePages
<1> DEFINE all == l.seen \o Take(rows, n)
<1>16. /\ all \in Seq(Nat) /\ Ascending(all) /\ ToSet(all) \subseteq R
       /\ Len(rows) <= n => ToSet(all) = R
       /\ Len(rows) > n => rows[n] \in R /\ rows[n] > t /\ UpTo(all, R, rows[n])
  <2>1. After(rows, R, t)
    BY <1>12 DEF later, After
  <2>2. PICK seen \in Seq(Nat) : seen = l.seen
    BY <1>3
  <2>3. UpTo(seen, R, t) /\ Ascending(seen) /\ all = seen \o Take(rows, n)
    BY <1>4, <2>2 DEF UpTo
  <2> HIDE DEF all
  <2>4. GoesOn(all, R, t, rows, n)
    BY <1>3, <1>6, <1>12, <1>13, <2>1, <2>3, AscendingPage
  <2> QED
    BY <2>4 DEF GoesOn
<1>17. /\ m \in ListingRows /\ SameRequest(l, m) /\ m.seen = all /\ m.token = page.token
       /\ m.status = IF page.token = NoToken THEN "ended" ELSE "more"
  <2>1. page.items \in Seq(Nat)
    BY <1>3, <1>13, <1>15, Taken
  <2>2. ~Refused(l) /\ page.items \in Seq(Nat) /\ page.token \in Nat \X Nat
    BY <1>2, <1>15, <2>1
  <2> QED
    BY <1>15, <2>2, AfterAnswerFields DEF page, m
<1>18. RowsOf(m) = R /\ LogOf(m.kind) = log /\ m.before = l.before
  BY <1>5, <1>17, SameRows DEF R, SameRequest
<1> HIDE DEF all
<1>19. RowsRead(m)
  <2>1. CASE page.token = NoToken
    <3>1. m.status = "ended" /\ ToSet(m.seen) = R
      BY <1>15, <1>16, <1>17, <2>1
    <3> QED
      BY <1>4, <1>16, <1>17, <1>18, <3>1 DEF RowsRead
  <2>2. CASE page.token # NoToken
    <3>1. m.status = "more" /\ m.token = <<rows[n], 0>> /\ rows[n] \in R /\ ToSet(m.seen) = {i \in R : i <= rows[n]}
      BY <1>14, <1>15, <1>16, <1>17, <2>2 DEF UpTo
    <3>2. PICK x \in 1..Len(log) : x = rows[n]
      BY <1>6, <3>1
    <3>3. m.token[1] = x /\ m.token[2] = 0 /\ x \in 0..Len(log) /\ ToSet(m.seen) = {i \in R : i <= x}
      BY <1>6, <3>1, <3>2
    <3> QED
      BY <1>4, <1>16, <1>17, <1>18, <3>1, <3>3 DEF RowsRead
  <2> QED
    BY <2>1, <2>2
<1> QED
  BY <1>17, <1>19 DEF m

\* The next page of a trajectory begins with the version after the last one shown.
LEMMA VersionsPage ==
    ASSUME TablesSound, NEW l \in ListingRows, l.status = "more", l.kind = "trajectory", VersionsRead(l)
    PROVE  AfterAnswer(l) \in ListingRows /\ SameRequest(l, AfterAnswer(l)) /\ VersionsRead(AfterAnswer(l))
<1> DEFINE L == Len(states[l.learner])
           to == ToVersion(l)
           t == Len(l.seen)
           n == l.size
           b == IF to < L THEN to ELSE L
           c == IF b < t THEN t ELSE b
           m == AfterAnswer(l)
           page == PageOf(l)
<1>1. /\ l.learner \in Learners /\ n \in Nat \ {0} /\ l.seen \in Seq(Nat) /\ t \in Nat /\ l.to \in Nat
      /\ l.token = <<t, 0>> /\ l.seen = [i \in 1..t |-> i] /\ l.before \subseteq DOMAIN states[l.learner]
  <2>1. l.learner \in Learners /\ n \in Nat \ {0} /\ l.seen \in Seq(Nat) /\ l.to \in Nat
    BY ListingsAssumption DEF ListingRows
  <2>2. t \in Nat
    BY <2>1
  <2>3. l.token = <<t, 0>> /\ l.seen = [i \in 1..t |-> i] /\ l.before \subseteq DOMAIN states[l.learner]
    BY DEF VersionsRead
  <2> QED
    BY <2>1, <2>2, <2>3
<1>2. L \in Nat /\ DOMAIN states[l.learner] = 1..L
  <2>1. states[l.learner] \in Seq(Times)
    BY <1>1 DEF TablesSound, TablesTypeOK
  <2> QED
    BY <2>1
<1>3. to = (IF l.to = 0 THEN L ELSE l.to) /\ to \in Nat
  BY <1>1, <1>2 DEF ToVersion
<1>4. RowsOf(l) = 1..L
  BY <1>2 DEF RowsOf
<1>5. l.token[1] = t
  BY <1>1
<1>6. CASE Refused(l)
  <2>1. m = [l EXCEPT !.status = "refused"]
    BY <1>6 DEF AfterAnswer
  <2> HIDE DEF m
  <2>2. m \in ListingRows /\ SameRequest(l, m) /\ m.seen = l.seen /\ m.status = "refused"
    BY <2>1 DEF ListingRows, SameRequest
  <2>3. VersionsRead(m)
    BY <1>1, <2>2 DEF VersionsRead, SameRequest
  <2> QED
    BY <2>2, <2>3 DEF m
<1>7. CASE ~Refused(l)
  <2> DEFINE rows == [i \in 1..(c - t) |-> t + i]
             items == Take(rows, n)
             token == IF Len(items) = n /\ items[n] < to THEN <<items[n], 0>> ELSE NoToken
  <2>1. c \in Nat /\ t <= c /\ {v \in RowsOf(l) : v <= to /\ v > l.token[1]} = (t + 1)..c
    BY <1>1, <1>2, <1>3, <1>4, <1>5
  <2>2. SortedBy(RowIds({v \in RowsOf(l) : v <= to /\ v > l.token[1]})) = rows
    <3> HIDE DEF c, t
    <3> QED
      BY <1>1, <2>1, SortedInterval
  <2>3. page = [items |-> items, token |-> token]
    BY <2>2 DEF PageOf, Trajectory
  <2> HIDE DEF page
  <2>4. page.items = items /\ page.token = token
    BY <2>3
  <2> HIDE DEF token
  <2>5. rows \in Seq(Nat) /\ Len(rows) = c - t /\ \A i \in 1..(c - t) : rows[i] = t + i
    <3>1. rows \in [1..(c - t) -> Nat] /\ c - t \in Nat
      BY <1>1, <2>1
    <3> HIDE DEF c, t
    <3> QED
      BY <3>1
  <2> HIDE DEF rows
  <2>6. /\ items \in Seq(Nat) /\ Len(items) = (IF n < c - t THEN n ELSE c - t)
        /\ \A i \in 1..Len(items) : items[i] = rows[i]
    <3> HIDE DEF n
    <3> QED
      BY <1>1, <2>5, Taken
  <2> HIDE DEF items
  <2>7. Len(items) \in Nat /\ \A i \in 1..Len(items) : items[i] = t + i
    BY <2>1, <2>5, <2>6, <1>1
  <2> DEFINE all == l.seen \o items
             k == t + Len(items)
  <2>8. all = [i \in 1..k |-> i] /\ Len(all) = k /\ ToSet(all) = 1..k
    <3>1. /\ all \in Seq(Nat) /\ Len(all) = k
          /\ \A i \in 1..t : all[i] = l.seen[i]
          /\ \A i \in 1..Len(items) : all[t + i] = items[i]
      BY <1>1, <2>6, Joined
    <3> HIDE DEF all, t
    <3>2. ASSUME NEW i \in 1..k PROVE all[i] = i
      <4>1. CASE i <= t
        BY <1>1, <3>1, <4>1
      <4>2. CASE i > t
        <5>1. PICK j \in 1..Len(items) : i = t + j
          <6>1. i - t \in 1..Len(items) /\ i = t + (i - t)
            BY <1>1, <2>7, <4>2
          <6> QED
            BY <6>1
        <5> QED
          BY <2>7, <3>1, <5>1
      <4> QED
        BY <1>1, <4>1, <4>2
    <3>3. all = [i \in 1..k |-> all[i]] /\ DOMAIN all = 1..k
      BY <3>1
    <3>4. all = [i \in 1..k |-> i]
      BY <3>2, <3>3
    <3>5. ToSet(all) = 1..k
      BY <3>2, <3>3 DEF ToSet
    <3> QED
      BY <3>1, <3>4, <3>5
  <2>9. token \in Nat \X Nat /\ (token # NoToken => Len(items) = n /\ t + n < to /\ token = <<k, 0>>)
        /\ (token = NoToken => Len(items) < n \/ t + n >= to)
    <3>1. Len(items) = n => items[n] = t + n
      <4> HIDE DEF n
      <4>1. Len(items) = n => n \in 1..Len(items)
        BY <1>1
      <4> QED
        BY <2>7, <4>1
    <3>2. Len(items) = n /\ t + n < to => <<t + n, 0>> # NoToken
      BY <1>1 DEF NoToken
    <3> QED
      BY <1>1, <1>3, <2>6, <2>7, <3>1, <3>2 DEF token, NoToken
  <2>10. /\ m \in ListingRows /\ SameRequest(l, m) /\ m.seen = all /\ m.token = token
         /\ m.status = IF token = NoToken THEN "ended" ELSE "more"
    <3>1. page.items \in Seq(Nat) /\ page.token \in Nat \X Nat
      BY <2>4, <2>6, <2>9
    <3> QED
      BY <1>7, <2>4, <3>1, AfterAnswerFields DEF page, m
  <2>11. VersionsRead(m)
    <3>1. m.seen = [i \in 1..Len(m.seen) |-> i] /\ m.before \subseteq DOMAIN states[m.learner]
      BY <1>1, <2>8, <2>10 DEF SameRequest
    <3>2. m.status = "more" => m.token = <<Len(m.seen), 0>>
      BY <2>8, <2>9, <2>10
    <3>3. ASSUME m.status = "ended", NEW v \in m.before, m.to = 0 \/ v <= m.to PROVE v \in ToSet(m.seen)
      <4>1. v \in 1..L /\ v <= to
        BY <1>1, <1>2, <1>3, <2>10, <3>3 DEF SameRequest
      <4>2. v <= b
        BY <1>2, <1>3, <4>1
      <4>3. Len(items) < n \/ t + n >= to
        BY <2>9, <2>10, <3>3
      <4>4. v <= k
        <5>1. CASE Len(items) < n
          <6>1. k = c
            BY <1>1, <2>1, <2>6, <5>1
          <6> QED
            BY <1>1, <1>2, <1>3, <4>1, <4>2, <6>1
        <5>2. CASE Len(items) >= n /\ t + n >= to
          BY <1>1, <1>3, <2>7, <4>1, <5>2
        <5> QED
          BY <1>1, <2>7, <4>3, <5>1, <5>2
      <4> QED
        BY <2>8, <2>10, <4>1, <4>4
    <3> QED
      BY <3>1, <3>2, <3>3 DEF VersionsRead
  <2> QED
    BY <2>10, <2>11
<1> QED
  BY <1>6, <1>7

\* Rows that were not passed, n of them returned and passed now: nothing is returned twice, and what is
\* passed but was not returned had been passed before.
Ahead(rows, n) == {rows[i] : i \in (n + 1)..Len(rows)}
GoesPast(all, seen, R, Past, rows, n) ==
  /\ all \in Seq(Nat) /\ Distinct(all) /\ ToSet(all) \subseteq R \ Ahead(rows, n)
  /\ (R \ Ahead(rows, n)) \ ToSet(all) \subseteq Past \ ToSet(seen)
  /\ Len(rows) <= n => Ahead(rows, n) = {}
LEMMA PassingPage ==
    ASSUME NEW R \in SUBSET Nat, NEW Past \in SUBSET R, NEW seen \in Seq(Nat), Distinct(seen), ToSet(seen) \subseteq Past,
           NEW rows \in Seq(Nat), Distinct(rows), ToSet(rows) = R \ Past, NEW n \in Nat,
           NEW all, all = seen \o Take(rows, n)
    PROVE  GoesPast(all, seen, R, Past, rows, n)
<1> DEFINE p == Take(rows, n)
           A == Ahead(rows, n)
<1>1. /\ p \in Seq(Nat) /\ Distinct(p) /\ ToSet(p) \subseteq ToSet(rows)
      /\ Len(p) = IF n < Len(rows) THEN n ELSE Len(rows)
      /\ \A i \in 1..Len(p) : p[i] = rows[i] /\ i \in DOMAIN rows
      /\ \A x \in ToSet(rows) \ ToSet(p) : \E i \in DOMAIN rows : i > n /\ x = rows[i]
  BY Taken
<1>2. Len(rows) \in Nat /\ DOMAIN rows = 1..Len(rows) /\ DOMAIN p = 1..Len(p)
  BY <1>1
<1> HIDE DEF p
<1>3. ToSet(seen) \cap ToSet(p) = {}
  BY <1>1
<1>4. all \in Seq(Nat) /\ Distinct(all) /\ ToSet(all) = ToSet(seen) \cup ToSet(p)
  <2>1. all = seen \o p
    BY DEF p
  <2> QED
    BY <1>1, <1>3, <2>1, Joined
<1>5. A \subseteq R \ Past
  <2>1. \A i \in (n + 1)..Len(rows) : rows[i] \in ToSet(rows)
    BY <1>2 DEF ToSet
  <2> QED
    BY <2>1 DEF Ahead
<1>6. ASSUME NEW x \in ToSet(p) PROVE x \notin A
  <2>1. PICK i \in 1..Len(p) : x = p[i]
    BY <1>2 DEF ToSet
  <2>2. x = rows[i] /\ i \in DOMAIN rows /\ i <= n
    BY <1>1, <1>2, <2>1
  <2>3. ASSUME NEW j \in (n + 1)..Len(rows) PROVE x # rows[j]
    <3>1. j \in DOMAIN rows /\ i # j
      BY <1>2, <2>2
    <3> QED
      BY <2>2, <3>1 DEF Distinct
  <2> QED
    BY <2>3 DEF Ahead
<1>7. ASSUME NEW x \in R \ Past, x \notin A PROVE x \in ToSet(p)
  <2>1. SUFFICES ASSUME x \notin ToSet(p) PROVE FALSE
    OBVIOUS
  <2>2. PICK i \in DOMAIN rows : i > n /\ x = rows[i]
    BY <1>1, <1>7, <2>1
  <2>3. i \in (n + 1)..Len(rows)
    BY <1>2, <2>2
  <2> QED
    BY <1>7, <2>2, <2>3 DEF Ahead
<1>8. Len(rows) <= n => A = {}
  BY <1>2 DEF Ahead
<1>9. ToSet(all) \subseteq R \ A
  BY <1>1, <1>4, <1>5, <1>6
<1>10. (R \ A) \ ToSet(all) \subseteq Past \ ToSet(seen)
  BY <1>4, <1>7
<1> HIDE DEF A
<1> QED
  BY <1>4, <1>8, <1>9, <1>10 DEF A, GoesPast

\* No row is sorted twice, in the one order or the other.
LEMMA SortedOnce ==
    ASSUME NEW K \in SUBSET Nat, NEW key, Keyed(K, key)
    PROVE  /\ SortedBy(key) \in Seq(Nat) /\ SortedBy(key) \in Seq(K) /\ ToSet(SortedBy(key)) = K /\ Distinct(SortedBy(key))
           /\ Reverse(SortedBy(key)) \in Seq(Nat) /\ Reverse(SortedBy(key)) \in Seq(K)
           /\ ToSet(Reverse(SortedBy(key))) = K /\ Distinct(Reverse(SortedBy(key)))
           /\ \A i, j \in DOMAIN SortedBy(key) : i < j => LexLess(key[SortedBy(key)[i]], key[SortedBy(key)[j]])
           /\ \A i, j \in DOMAIN Reverse(SortedBy(key)) :
                i < j => LexLess(key[Reverse(SortedBy(key))[j]], key[Reverse(SortedBy(key))[i]])
<1> DEFINE s == SortedBy(key)
           t == Reverse(s)
           c == Len(s)
<1>1. /\ s \in Seq(K) /\ c \in Nat /\ DOMAIN s = 1..c /\ ToSet(s) = K
      /\ \A i, j \in 1..c : i < j => LexLess(key[s[i]], key[s[j]])
  <2>1. /\ s \in Seq(K) /\ c = Cardinality(K) /\ Cardinality(K) \in Nat /\ ToSet(s) = K
        /\ \A i, j \in 1..Cardinality(K) : i < j => LexLess(key[s[i]], key[s[j]])
    BY SortedRows
  <2> QED
    BY <2>1
<1> HIDE DEF s
<1>2. /\ t \in Seq(K) /\ Len(t) = c /\ ToSet(t) = K
      /\ \A i \in 1..c : t[i] = s[c - i + 1] /\ c - i + 1 \in 1..c
  BY <1>1, Reversed
<1> HIDE DEF t, c
<1>3. s \in Seq(Nat) /\ t \in Seq(Nat) /\ DOMAIN t = 1..c
  <2>1. DOMAIN t = 1..c
    BY <1>1, <1>2
  <2> QED
    BY <1>1, <1>2, <2>1, Wider
<1>4. \A i \in 1..c : s[i] \in K /\ key[s[i]] \in Nat \X Nat
  <2>1. \A i \in 1..c : s[i] \in K
    BY <1>1 DEF ToSet
  <2> QED
    BY <2>1 DEF Keyed
<1>5. Distinct(s)
  <2> SUFFICES ASSUME NEW i \in 1..c, NEW j \in 1..c, s[i] = s[j], i # j PROVE FALSE
    BY <1>1 DEF Distinct
  <2>1. i < j \/ j < i
    BY <1>1
  <2> QED
    BY <1>1, <1>4, <2>1, LexOrder
<1>6. ASSUME NEW i \in 1..c, NEW j \in 1..c, i < j PROVE LexLess(key[t[j]], key[t[i]])
  <2>1. c - j + 1 < c - i + 1 /\ c - j + 1 \in 1..c /\ c - i + 1 \in 1..c
    BY <1>1, <1>6
  <2> QED
    BY <1>1, <1>2, <2>1
<1>7. Distinct(t)
  <2> SUFFICES ASSUME NEW i \in 1..c, NEW j \in 1..c, t[i] = t[j], i # j PROVE FALSE
    BY <1>3 DEF Distinct
  <2>1. i < j \/ j < i
    BY <1>1
  <2>2. key[t[i]] \in Nat \X Nat /\ key[t[j]] \in Nat \X Nat
    BY <1>2, <1>4
  <2> QED
    BY <1>6, <2>1, <2>2, LexOrder
<1> QED
  BY <1>1, <1>2, <1>3, <1>5, <1>6, <1>7 DEF s, t

\* The next page of the server's ingestion log.
LEMMA EntriesPage ==
    ASSUME TablesSound, NEW l \in ListingRows, l.status = "more", l.kind = "ingestion", store = "sqlite", EntriesRead(l)
    PROVE  AfterAnswer(l) \in ListingRows /\ SameRequest(l, AfterAnswer(l)) /\ EntriesRead(AfterAnswer(l))
<1> DEFINE R == RowsOf(l)
           n == l.size
           t == l.token[1]
           older == {i \in R : l.token = NoToken \/ i < t}
           Past == {i \in R : l.token # NoToken /\ i >= t}
           key == Dated(older, outcomes)
           rows == Reverse(SortedBy(key))
           m == AfterAnswer(l)
           page == PageOf(l)
           all == l.seen \o Take(rows, n)
<1>1. R \in SUBSET DOMAIN outcomes
  BY DEF RowsOf, KeptOutcomes
<1>2. page = SqlitePage(rows, n, RowIds(older)) /\ ~Refused(l)
  BY DEF PageOf, SqliteIngestionLog, Refused, ChecksTokens
<1>3. n \in Nat \ {0} /\ t \in Nat /\ l.seen \in Seq(Nat) /\ l.token \in Nat \X Nat
  BY ListingsAssumption DEF ListingRows
<1>4. ToSet(l.seen) \cup l.before \subseteq R
  BY DEF EntriesRead
<1> HIDE DEF R, n, t, m, page
<1>5. R \in SUBSET Nat /\ IsFiniteSet(R) /\ R \subseteq 1..Len(outcomes) /\ Len(outcomes) \in Nat
  <2>1. outcomes \in Seq([signal : Signals, outcome : Outcomes, at : Times])
    BY DEF TablesSound, TablesTypeOK
  <2> QED
    BY <1>1, <2>1, LogFinite
<1>6. \A i \in R : outcomes[i].at \in Nat
  <2> DEFINE Entry == [signal : Signals, outcome : Outcomes, at : Times]
  <2>1. outcomes \in Seq(Entry)
    BY DEF TablesSound, TablesTypeOK
  <2>2. \A e \in Entry : e.at \in Nat
    BY DEF Times
  <2> HIDE DEF Entry
  <2>3. \A i \in DOMAIN outcomes : outcomes[i] \in Entry
    BY <2>1
  <2> SUFFICES ASSUME NEW i \in R PROVE outcomes[i].at \in Nat
    OBVIOUS
  <2>4. i \in DOMAIN outcomes
    BY <1>1
  <2>5. outcomes[i] \in Entry
    BY <2>3, <2>4
  <2> QED
    BY <2>2, <2>5
<1>7. older \in SUBSET Nat /\ older \subseteq R /\ Past \in SUBSET R /\ older = R \ Past /\ \A i \in R : i # 0
  <2> HIDE DEF key, rows, all
  <2>1. \A i \in R : i \in Nat /\ i # 0
    BY <1>5
  <2>2. older \subseteq R /\ Past \subseteq R
    OBVIOUS
  <2>3. \A i \in R : i \in older <=> i \notin Past
    <3> SUFFICES ASSUME NEW i \in R PROVE (l.token = NoToken \/ i < t) <=> ~(l.token # NoToken /\ i >= t)
      OBVIOUS
    <3>1. i \in Nat /\ t \in Nat
      BY <1>3, <2>1
    <3> QED
      BY <3>1
  <2> HIDE DEF older, Past
  <2>4. older = R \ Past
    BY <2>2, <2>3
  <2> QED
    BY <1>5, <2>1, <2>2, <2>4
<1>8. IsFiniteSet(older)
  BY <1>5, <1>7, FS_Subset
<1>9. \A i \in older : i \in R /\ (l.token = NoToken \/ i < t)
  OBVIOUS
<1>10. \A i \in Past : i \in R /\ l.token # NoToken /\ i >= t
  OBVIOUS
<1>11. \A i \in R : l.token # NoToken /\ i >= t => i \in Past
  OBVIOUS
<1> HIDE DEF older, Past
<1>12. Keyed(older, key) /\ \A i \in older : key[i] = <<outcomes[i].at, i>>
  <2>1. \A i \in older : outcomes[i].at \in Nat
    BY <1>6, <1>7
  <2> QED
    BY <1>7, <1>8, <2>1, DatedKeyed
<1> HIDE DEF key
<1>13. /\ rows \in Seq(Nat) /\ rows \in Seq(older) /\ ToSet(rows) = older /\ Distinct(rows)
       /\ \A i, j \in DOMAIN rows : i < j => LexLess(key[rows[j]], key[rows[i]])
  BY <1>7, <1>12, SortedOnce
<1> HIDE DEF rows
<1>14. \A x \in older : RowIds(older)[x] = <<x, 0>> /\ RowIds(older)[x] \in Nat \X Nat /\ RowIds(older)[x] # NoToken
  BY <1>7 DEF RowIds, NoToken
<1>15. /\ page.items = Take(rows, n) /\ page.token \in Nat \X Nat
       /\ page.token = NoToken <=> Len(rows) <= n
       /\ page.token # NoToken =>
            Len(rows) > n /\ rows[n] \in older /\ n \in DOMAIN rows /\ page.token = RowIds(older)[rows[n]]
  BY <1>2, <1>3, <1>13, <1>14, SqlitePages
<1>16. Take(rows, n) \in Seq(Nat) /\ ToSet(Take(rows, n)) \subseteq older
  BY <1>3, <1>13, Taken
<1>17. all \in Seq(Nat) /\ ToSet(all) \subseteq R
  <2>1. all \in Seq(Nat) /\ ToSet(all) = ToSet(l.seen) \cup ToSet(Take(rows, n))
    BY <1>3, <1>16, Joined
  <2> QED
    BY <1>4, <1>7, <1>16, <2>1
<1>18. /\ m \in ListingRows /\ SameRequest(l, m) /\ m.seen = all /\ m.token = page.token
       /\ m.status = IF page.token = NoToken THEN "ended" ELSE "more"
  <2>1. ~Refused(l) /\ page.items \in Seq(Nat) /\ page.token \in Nat \X Nat
    BY <1>2, <1>15, <1>16
  <2> QED
    BY <1>15, <2>1, AfterAnswerFields DEF page, m
<1>19. RowsOf(m) = R /\ m.before = l.before
  BY <1>18, SameRows DEF R, SameRequest
<1> HIDE DEF all
<1>20. m.status = "more" =>
         /\ Len(rows) > n /\ rows[n] \in older /\ n \in DOMAIN rows /\ m.token = <<rows[n], 0>> /\ m.token # NoToken
         /\ m.token[1] = rows[n] /\ m.token[2] = 0 /\ m.token[1] \in 0..Len(outcomes)
  <2> SUFFICES ASSUME m.status = "more"
               PROVE  /\ Len(rows) > n /\ rows[n] \in older /\ n \in DOMAIN rows
                      /\ m.token = <<rows[n], 0>> /\ m.token # NoToken
                      /\ m.token[1] = rows[n] /\ m.token[2] = 0 /\ m.token[1] \in 0..Len(outcomes)
    OBVIOUS
  <2>1. page.token # NoToken /\ m.token = page.token
    BY <1>18
  <2>2. Len(rows) > n /\ rows[n] \in older /\ n \in DOMAIN rows /\ m.token = <<rows[n], 0>>
    BY <1>14, <1>15, <2>1
  <2>3. PICK x \in 1..Len(outcomes) : x = rows[n]
    BY <1>5, <1>7, <2>2
  <2>4. x \in 0..Len(outcomes) /\ m.token[1] = x /\ m.token[2] = 0
    BY <1>5, <2>2, <2>3
  <2> QED
    BY <2>1, <2>2, <2>3, <2>4
<1>21. ASSUME InTimeOrder(outcomes)
       PROVE  /\ Distinct(m.seen)
              /\ m.status = "more" =>
                   /\ \A i \in DOMAIN m.seen : m.seen[i] >= m.token[1]
                   /\ \A i \in m.before : i >= m.token[1] => i \in ToSet(m.seen)
              /\ m.status = "ended" => m.before \subseteq ToSet(m.seen)
  <2>1. /\ Distinct(l.seen) /\ (l.token # NoToken \/ l.seen = <<>>)
        /\ \A i \in DOMAIN l.seen : l.seen[i] >= t
        /\ \A i \in l.before : l.token # NoToken /\ i >= t => i \in ToSet(l.seen)
    BY <1>21 DEF EntriesRead, t
  <2>2. ToSet(l.seen) \subseteq Past
    <3> SUFFICES ASSUME NEW i \in DOMAIN l.seen PROVE l.seen[i] \in Past
      BY DEF ToSet
    <3>1. l.seen[i] \in R
      BY <1>4 DEF ToSet
    <3>2. l.seen # <<>>
      BY <1>3
    <3> QED
      BY <1>11, <2>1, <3>1, <3>2
  <2>3. GoesPast(all, l.seen, R, Past, rows, n)
    <3>1. PICK seen \in Seq(Nat) : seen = l.seen
      BY <1>3
    <3>2. Distinct(seen) /\ ToSet(seen) \subseteq Past /\ all = seen \o Take(rows, n) /\ n \in Nat
      BY <1>3, <2>1, <2>2, <3>1 DEF all
    <3>3. GoesPast(all, seen, R, Past, rows, n)
      BY <1>5, <1>7, <1>13, <3>2, PassingPage
    <3> QED
      BY <3>1, <3>3
  <2> DEFINE A == Ahead(rows, n)
  <2>4. /\ Distinct(all) /\ ToSet(all) \subseteq R \ A /\ (Len(rows) <= n => A = {})
        /\ \A x \in R \ A : x \notin ToSet(all) => x \in Past /\ x \notin ToSet(l.seen)
    BY <2>3 DEF GoesPast
  <2> HIDE DEF A
  <2>5. \A x \in l.before : x \notin A => x \in ToSet(all)
    BY <1>4, <1>10, <2>1, <2>4
  <2>6. ASSUME m.status = "more" PROVE \A x \in R : x \in A <=> x < rows[n]
    <3>1. Len(rows) > n /\ rows[n] \in older /\ n \in DOMAIN rows
      BY <1>20, <2>6
    <3>2. ASSUME NEW i \in DOMAIN rows, NEW j \in DOMAIN rows, i < j PROVE rows[j] < rows[i]
      <4>1. PICK x \in older, y \in older : x = rows[i] /\ y = rows[j]
        BY <1>13 DEF ToSet
      <4>2. outcomes[y].at < outcomes[x].at \/ y < x
        <5>1. LexLess(<<outcomes[y].at, y>>, <<outcomes[x].at, x>>)
          BY <1>12, <1>13, <3>2, <4>1
        <5> QED
          BY <5>1 DEF LexLess
      <4>3. x \in DOMAIN outcomes /\ y \in DOMAIN outcomes /\ x \in Nat /\ y \in Nat
        BY <1>1, <1>7
      <4>4. x < y => outcomes[x].at <= outcomes[y].at
        BY <1>21, <4>3 DEF InTimeOrder
      <4>5. outcomes[x].at \in Nat /\ outcomes[y].at \in Nat
        BY <1>6, <1>7
      <4>6. x = y => outcomes[y].at = outcomes[x].at
        OBVIOUS
      <4> QED
        BY <4>1, <4>2, <4>3, <4>4, <4>5, <4>6
    <3>3. DOMAIN rows = 1..Len(rows) /\ Len(rows) \in Nat
      BY <1>13
    <3>4. A \subseteq older /\ \A x \in A : x < rows[n]
      <4> SUFFICES ASSUME NEW i \in (n + 1)..Len(rows) PROVE rows[i] \in older /\ rows[i] < rows[n]
        BY DEF A, Ahead
      <4>1. i \in DOMAIN rows /\ n < i
        BY <1>3, <3>3
      <4> QED
        BY <1>13, <3>1, <3>2, <4>1 DEF ToSet
    <3>5. ASSUME NEW x \in R, x < rows[n] PROVE x \in A
      <4>1. rows[n] \in Nat /\ x \in Nat
        BY <1>5, <1>7, <3>1
      <4>2. x \notin Past
        BY <1>3, <1>9, <1>10, <3>1, <3>5, <4>1
      <4>3. PICK i \in DOMAIN rows : x = rows[i]
        BY <1>7, <1>13, <4>2 DEF ToSet
      <4>4. i > n
        <5>1. i = n \/ i < n \/ i > n
          BY <1>3, <3>3
        <5>2. i < n => rows[n] < x
          BY <3>1, <3>2, <4>3
        <5> QED
          BY <3>5, <4>1, <4>3, <5>1, <5>2
      <4>5. i \in (n + 1)..Len(rows)
        BY <1>3, <3>3, <4>4
      <4> QED
        BY <4>3, <4>5 DEF A, Ahead
    <3> QED
      BY <3>4, <3>5
  <2>7. ASSUME m.status = "more"
        PROVE  /\ \A i \in DOMAIN m.seen : m.seen[i] >= m.token[1]
               /\ \A i \in m.before : i >= m.token[1] => i \in ToSet(m.seen)
    <3>1. PICK x \in Nat : x = rows[n] /\ m.token[1] = x
      BY <1>7, <1>20, <2>7
    <3>2. ASSUME NEW i \in DOMAIN all PROVE all[i] >= x
      <4>1. PICK y \in R : y = all[i] /\ y \notin A
        BY <2>4 DEF ToSet
      <4>2. y \in Nat /\ ~(y < x)
        BY <1>5, <2>6, <2>7, <3>1, <4>1
      <4> QED
        BY <4>1, <4>2
    <3>3. ASSUME NEW i \in l.before, i >= x PROVE i \in ToSet(all)
      <4>1. i \in R /\ i \in Nat
        BY <1>4, <1>5
      <4>2. i \notin A
        BY <2>6, <2>7, <3>1, <3>3, <4>1
      <4> QED
        BY <2>5, <4>2
    <3> QED
      BY <1>18, <1>19, <3>1, <3>2, <3>3
  <2>8. ASSUME m.status = "ended" PROVE m.before \subseteq ToSet(m.seen)
    <3>1. A = {}
      BY <1>15, <1>18, <2>4, <2>8
    <3> QED
      BY <1>18, <1>19, <2>5, <3>1
  <2> QED
    BY <1>18, <2>4, <2>7, <2>8
<1>22. m.status # "refused" /\ ToSet(m.seen) \cup m.before \subseteq RowsOf(m)
  BY <1>4, <1>17, <1>18, <1>19
<1>23. EntriesRead(m)
  BY <1>20, <1>21, <1>22 DEF EntriesRead
<1> QED
  BY <1>18, <1>23 DEF m

\* The next page of the server's roster.
LEMMA LearnersPage ==
    ASSUME TablesSound, NEW l \in ListingRows, l.status = "more", l.kind = "roster", store = "sqlite", LearnersRead(l)
    PROVE  AfterAnswer(l) \in ListingRows /\ SameRequest(l, AfterAnswer(l)) /\ LearnersRead(AfterAnswer(l))
<1> DEFINE R == RowsOf(l)
           n == l.size
           tok == <<MaxTime - l.token[1], l.token[2]>>
           after == {k \in R : l.token = NoToken \/ LexLess(tok, RosterKey(k))}
           Past == {k \in R : PassedLearner(l, k)}
           key == [k \in after |-> RosterKey(k)]
           cursor == [k \in after |-> <<UpdatedAt(k), k>>]
           rows == SortedBy(key)
           m == AfterAnswer(l)
           page == PageOf(l)
           all == l.seen \o Take(rows, n)
           A == Ahead(rows, n)
<1>1. R \in SUBSET Nat /\ IsFiniteSet(R) /\ \A k \in R : k # 0 /\ UpdatedAt(k) \in Nat /\ UpdatedAt(k) <= MaxTime
  <2>1. R = {k \in Learners : states[k] # <<>>}
    BY DEF RowsOf
  <2>2. R \in SUBSET Nat /\ IsFiniteSet(R) /\ \A k \in R : UpdatedAt(k) \in Times
    BY <2>1, RosterFinite
  <2>3. \A k \in R : k # 0
    BY <2>1, TablesAssumption
  <2> QED
    BY <2>2, <2>3, TablesAssumption DEF Times
<1>2. page = SqlitePage(rows, n, cursor) /\ ~Refused(l)
  BY DEF PageOf, SqliteRoster, Refused, ChecksTokens
<1>3. n \in Nat \ {0} /\ l.seen \in Seq(Nat) /\ l.token \in Nat \X Nat /\ l.token[1] <= MaxTime
  BY ListingsAssumption DEF ListingRows, LearnersRead
<1>4. /\ Distinct(l.seen) /\ ToSet(l.seen) \cup l.before \subseteq R /\ l.until <= now
      /\ \A k \in ToSet(l.seen) : PassedLearner(l, k)
      /\ \A k \in l.before \ ToSet(l.seen) : ~PassedLearner(l, k) \/ UpdatedAt(k) >= l.until
  BY DEF LearnersRead
<1> HIDE DEF R, n, m, page
<1>5. tok \in Nat \X Nat
  <2>1. l.token[1] \in Nat /\ l.token[2] \in Nat
    BY <1>3
  <2>2. MaxTime - l.token[1] \in Nat
    BY <1>3, <2>1, TablesAssumption
  <2> QED
    BY <2>1, <2>2
<1>6. \A k \in R : RosterKey(k) = <<MaxTime - UpdatedAt(k), k>> /\ RosterKey(k) \in Nat \X Nat
  BY <1>1, TablesAssumption DEF RosterKey
<1>7. \A k \in R : PassedLearner(l, k) <=> l.token # NoToken /\ ~LexLess(tok, RosterKey(k))
  BY DEF PassedLearner
<1> HIDE DEF tok
<1>8. after \in SUBSET Nat /\ after \subseteq R /\ Past \in SUBSET R /\ after = R \ Past
  BY <1>1, <1>7
<1>9. IsFiniteSet(after)
  BY <1>1, <1>8, FS_Subset
<1>10. \A k \in after : k \in R /\ (l.token = NoToken \/ LexLess(tok, RosterKey(k)))
  OBVIOUS
<1>11. \A k \in R : k \in Past <=> PassedLearner(l, k)
  OBVIOUS
<1> HIDE DEF after, Past
<1>12. Keyed(after, key) /\ \A k \in after : key[k] = RosterKey(k)
  <2>1. \A x, y \in after : RosterKey(x) = RosterKey(y) => x = y
    BY <1>6, <1>8
  <2> QED
    BY <1>6, <1>8, <1>9, <2>1 DEF Keyed
<1> HIDE DEF key
<1>13. /\ rows \in Seq(Nat) /\ rows \in Seq(after) /\ ToSet(rows) = after /\ Distinct(rows)
       /\ \A i, j \in DOMAIN rows : i < j => LexLess(key[rows[i]], key[rows[j]])
  BY <1>8, <1>12, SortedOnce
<1> HIDE DEF rows
<1>14. \A x \in after : cursor[x] = <<UpdatedAt(x), x>> /\ cursor[x] \in Nat \X Nat /\ cursor[x] # NoToken
  BY <1>1, <1>8 DEF NoToken
<1> HIDE DEF cursor
<1>15. /\ page.items = Take(rows, n) /\ page.token \in Nat \X Nat
       /\ page.token = NoToken <=> Len(rows) <= n
       /\ page.token # NoToken =>
            Len(rows) > n /\ rows[n] \in after /\ n \in DOMAIN rows /\ page.token = cursor[rows[n]]
  BY <1>2, <1>3, <1>13, <1>14, SqlitePages
<1>16. /\ m \in ListingRows /\ SameRequest(l, m) /\ m.seen = all /\ m.token = page.token
       /\ m.status = IF page.token = NoToken THEN "ended" ELSE "more"
  <2>1. Take(rows, n) \in Seq(Nat)
    BY <1>3, <1>13, Taken
  <2>2. ~Refused(l) /\ page.items \in Seq(Nat) /\ page.token \in Nat \X Nat
    BY <1>2, <1>15, <2>1
  <2> QED
    BY <1>15, <2>2, AfterAnswerFields DEF page, m
<1>17. RowsOf(m) = R /\ m.before = l.before /\ m.until = l.until
  BY <1>16, SameRows DEF R, SameRequest
<1>18. GoesPast(all, l.seen, R, Past, rows, n)
  <2>1. PICK seen \in Seq(Nat) : seen = l.seen
    BY <1>3
  <2>2. Distinct(seen) /\ ToSet(seen) \subseteq Past /\ all = seen \o Take(rows, n) /\ n \in Nat
    BY <1>3, <1>4, <1>11, <2>1
  <2>3. GoesPast(all, seen, R, Past, rows, n)
    BY <1>1, <1>8, <1>13, <2>2, PassingPage
  <2> QED
    BY <2>1, <2>3
<1> HIDE DEF all, A
<1>19. /\ Distinct(all) /\ ToSet(all) \subseteq R \ A /\ (Len(rows) <= n => A = {})
       /\ \A x \in R \ A : x \notin ToSet(all) => x \in Past /\ x \notin ToSet(l.seen)
  BY <1>18 DEF GoesPast, A
<1>20. \A k \in l.before \ ToSet(all) : k \in A \/ UpdatedAt(k) >= l.until
  BY <1>4, <1>11, <1>19
<1>21. ASSUME m.status = "more" PROVE m.token[1] <= MaxTime /\ \A k \in R : k \in A <=> ~PassedLearner(m, k)
  <2>1. page.token # NoToken /\ m.token = page.token
    BY <1>16, <1>21
  <2>2. PICK x \in after : x = rows[n]
    BY <1>15, <2>1
  <2>3. Len(rows) > n /\ n \in DOMAIN rows /\ m.token = <<UpdatedAt(x), x>> /\ m.token # NoToken
    BY <1>14, <1>15, <2>1, <2>2
  <2>4. m.token[1] = UpdatedAt(x) /\ m.token[2] = x
    BY <2>3
  <2>5. x \in R /\ RosterKey(x) = <<MaxTime - m.token[1], m.token[2]>> /\ m.token[1] <= MaxTime
    BY <1>1, <1>6, <1>10, <2>4
  <2>6. \A k \in R : ~PassedLearner(m, k) <=> LexLess(RosterKey(x), RosterKey(k))
    BY <2>3, <2>5 DEF PassedLearner
  <2>7. DOMAIN rows = 1..Len(rows) /\ Len(rows) \in Nat
    BY <1>13
  <2>8. ASSUME NEW i \in DOMAIN rows, NEW j \in DOMAIN rows, i < j PROVE LexLess(RosterKey(rows[i]), RosterKey(rows[j]))
    <3>1. rows[i] \in after /\ rows[j] \in after
      BY <1>13 DEF ToSet
    <3> QED
      BY <1>12, <1>13, <2>8, <3>1
  <2>9. ASSUME NEW k \in A PROVE LexLess(RosterKey(x), RosterKey(k))
    <3>1. PICK i \in (n + 1)..Len(rows) : k = rows[i]
      BY DEF A, Ahead
    <3>2. i \in DOMAIN rows /\ n < i
      BY <1>3, <2>7
    <3> QED
      BY <2>2, <2>3, <2>8, <3>1, <3>2
  <2>10. ASSUME NEW k \in R, LexLess(RosterKey(x), RosterKey(k)) PROVE k \in A
    <3>1. RosterKey(x) \in Nat \X Nat /\ RosterKey(k) \in Nat \X Nat
      BY <1>6, <2>5
    <3>2. k \in after
      <4>1. SUFFICES ASSUME PassedLearner(l, k) PROVE FALSE
        BY <1>8, <1>11
      <4>2. l.token # NoToken /\ ~LexLess(tok, RosterKey(k)) /\ LexLess(tok, RosterKey(x))
        BY <1>7, <1>10, <4>1
      <4> QED
        BY <1>5, <2>10, <3>1, <4>2, LexOrder
    <3>3. PICK i \in DOMAIN rows : k = rows[i]
      BY <1>13, <3>2 DEF ToSet
    <3>4. i > n
      <4>1. i = n \/ i < n \/ i > n
        BY <1>3, <2>7
      <4>2. i # n
        BY <2>2, <2>10, <3>1, <3>3, LexOrder
      <4>3. ~(i < n)
        <5>1. i < n => LexLess(RosterKey(k), RosterKey(x))
          BY <2>2, <2>3, <2>8, <3>3
        <5> QED
          BY <2>10, <3>1, <5>1, LexOrder
      <4> QED
        BY <4>1, <4>2, <4>3
    <3>5. i \in (n + 1)..Len(rows)
      BY <1>3, <2>7, <3>4
    <3> QED
      BY <3>3, <3>5 DEF A, Ahead
  <2>11. \A k \in R : k \in A <=> LexLess(RosterKey(x), RosterKey(k))
    BY <2>9, <2>10
  <2> QED
    BY <2>5, <2>6, <2>11
<1>22. LearnersRead(m)
  <2>1. /\ Distinct(m.seen) /\ ToSet(m.seen) \cup m.before \subseteq RowsOf(m)
        /\ m.status # "refused" /\ m.until <= now
    BY <1>4, <1>16, <1>17, <1>19
  <2>2. m.status = "more" =>
          /\ m.token[1] <= MaxTime
          /\ \A k \in ToSet(m.seen) : PassedLearner(m, k)
          /\ \A k \in m.before \ ToSet(m.seen) : ~PassedLearner(m, k) \/ UpdatedAt(k) >= m.until
    BY <1>4, <1>16, <1>17, <1>19, <1>20, <1>21
  <2>3. m.status = "ended" => \A k \in m.before \ ToSet(m.seen) : UpdatedAt(k) >= m.until
    BY <1>15, <1>16, <1>17, <1>19, <1>20
  <2> QED
    BY <2>1, <2>2, <2>3 DEF LearnersRead
<1> QED
  BY <1>16, <1>22 DEF m

\* DynamoDB's signals and decisions: one page, and no token of it is accepted.
LEMMA OnePage ==
    ASSUME TablesSound, NEW l \in ListingRows, l.status = "more", l.kind \in {"signals", "decisions"}, store # "sqlite",
           OneRead(l)
    PROVE  AfterAnswer(l) \in ListingRows /\ SameRequest(l, AfterAnswer(l)) /\ OneRead(AfterAnswer(l))
<1> DEFINE m == AfterAnswer(l)
           page == PageOf(l)
           log == LogOf(l.kind)
           R == RowsOf(l)
           n == l.size
<1>1. l.seen \in Seq(Nat) /\ l.token \in Nat \X Nat /\ n \in Nat \ {0}
  BY ListingsAssumption DEF ListingRows
<1>2. CASE Refused(l)
  <2>1. m = [l EXCEPT !.status = "refused"]
    BY <1>2 DEF AfterAnswer
  <2> HIDE DEF m
  <2>2. m \in ListingRows /\ SameRequest(l, m) /\ m.seen = l.seen /\ m.status = "refused"
    BY <2>1 DEF ListingRows, SameRequest
  <2>3. OneRead(m)
    BY <2>2 DEF OneRead
  <2> QED
    BY <2>2, <2>3 DEF m
<1>3. CASE ~Refused(l)
  <2>1. l.token = NoToken
    <3>1. store = "dynamodb"
      BY TablesAssumption DEF TablesSound, TablesTypeOK
    <3> QED
      BY <1>3, <3>1 DEF Refused, TokenForm, ChecksTokens
  <2>2. l.seen = <<>>
    BY <2>1 DEF OneRead
  <2>3. log \in Seq(Row) /\ R \in SUBSET DOMAIN log
    BY DEF LogOf, RowsOf, TablesSound, TablesTypeOK
  <2> DEFINE rest == IF l.kind = "signals" THEN {i \in R : LexLess(l.token, <<signals[i].at, i>>)}
                     ELSE {i \in R : l.token = NoToken \/ LexLess(<<decisions[i].at, i>>, l.token)}
             key == Dated(rest, log)
             rows == IF l.kind = "signals" THEN SortedBy(key) ELSE Reverse(SortedBy(key))
  <2>4. page = DynamoPage(rows, n, rest, key)
    BY DEF PageOf, DynamoSignals, DynamoDecisions, LogOf
  <2>5. rest \subseteq R
    OBVIOUS
  <2> HIDE DEF rest, log, R, n, m, page
  <2>6. R \in SUBSET Nat /\ IsFiniteSet(R)
    BY <2>3, LogFinite
  <2>7. rest \in SUBSET Nat /\ IsFiniteSet(rest)
    BY <2>5, <2>6, FS_Subset
  <2>8. \A i \in rest : log[i].at \in Nat
    <3>1. \A i \in rest : log[i] \in Row
      BY <2>3, <2>5
    <3> QED
      BY <3>1 DEF Row, Times
  <2>9. Keyed(rest, key)
    BY <2>7, <2>8, DatedKeyed
  <2> HIDE DEF key
  <2>10. rows \in Seq(rest) /\ Distinct(rows)
    BY <2>7, <2>9, SortedOnce
  <2> HIDE DEF rows
  <2>11. DOMAIN key = rest /\ \A x \in rest : key[x] \in Nat \X Nat
    BY <2>9 DEF Keyed
  <2>12. page.items \in Seq(rest) /\ Distinct(page.items) /\ page.token \in Nat \X Nat
    <3>1. DynamoAnswer(page, rest, rows, n, rest, key)
      BY <1>1, <2>4, <2>10, <2>11, DynamoPages
    <3> QED
      BY <3>1 DEF DynamoAnswer
  <2>13. page.items \in Seq(Nat)
    BY <2>7, <2>12, Wider
  <2>14. /\ m \in ListingRows /\ SameRequest(l, m) /\ m.seen = l.seen \o page.items /\ m.token = page.token
         /\ m.status = IF page.token = NoToken THEN "ended" ELSE "more"
    BY <1>3, <2>12, <2>13, AfterAnswerFields DEF page, m
  <2>15. m.seen = page.items
    BY <2>2, <2>13, <2>14
  <2>16. OneRead(m)
    BY <2>12, <2>14, <2>15 DEF OneRead
  <2> QED
    BY <2>14, <2>16 DEF m
<1> QED
  BY <1>2, <1>3

\* Every entry was replaced by one that DynamoDB still has.
LEMMA KeptKey ==
    ASSUME TablesSound, NEW i \in DOMAIN outcomes
    PROVE  \E j \in KeptOutcomes : OutcomeKey(j) = OutcomeKey(i)
<1> DEFINE S == {j \in DOMAIN outcomes : OutcomeKey(j) = OutcomeKey(i)}
           k == Len(outcomes)
<1>1. k \in Nat /\ DOMAIN outcomes = 1..k
  <2>1. outcomes \in Seq([signal : Signals, outcome : Outcomes, at : Times])
    BY DEF TablesSound, TablesTypeOK
  <2> QED
    BY <2>1
<1>2. S \in SUBSET (0..k) /\ S # {}
  BY <1>1
<1>3. \A j \in S : j \in DOMAIN outcomes /\ OutcomeKey(j) = OutcomeKey(i)
  OBVIOUS
<1>4. \A j \in DOMAIN outcomes : OutcomeKey(j) = OutcomeKey(i) => j \in S
  OBVIOUS
<1> HIDE DEF S
<1>5. PICK m \in S : \A j \in S : j <= m
  <2> HIDE DEF k
  <2> QED
    BY <1>1, <1>2, Largest
<1>6. ~Replaced(m)
  <2> SUFFICES ASSUME NEW j \in DOMAIN outcomes, j > m, OutcomeKey(j) = OutcomeKey(m) PROVE FALSE
    BY DEF Replaced
  <2>1. j \in S /\ m \in Nat /\ j \in Nat
    BY <1>1, <1>2, <1>3, <1>4
  <2> QED
    BY <1>5, <2>1
<1> QED
  BY <1>3, <1>6 DEF KeptOutcomes

\* The next page of DynamoDB's ingestion log loses the entry its token is made of, and no other.
LEMMA KeysPage ==
    ASSUME TablesSound, NEW l \in ListingRows, l.status = "more", l.kind = "ingestion", store # "sqlite", KeysRead(l)
    PROVE  AfterAnswer(l) \in ListingRows /\ SameRequest(l, AfterAnswer(l)) /\ KeysRead(AfterAnswer(l))
<1> DEFINE n == l.size
           rest == {i \in KeptOutcomes : l.token = NoToken \/ LexLess(OutcomeKey(i), l.token)}
           key == [i \in rest |-> OutcomeKey(i)]
           rows == Reverse(SortedBy(key))
           kept == RowsOf(l)
           m == AfterAnswer(l)
           page == PageOf(l)
           all == l.seen \o page.items
           Old == KeysOf({i \in l.before : PassedOutcome(l, i)}) \ KeysOf(ToSet(l.seen))
<1>1. page = DynamoPage(rows, n, kept, key) /\ ~Refused(l)
  BY DEF PageOf, DynamoIngestionLog, Refused, ChecksTokens
<1>2. n \in Nat \ {0} /\ l.seen \in Seq(Nat) /\ l.token \in Nat \X Nat /\ l.pages \in Nat
  BY ListingsAssumption DEF ListingRows
<1>3. /\ Distinct(l.seen) /\ ToSet(l.seen) \cup l.before \subseteq DOMAIN outcomes
      /\ \A i \in ToSet(l.seen) : PassedOutcome(l, i)
      /\ l.outcome = "any" => IsFiniteSet(KeysOf(l.before)) /\ Cardinality(Old) <= l.pages
  BY DEF KeysRead
<1>4. \A i \in DOMAIN outcomes : OutcomeKey(i) \in Nat \X Nat /\ OutcomeKey(i) # NoToken
  <2> DEFINE Entry == [signal : Signals, outcome : Outcomes, at : Times]
  <2>1. outcomes \in Seq(Entry)
    BY DEF TablesSound, TablesTypeOK
  <2>2. ASSUME NEW e \in Entry PROVE <<e.at, e.signal>> \in Nat \X Nat /\ <<e.at, e.signal>> # NoToken
    <3>1. e.at \in Times /\ e.signal \in Signals
      OBVIOUS
    <3>2. \A a \in Times, s \in Signals : <<a, s>> \in Nat \X Nat /\ <<a, s>> # NoToken
      BY TablesAssumption DEF Times, NoToken
    <3> QED
      BY <3>1, <3>2
  <2> HIDE DEF Entry
  <2>3. \A i \in DOMAIN outcomes : outcomes[i] \in Entry
    BY <2>1
  <2> QED
    BY <2>2, <2>3 DEF OutcomeKey
<1>5. l.outcome = "any" => kept = KeptOutcomes
  BY DEF RowsOf
<1> HIDE DEF n, m, page, kept
<1>6. KeptOutcomes \in SUBSET Nat /\ IsFiniteSet(KeptOutcomes) /\ KeptOutcomes \subseteq DOMAIN outcomes
  <2>1. KeptOutcomes \in SUBSET DOMAIN outcomes
    BY DEF KeptOutcomes
  <2>2. outcomes \in Seq([signal : Signals, outcome : Outcomes, at : Times])
    BY DEF TablesSound, TablesTypeOK
  <2> QED
    BY <2>1, <2>2, LogFinite
<1>7. \A i, j \in KeptOutcomes : OutcomeKey(i) = OutcomeKey(j) => i = j
  <2>1. store = "dynamodb"
    BY TablesAssumption DEF TablesSound, TablesTypeOK
  <2> SUFFICES ASSUME NEW i \in KeptOutcomes, NEW j \in KeptOutcomes, OutcomeKey(i) = OutcomeKey(j), i # j PROVE FALSE
    OBVIOUS
  <2>2. (i < j \/ j < i) /\ i \in DOMAIN outcomes /\ j \in DOMAIN outcomes
    BY <1>6
  <2> QED
    BY <2>1, <2>2 DEF KeptOutcomes, Replaced
<1>8. /\ rest \in SUBSET Nat /\ rest \subseteq KeptOutcomes
      /\ \A i \in KeptOutcomes : i \in rest <=> ~PassedOutcome(l, i)
  BY <1>6 DEF PassedOutcome
<1>9. IsFiniteSet(rest)
  BY <1>6, <1>8, FS_Subset
<1> HIDE DEF rest
<1>10. Keyed(rest, key) /\ \A i \in rest : key[i] = OutcomeKey(i)
  BY <1>4, <1>6, <1>7, <1>8, <1>9 DEF Keyed
<1>11. DOMAIN key = rest /\ \A x \in rest : key[x] \in Nat \X Nat
  BY <1>10 DEF Keyed
<1> HIDE DEF key
<1>12. /\ rows \in Seq(rest) /\ ToSet(rows) = rest /\ Distinct(rows)
       /\ \A i, j \in DOMAIN rows : i < j => LexLess(key[rows[j]], key[rows[i]])
  BY <1>8, <1>10, SortedOnce
<1> HIDE DEF rows
<1>13. DOMAIN rows = 1..Len(rows) /\ Len(rows) \in Nat /\ \A i \in DOMAIN rows : rows[i] \in rest
  BY <1>12
<1>14. /\ page.items \in Seq(rest) /\ Distinct(page.items) /\ page.token \in Nat \X Nat
       /\ page.token # NoToken =>
            /\ Len(rows) > n /\ page.token = key[rows[n + 1]]
            /\ Len(page.items) = n /\ \A i \in 1..n : page.items[i] = rows[i]
       /\ rest \subseteq kept /\ Len(rows) <= n => ToSet(page.items) = rest
       /\ rest \subseteq kept /\ Len(rows) > n => page.token = key[rows[n + 1]]
  <2>1. DynamoAnswer(page, rest, rows, n, kept, key)
    BY <1>1, <1>2, <1>11, <1>12, DynamoPages
  <2> QED
    BY <1>12, <2>1 DEF DynamoAnswer
<1>15. page.items \in Seq(Nat) /\ ToSet(page.items) \subseteq rest
  <2>1. page.items \in Seq(Nat)
    BY <1>8, <1>14, Wider
  <2>2. \A i \in DOMAIN page.items : page.items[i] \in rest
    BY <1>14
  <2> QED
    BY <2>1, <2>2 DEF ToSet
<1>16. /\ m \in ListingRows /\ SameRequest(l, m) /\ m.seen = all /\ m.token = page.token /\ m.pages = l.pages + 1
       /\ m.status = IF page.token = NoToken THEN "ended" ELSE "more"
  BY <1>1, <1>14, <1>15, AfterAnswerFields DEF page, m
<1>17. m.before = l.before /\ m.outcome = l.outcome
  BY <1>16 DEF SameRequest
<1>18. ToSet(l.seen) \cap ToSet(page.items) = {}
  BY <1>3, <1>8, <1>15
<1>19. Distinct(all) /\ ToSet(all) = ToSet(l.seen) \cup ToSet(page.items)
  <2>1. PICK s \in Seq(Nat), t \in Seq(Nat) : s = l.seen /\ t = page.items
    BY <1>2, <1>15
  <2>2. Distinct(s) /\ Distinct(t) /\ ToSet(s) \cap ToSet(t) = {}
    BY <1>3, <1>14, <1>18, <2>1
  <2>3. Distinct(s \o t) /\ ToSet(s \o t) = ToSet(s) \cup ToSet(t)
    BY <2>2, Joined
  <2> QED
    BY <2>1, <2>3
<1> HIDE DEF all, Old
<1>20. ToSet(all) \subseteq DOMAIN outcomes
  BY <1>3, <1>6, <1>8, <1>15, <1>19
<1>21. ASSUME m.status = "more"
       PROVE  /\ m.token = OutcomeKey(rows[n + 1]) /\ rows[n + 1] \in rest /\ n + 1 \in DOMAIN rows /\ m.token # NoToken
              /\ \A i \in 1..n : i \in DOMAIN rows /\ rows[i] \in ToSet(page.items)
              /\ ToSet(page.items) = {rows[i] : i \in 1..n}
  <2>1. page.token # NoToken
    BY <1>16, <1>21
  <2>2. Len(rows) > n /\ m.token = key[rows[n + 1]] /\ m.token # NoToken
    BY <1>14, <1>16, <2>1
  <2>3. n + 1 \in DOMAIN rows /\ \A i \in 1..n : i \in DOMAIN rows
    BY <1>2, <1>13, <2>2
  <2>4. rows[n + 1] \in rest
    BY <1>13, <2>3
  <2>5. DOMAIN page.items = 1..n /\ \A i \in 1..n : page.items[i] = rows[i]
    BY <1>14, <2>1
  <2> QED
    BY <1>10, <2>2, <2>3, <2>4, <2>5 DEF ToSet
<1>22. ASSUME m.status = "more", NEW i \in ToSet(all) PROVE PassedOutcome(m, i)
  <2> DEFINE y == rows[n + 1]
  <2>1. m.token = OutcomeKey(y) /\ y \in rest /\ n + 1 \in DOMAIN rows /\ m.token # NoToken
    BY <1>21, <1>22
  <2> HIDE DEF y
  <2>2. i \in DOMAIN outcomes /\ y \in DOMAIN outcomes
    BY <1>6, <1>8, <1>20, <1>22, <2>1
  <2>3. OutcomeKey(i) \in Nat \X Nat /\ OutcomeKey(y) \in Nat \X Nat
    BY <1>4, <2>2
  <2>4. CASE i \in ToSet(page.items)
    <3>1. PICK p \in 1..n : i = rows[p] /\ p \in DOMAIN rows
      BY <1>21, <1>22, <2>4
    <3>2. p < n + 1
      BY <1>2
    <3>3. LexLess(key[y], key[i])
      BY <1>12, <2>1, <3>1, <3>2 DEF y
    <3>4. i \in rest
      BY <1>15, <2>4
    <3>5. LexLess(OutcomeKey(y), OutcomeKey(i))
      BY <1>10, <2>1, <3>3, <3>4
    <3> QED
      BY <2>1, <2>3, <3>5, LexOrder DEF PassedOutcome
  <2>5. CASE i \in ToSet(l.seen)
    <3>1. l.token # NoToken /\ ~LexLess(OutcomeKey(i), l.token)
      BY <1>3, <2>5 DEF PassedOutcome
    <3>2. LexLess(OutcomeKey(y), l.token)
      BY <1>8, <2>1, <3>1 DEF PassedOutcome
    <3> QED
      BY <1>2, <2>1, <2>3, <3>1, <3>2, LexOrder DEF PassedOutcome
  <2> QED
    BY <1>19, <1>22, <2>4, <2>5
<1>23. ASSUME l.outcome = "any"
       PROVE  /\ IsFiniteSet(KeysOf(m.before))
              /\ m.status = "more" =>
                   Cardinality(KeysOf({i \in m.before : PassedOutcome(m, i)}) \ KeysOf(ToSet(m.seen))) <= m.pages
              /\ m.status = "ended" => Cardinality(KeysOf(m.before) \ KeysOf(ToSet(m.seen))) < m.pages
  <2>1. IsFiniteSet(KeysOf(l.before)) /\ Cardinality(Old) <= l.pages
    BY <1>3, <1>23
  <2>2. Old \subseteq KeysOf(l.before)
    BY DEF Old, KeysOf
  <2>3. IsFiniteSet(Old)
    BY <2>1, <2>2, FS_Subset
  <2>4. Cardinality(Old) \in Nat
    BY <2>3, FS_CardinalityType
  <2>6. \A i \in l.before : PassedOutcome(l, i) => OutcomeKey(i) \in Old \/ OutcomeKey(i) \in KeysOf(ToSet(all))
    BY <1>19 DEF Old, KeysOf
  <2>7. ASSUME NEW i \in l.before, ~PassedOutcome(l, i) PROVE \E j \in rest : OutcomeKey(j) = OutcomeKey(i)
    <3>1. PICK j \in KeptOutcomes : OutcomeKey(j) = OutcomeKey(i)
      BY <1>3, KeptKey
    <3>2. ~PassedOutcome(l, j)
      BY <2>7, <3>1 DEF PassedOutcome
    <3> QED
      BY <1>8, <3>1, <3>2
  <2>8. ASSUME m.status = "more"
        PROVE  Cardinality(KeysOf({i \in m.before : PassedOutcome(m, i)}) \ KeysOf(ToSet(m.seen))) <= m.pages
    <3> DEFINE New == KeysOf({i \in m.before : PassedOutcome(m, i)}) \ KeysOf(ToSet(m.seen))
    <3>1. New \subseteq Old \cup {m.token}
      <4> SUFFICES ASSUME NEW i \in l.before, PassedOutcome(m, i), OutcomeKey(i) \notin KeysOf(ToSet(all)),
                          OutcomeKey(i) \notin Old
                   PROVE  OutcomeKey(i) = m.token
        BY <1>16, <1>17 DEF KeysOf
      <4>1. ~PassedOutcome(l, i)
        BY <2>6
      <4>2. PICK j \in rest : OutcomeKey(j) = OutcomeKey(i)
        BY <2>7, <4>1
      <4>3. PICK p \in DOMAIN rows : j = rows[p]
        BY <1>12 DEF ToSet
      <4>4. p \notin 1..n
        <5>1. p \in 1..n => j \in ToSet(all)
          BY <1>19, <1>21, <2>8, <4>3
        <5> QED
          BY <4>2, <5>1 DEF KeysOf
      <4>5. ~(n + 1 < p)
        <5>1. SUFFICES ASSUME n + 1 < p PROVE FALSE
          OBVIOUS
        <5>2. LexLess(key[rows[p]], key[rows[n + 1]])
          BY <1>12, <1>21, <2>8, <5>1
        <5>3. LexLess(OutcomeKey(j), m.token)
          BY <1>10, <1>21, <2>8, <4>3, <5>2
        <5> QED
          BY <4>2, <5>3 DEF PassedOutcome
      <4>6. p = n + 1
        BY <1>2, <1>13, <4>4, <4>5
      <4> QED
        BY <1>21, <2>8, <4>2, <4>3, <4>6
    <3>2. /\ IsFiniteSet(Old \cup {m.token})
          /\ Cardinality(Old \cup {m.token}) = IF m.token \in Old THEN Cardinality(Old) ELSE Cardinality(Old) + 1
      BY <2>3, FS_AddElement
    <3> HIDE DEF New
    <3>3. Cardinality(New) <= Cardinality(Old \cup {m.token}) /\ IsFiniteSet(New)
      BY <3>1, <3>2, FS_Subset
    <3>4. Cardinality(New) \in Nat
      BY <3>3, FS_CardinalityType
    <3>5. Cardinality(New) <= l.pages + 1
      BY <1>2, <2>1, <2>4, <3>2, <3>3, <3>4
    <3> QED
      BY <1>16, <3>5 DEF New
  <2>9. ASSUME m.status = "ended" PROVE Cardinality(KeysOf(m.before) \ KeysOf(ToSet(m.seen))) < m.pages
    <3> DEFINE New == KeysOf(m.before) \ KeysOf(ToSet(m.seen))
    <3>1. page.token = NoToken
      BY <1>16, <2>9
    <3>2. rest \subseteq kept
      BY <1>5, <1>8, <1>23
    <3>3. Len(rows) <= n
      <4>1. SUFFICES ASSUME Len(rows) > n PROVE FALSE
        BY <1>2, <1>13
      <4>2. n + 1 \in DOMAIN rows
        BY <1>2, <1>13, <4>1
      <4>3. rows[n + 1] \in DOMAIN outcomes /\ rows[n + 1] \in rest
        BY <1>6, <1>8, <1>13, <4>2
      <4>4. page.token = OutcomeKey(rows[n + 1])
        BY <1>10, <1>14, <3>2, <4>1, <4>3
      <4> QED
        BY <1>4, <3>1, <4>3, <4>4
    <3>4. ToSet(page.items) = rest
      BY <1>14, <3>2, <3>3
    <3>5. New \subseteq Old
      <4> SUFFICES ASSUME NEW i \in l.before, OutcomeKey(i) \notin KeysOf(ToSet(all)) PROVE OutcomeKey(i) \in Old
        BY <1>16, <1>17 DEF KeysOf
      <4>1. SUFFICES ASSUME ~PassedOutcome(l, i) PROVE FALSE
        BY <2>6
      <4>2. PICK j \in rest : OutcomeKey(j) = OutcomeKey(i)
        BY <2>7, <4>1
      <4> QED
        BY <1>19, <3>4, <4>2 DEF KeysOf
    <3> HIDE DEF New
    <3>6. Cardinality(New) <= Cardinality(Old) /\ IsFiniteSet(New)
      BY <2>3, <3>5, FS_Subset
    <3>7. Cardinality(New) \in Nat
      BY <3>6, FS_CardinalityType
    <3>8. Cardinality(New) < l.pages + 1
      BY <1>2, <2>1, <2>4, <3>6, <3>7
    <3> QED
      BY <1>16, <3>8 DEF New
  <2> QED
    BY <1>17, <2>1, <2>8, <2>9
<1>24. KeysRead(m)
  <2>1. Distinct(m.seen) /\ m.status # "refused" /\ ToSet(m.seen) \cup m.before \subseteq DOMAIN outcomes
    BY <1>3, <1>16, <1>17, <1>19, <1>20
  <2>2. m.status = "more" => \A i \in ToSet(m.seen) : PassedOutcome(m, i)
    BY <1>16, <1>22
  <2> QED
    BY <1>17, <1>23, <2>1, <2>2 DEF KeysRead
<1> QED
  BY <1>16, <1>24 DEF m

\* The next page of DynamoDB's roster: learners, and a version as its token.
LEMMA ScannedPage ==
    ASSUME TablesSound, NEW l \in ListingRows, l.kind = "roster", store # "sqlite"
    PROVE  AfterAnswer(l) \in ListingRows /\ SameRequest(l, AfterAnswer(l))
<1> DEFINE K == {w \in Versions : LexLess(l.token, w)}
           key == [kv \in K |-> kv]
           rest == SortedBy(key)
           limit == ScanFactor * (l.size + 1)
           scanned == Take(rest, limit)
           first == [i \in DOMAIN scanned |-> scanned[i][1]]
           places == {i \in DOMAIN scanned : \A j \in 1..(i - 1) : scanned[j][1] # scanned[i][1]}
           learners == Picked(first, places)
           items == Take(learners, l.size)
           token == IF Len(learners) >= l.size /\ Len(scanned) = limit THEN scanned[limit] ELSE NoToken
           page == PageOf(l)
<1>1. page = [items |-> items, token |-> token] /\ ~Refused(l)
  BY DEF PageOf, DynamoRoster, Versions, Refused, ChecksTokens
<1>2. page.items = items /\ page.token = token
  BY <1>1
<1> HIDE DEF page
<1>3. limit \in Nat \ {0} /\ l.size \in Nat \ {0}
  <2>1. l.size \in Nat \ {0} /\ ScanFactor \in Nat \ {0}
    BY ListingsAssumption DEF ListingRows
  <2>2. \A a, b \in Nat \ {0} : a * (b + 1) \in Nat \ {0}
    OBVIOUS
  <2> QED
    BY <2>1, <2>2
<1> HIDE DEF limit
<1>4. IsFiniteSet(Versions) /\ Versions \subseteq Nat \X Nat
  <2>1. \A k \in Learners : k \in Nat /\ DOMAIN states[k] \subseteq Nat
    <3> SUFFICES ASSUME NEW k \in Learners PROVE k \in Nat /\ DOMAIN states[k] \subseteq Nat
      OBVIOUS
    <3>1. states[k] \in Seq(Times)
      BY DEF TablesSound, TablesTypeOK
    <3> QED
      BY <3>1, TablesAssumption
  <2> QED
    BY <2>1 DEF TablesSound, Versions
<1>5. K \subseteq Nat \X Nat /\ IsFiniteSet(K)
  BY <1>4, FS_Subset
<1> HIDE DEF K
<1>6. Keyed(K, key)
  BY <1>5 DEF Keyed
<1> HIDE DEF key
<1>7. rest \in Seq(K)
  BY <1>6, SortedRows
<1> HIDE DEF rest
<1>8. scanned \in Seq(K)
  BY <1>3, <1>7, Taken
<1> HIDE DEF scanned
<1>9. DOMAIN scanned = 1..Len(scanned) /\ Len(scanned) \in Nat /\ \A i \in DOMAIN scanned : scanned[i] \in Nat \X Nat
  <2>1. \A i \in DOMAIN scanned : scanned[i] \in K
    BY <1>8
  <2> QED
    BY <1>5, <1>8, <2>1
<1>10. first \in Seq(Nat) /\ DOMAIN first = DOMAIN scanned
  <2>1. first \in [1..Len(scanned) -> Nat]
    BY <1>9
  <2> QED
    BY <1>9, <2>1
<1>11. places \in SUBSET DOMAIN first
  BY <1>10
<1> HIDE DEF first, places
<1>12. learners \in Seq(Nat)
  BY <1>10, <1>11, PickedOnce
<1> HIDE DEF learners
<1>13. items \in Seq(Nat)
  BY <1>3, <1>12, Taken
<1>14. token \in Nat \X Nat
  <2>1. Len(scanned) = limit => limit \in DOMAIN scanned
    BY <1>3, <1>9
  <2> QED
    BY <1>9, <2>1 DEF NoToken
<1> HIDE DEF items, token
<1> QED
  BY <1>1, <1>2, <1>13, <1>14, AfterAnswerFields DEF page

\* Whatever its kind, the next page goes on from where the last one ended.
LEMMA NextPageFollows ==
    ASSUME TablesSound, NEW l \in ListingRows, l.status = "more", PagesFollow(l)
    PROVE  AfterAnswer(l) \in ListingRows /\ SameRequest(l, AfterAnswer(l)) /\ PagesFollow(AfterAnswer(l))
<1> DEFINE m == AfterAnswer(l)
<1>1. l.kind \in {"signals", "decisions", "ingestion", "trajectory", "roster"}
  BY ListingsAssumption DEF ListingRows
<1>2. SameRequest(l, m) => m.kind = l.kind
  BY DEF SameRequest
<1> HIDE DEF m
<1>3. CASE l.kind = "trajectory"
  <2>1. VersionsRead(l)
    BY <1>3 DEF PagesFollow
  <2>2. m \in ListingRows /\ SameRequest(l, m) /\ VersionsRead(m)
    BY <1>3, <2>1, VersionsPage DEF m
  <2> QED
    BY <1>2, <1>3, <2>2 DEF PagesFollow, m
<1>4. CASE l.kind \in {"signals", "decisions"} /\ store = "sqlite"
  <2>1. RowsRead(l)
    BY <1>4 DEF PagesFollow
  <2>2. m \in ListingRows /\ SameRequest(l, m) /\ RowsRead(m)
    BY <1>4, <2>1, RowsPage DEF m
  <2> QED
    BY <1>2, <1>4, <2>2 DEF PagesFollow, m
<1>5. CASE l.kind \in {"signals", "decisions"} /\ store # "sqlite"
  <2>1. OneRead(l)
    BY <1>5 DEF PagesFollow
  <2>2. m \in ListingRows /\ SameRequest(l, m) /\ OneRead(m)
    BY <1>5, <2>1, OnePage DEF m
  <2> QED
    BY <1>2, <1>5, <2>2 DEF PagesFollow, m
<1>6. CASE l.kind = "ingestion" /\ store = "sqlite"
  <2>1. EntriesRead(l)
    BY <1>6 DEF PagesFollow
  <2>2. m \in ListingRows /\ SameRequest(l, m) /\ EntriesRead(m)
    BY <1>6, <2>1, EntriesPage DEF m
  <2> QED
    BY <1>2, <1>6, <2>2 DEF PagesFollow, m
<1>7. CASE l.kind = "ingestion" /\ store # "sqlite"
  <2>1. KeysRead(l)
    BY <1>7 DEF PagesFollow
  <2>2. m \in ListingRows /\ SameRequest(l, m) /\ KeysRead(m)
    BY <1>7, <2>1, KeysPage DEF m
  <2> QED
    BY <1>2, <1>7, <2>2 DEF PagesFollow, m
<1>8. CASE l.kind = "roster" /\ store = "sqlite"
  <2>1. LearnersRead(l)
    BY <1>8 DEF PagesFollow
  <2>2. m \in ListingRows /\ SameRequest(l, m) /\ LearnersRead(m)
    BY <1>8, <2>1, LearnersPage DEF m
  <2> QED
    BY <1>2, <1>8, <2>2 DEF PagesFollow, m
<1>9. CASE l.kind = "roster" /\ store # "sqlite"
  <2>1. m \in ListingRows /\ SameRequest(l, m)
    BY <1>9, ScannedPage DEF m
  <2> QED
    BY <1>2, <1>9, <2>1 DEF PagesFollow, m
<1> QED
  BY <1>1, <1>3, <1>4, <1>5, <1>6, <1>7, <1>8, <1>9

--------------------------------------------------------------------------------
\* What one step of the pipelines adds to the tables.
Entry == [signal : Signals, outcome : Outcomes, at : Times]
Appended(s, t, E) == t = s \/ \E e \in E : t = Append(s, e)
Adding ==
  /\ store' = store /\ now' \in Times /\ now <= now'
  /\ Appended(signals, signals', [signal : Signals, at : {now}])
  /\ Appended(decisions, decisions', [signal : Signals, at : {now}])
  /\ Appended(outcomes, outcomes', Entry)
  /\ states' = states \/ \E k \in Learners : states' = [states EXCEPT ![k] = Append(@, now)]
  /\ received' \in [Signals -> 0..MaxTime]
  /\ request' \in [Requests -> {Idle} \cup Accepted]
  /\ \A r \in Requests : request'[r].stage = "deciding" => received'[request'[r].signal] # 0

LEMMA TablesAdd ==
    ASSUME TablesSound, TablesNext
    PROVE  Adding
<1>1. /\ now \in Times /\ received \in [Signals -> 0..MaxTime] /\ request \in [Requests -> {Idle} \cup Accepted]
      /\ \A r \in Requests : request[r].stage = "deciding" => received[request[r].signal] # 0
  BY DEF TablesSound, TablesTypeOK, Accepted
<1>2. /\ \A t \in Times : t \in Nat /\ t \in 0..MaxTime /\ t # 0
      /\ \A t \in 0..MaxTime : t # 0 => t \in Times
  BY TablesAssumption DEF Times
<1>3. CASE Tick
  <2>1. now' \in Times /\ now <= now'
    BY <1>1, <1>3, TablesAssumption DEF Tick, Times
  <2> QED
    BY <1>1, <1>3, <2>1 DEF Tick, tables, Adding, Appended
<1>4. ASSUME NEW r \in Requests, NEW s \in Signals, Arrive(r, s) PROVE Adding
  <2>1. [stage |-> "normalizing", signal |-> s, at |-> now] \in Accepted
    BY <1>1 DEF Accepted
  <2>2. /\ request' = [request EXCEPT ![r] = [stage |-> "normalizing", signal |-> s, at |-> now]]
        /\ UNCHANGED <<store, now, received, signals, decisions, states, outcomes>>
    BY <1>4 DEF Arrive, tables
  <2>3. request' \in [Requests -> {Idle} \cup Accepted]
    BY <1>1, <2>1, <2>2
  <2>4. \A q \in Requests : request'[q].stage = "deciding" => received'[request'[q].signal] # 0
    BY <1>1, <2>2
  <2>5. now <= now' /\ now' \in Times
    BY <1>1, <1>2, <2>2
  <2> QED
    BY <1>1, <2>2, <2>3, <2>4, <2>5 DEF Adding, Appended
<1>5. ASSUME NEW r \in Requests, request[r].stage \in {"normalizing", "deciding"}
      PROVE  request[r] \in Accepted /\ request[r].signal \in Signals /\ request[r].at \in Times
  <2>1. request[r] \in {Idle} \cup Accepted
    BY <1>1
  <2>2. request[r] \in Accepted
    BY <1>5, <2>1 DEF Idle
  <2> QED
    BY <2>2 DEF Accepted
<1>6. ASSUME NEW r \in Requests, NEW stage \in {"deciding", "done"}, request[r] \in Accepted,
             request' = [request EXCEPT ![r].stage = stage],
             stage = "deciding" => received'[request[r].signal] # 0,
             received' \in [Signals -> 0..MaxTime], \A s \in Signals : received[s] # 0 => received'[s] # 0
      PROVE  /\ request' \in [Requests -> {Idle} \cup Accepted]
             /\ \A q \in Requests : request'[q].stage = "deciding" => received'[request'[q].signal] # 0
  <2> DEFINE new == [request[r] EXCEPT !.stage = stage]
  <2>1. new \in Accepted /\ new.stage = stage /\ new.signal = request[r].signal
    BY <1>6 DEF Accepted
  <2>2. request' = [request EXCEPT ![r] = new]
    BY <1>6
  <2> HIDE DEF new
  <2>3. request' \in [Requests -> {Idle} \cup Accepted]
    BY <1>1, <2>1, <2>2
  <2>4. request'[r] = new /\ \A q \in Requests : q # r => request'[q] = request[q]
    BY <1>1, <2>2
  <2>5. ASSUME NEW q \in Requests, request'[q].stage = "deciding" PROVE received'[request'[q].signal] # 0
    <3>1. CASE q = r
      BY <1>6, <2>1, <2>4, <2>5, <3>1
    <3>2. CASE q # r
      <4>1. request[q].stage = "deciding" /\ request'[q] = request[q]
        BY <2>4, <2>5, <3>2
      <4>2. request[q].signal \in Signals /\ received[request[q].signal] # 0
        BY <1>1, <1>5, <4>1
      <4> QED
        BY <1>6, <4>1, <4>2
    <3> QED
      BY <3>1, <3>2
  <2> QED
    BY <2>3, <2>5
<1>7. ASSUME NEW r \in Requests, Reject(r) \/ Duplicate(r) \/ Decide(r) PROVE Adding
  <2> DEFINE s == request[r].signal
  <2>1. /\ request[r].stage \in {"normalizing", "deciding"} /\ request' = [request EXCEPT ![r].stage = "done"]
        /\ UNCHANGED <<store, now, received, signals, states>>
    BY <1>7 DEF Reject, Duplicate, Decide, Finish
  <2>2. request[r] \in Accepted /\ s \in Signals /\ request[r].at \in Times
    BY <1>5, <2>1
  <2>3. received[s] \in 0..MaxTime /\ (request[r].stage = "deciding" => received[s] # 0)
    BY <1>1, <2>2
  <2> HIDE DEF s
  <2>4. \/ LogOutcome(s, "rejected", request[r].at)
        \/ LogOutcome(s, "duplicate", received[s]) /\ received[s] # 0
        \/ LogOutcome(s, "accepted", received[s]) /\ received[s] # 0
    BY <1>7, <2>3 DEF Reject, Duplicate, Decide, s
  <2>5. \E o \in Outcomes, at \in Times : LogOutcome(s, o, at)
    BY <1>2, <2>2, <2>3, <2>4 DEF Outcomes
  <2>6. Appended(outcomes, outcomes', Entry)
    <3>1. PICK o \in Outcomes, at \in Times : LogOutcome(s, o, at)
      BY <2>5
    <3>2. [signal |-> s, outcome |-> o, at |-> at] \in Entry
      BY <2>2 DEF Entry
    <3> QED
      BY <3>1, <3>2 DEF Appended, LogOutcome
  <2>7. Appended(decisions, decisions', [signal : Signals, at : {now}])
    <3>1. decisions' = decisions \/ decisions' = Append(decisions, [signal |-> s, at |-> now])
      BY <1>7 DEF Reject, Duplicate, Decide, s
    <3>2. [signal |-> s, at |-> now] \in [signal : Signals, at : {now}]
      BY <2>2
    <3> QED
      BY <3>1, <3>2 DEF Appended
  <2>8. /\ request' \in [Requests -> {Idle} \cup Accepted]
        /\ \A q \in Requests : request'[q].stage = "deciding" => received'[request'[q].signal] # 0
    BY <1>1, <1>6, <2>1, <2>2
  <2>9. now <= now' /\ now' \in Times /\ received' \in [Signals -> 0..MaxTime]
    BY <1>1, <1>2, <2>1
  <2> QED
    BY <2>1, <2>6, <2>7, <2>8, <2>9 DEF Adding, Appended
<1>8. ASSUME NEW r \in Requests, Accept(r) PROVE Adding
  <2> DEFINE s == request[r].signal
  <2>1. /\ request[r].stage = "normalizing" /\ received' = [received EXCEPT ![s] = now]
        /\ signals' = Append(signals, [signal |-> s, at |-> now])
        /\ states' = [states EXCEPT ![LearnerOf[s]] = Append(@, now)]
        /\ request' = [request EXCEPT ![r].stage = "deciding"]
        /\ UNCHANGED <<store, now, decisions, outcomes>>
    BY <1>8 DEF Accept
  <2>2. request[r] \in Accepted /\ s \in Signals /\ LearnerOf[s] \in Learners
    BY <1>5, <2>1, TablesAssumption
  <2>3. received' \in [Signals -> 0..MaxTime] /\ received'[s] # 0 /\ \A q \in Signals : received[q] # 0 => received'[q] # 0
    <3>1. now \in 0..MaxTime /\ now # 0
      BY <1>1, <1>2
    <3> HIDE DEF s
    <3> QED
      BY <1>1, <2>1, <2>2, <3>1
  <2>4. /\ request' \in [Requests -> {Idle} \cup Accepted]
        /\ \A q \in Requests : request'[q].stage = "deciding" => received'[request'[q].signal] # 0
    BY <1>6, <2>1, <2>2, <2>3
  <2> HIDE DEF s
  <2>5. [signal |-> s, at |-> now] \in [signal : Signals, at : {now}]
    BY <2>2
  <2>6. now <= now' /\ now' \in Times
    BY <1>1, <1>2, <2>1
  <2> QED
    BY <2>1, <2>2, <2>3, <2>4, <2>5, <2>6 DEF Adding, Appended
<1> QED
  BY <1>3, <1>4, <1>7, <1>8 DEF TablesNext

Longer(s, t) == Len(s) <= Len(t) /\ DOMAIN s = 1..Len(s) /\ DOMAIN t = 1..Len(t) /\ Len(s) \in Nat /\ Len(t) \in Nat
                /\ \A i \in DOMAIN s : i \in DOMAIN t /\ t[i] = s[i]
LEMMA AppendedRows ==
    ASSUME NEW S, NEW s \in Seq(S), NEW E \in SUBSET S, NEW t, Appended(s, t, E)
    PROVE  /\ t \in Seq(S) /\ Longer(s, t)
           /\ \A i \in DOMAIN t : (i \in DOMAIN s /\ t[i] = s[i]) \/ (i = Len(s) + 1 /\ t[i] \in E)
<1>1. CASE t = s
  BY <1>1 DEF Longer
<1>2. ASSUME NEW e \in E, t = Append(s, e)
      PROVE  /\ t \in Seq(S) /\ Longer(s, t)
             /\ \A i \in DOMAIN t : (i \in DOMAIN s /\ t[i] = s[i]) \/ (i = Len(s) + 1 /\ t[i] \in E)
  <2>1. Append(s, e) \in Seq(S) /\ Len(Append(s, e)) = Len(s) + 1 /\ Append(s, e)[Len(s) + 1] = e
        /\ \A i \in 1..Len(s) : Append(s, e)[i] = s[i]
    OBVIOUS
  <2>2. Len(s) \in Nat /\ DOMAIN s = 1..Len(s) /\ DOMAIN t = 1..(Len(s) + 1)
    BY <1>2, <2>1
  <2> QED
    BY <1>2, <2>1, <2>2 DEF Longer
<1> QED
  BY <1>1, <1>2 DEF Appended

\* A log whose rows are dated when they are inserted stays in the order of its times.
LEMMA LogStaysDated ==
    ASSUME NEW s \in Seq(Row), NEW t, NEW n \in Times, NEW m \in Times, n <= m, InTimeOrder(s),
           \A i \in DOMAIN s : s[i].at <= n, Appended(s, t, [signal : Signals, at : {n}])
    PROVE  t \in Seq(Row) /\ Longer(s, t) /\ InTimeOrder(t) /\ \A i \in DOMAIN t : t[i].at <= m
<1> DEFINE E == [signal : Signals, at : {n}]
<1>1. E \in SUBSET Row /\ \A e \in E : e.at = n
  BY DEF Row
<1>2. \A i \in DOMAIN s : s[i].at \in Nat
  <2>1. \A i \in DOMAIN s : s[i] \in Row
    OBVIOUS
  <2>2. \A r \in Row : r.at \in Nat
    BY TablesAssumption DEF Row, Times
  <2> QED
    BY <2>1, <2>2
<1>3. n \in Nat /\ m \in Nat
  BY TablesAssumption DEF Times
<1> HIDE DEF E
<1>4. /\ t \in Seq(Row) /\ Longer(s, t)
      /\ \A i \in DOMAIN t : (i \in DOMAIN s /\ t[i] = s[i]) \/ (i = Len(s) + 1 /\ t[i] \in E)
  <2>1. Appended(s, t, E)
    BY DEF E
  <2> QED
    BY <1>1, <2>1, AppendedRows
<1>5. \A i \in DOMAIN t : t[i].at \in Nat /\ t[i].at <= n
  BY <1>1, <1>2, <1>3, <1>4
<1>6. ASSUME NEW i \in DOMAIN t, NEW j \in DOMAIN t, i < j PROVE t[i].at <= t[j].at
  <2>1. CASE j \in DOMAIN s /\ t[j] = s[j]
    <3>1. i \in DOMAIN s /\ t[i] = s[i]
      BY <1>4, <1>6, <2>1 DEF Longer
    <3> QED
      BY <1>6, <2>1, <3>1 DEF InTimeOrder
  <2>2. CASE t[j] \in E
    BY <1>1, <1>5, <2>2
  <2> QED
    BY <1>4, <2>1, <2>2
<1> QED
  BY <1>3, <1>4, <1>5, <1>6 DEF InTimeOrder

\* The tables after a step are those before it, and what was added.
Kept ==
  /\ store' = store /\ now \in Times /\ now' \in Times /\ now <= now'
  /\ Longer(signals, signals') /\ Longer(decisions, decisions') /\ Longer(outcomes, outcomes')
  /\ \A k \in Learners : Longer(states[k], states'[k])
       /\ (states'[k] = states[k] \/ (states'[k] # <<>> /\ states'[k][Len(states'[k])] = now))
LEMMA AddingKeeps ==
    ASSUME TablesSound, Adding
    PROVE  TablesSound' /\ Kept
<1>1. store' = store /\ store \in Deployments /\ now \in Times /\ now' \in Times /\ now <= now'
  BY DEF TablesSound, TablesTypeOK, Adding
<1>2. /\ signals' \in Seq(Row) /\ Longer(signals, signals')
      /\ InTimeOrder(signals') /\ \A i \in DOMAIN signals' : signals'[i].at <= now'
  BY <1>1, LogStaysDated DEF TablesSound, TablesTypeOK, Adding
<1>3. decisions' \in Seq(Row) /\ Longer(decisions, decisions') /\ InTimeOrder(decisions')
      /\ \A i \in DOMAIN decisions' : decisions'[i].at <= now'
  BY <1>1, LogStaysDated DEF TablesSound, TablesTypeOK, Adding
<1>4. outcomes' \in Seq(Entry) /\ Longer(outcomes, outcomes')
  <2>1. outcomes \in Seq(Entry) /\ Appended(outcomes, outcomes', Entry)
    BY DEF TablesSound, TablesTypeOK, Adding, Entry
  <2> QED
    BY <2>1, AppendedRows
<1>5. states \in [Learners -> Seq(Times)] /\ IsFiniteSet(Versions)
      /\ \A k \in Learners : \A v \in DOMAIN states[k] : states[k][v] <= now
  BY DEF TablesSound, TablesTypeOK
<1>6. /\ states' \in [Learners -> Seq(Times)] /\ IsFiniteSet(Versions')
      /\ \A k \in Learners : Longer(states[k], states'[k])
           /\ (states'[k] = states[k] \/ (states'[k] # <<>> /\ states'[k][Len(states'[k])] = now))
           /\ \A v \in DOMAIN states'[k] : states'[k][v] <= now'
  <2>1. CASE states' = states
    <3>1. Versions' = Versions
      BY <2>1 DEF Versions
    <3>2. ASSUME NEW k \in Learners
          PROVE  Longer(states[k], states'[k]) /\ \A v \in DOMAIN states'[k] : states'[k][v] <= now'
      <4>1. PICK s \in Seq(Times) : s = states[k]
        BY <1>5
      <4>2. Longer(s, s) /\ \A v \in DOMAIN s : s[v] \in Nat
        BY TablesAssumption DEF Longer, Times
      <4> QED
        BY <1>1, <1>5, <2>1, <4>1, <4>2, TablesAssumption DEF Times
    <3> QED
      BY <1>5, <2>1, <3>1, <3>2
  <2>2. ASSUME NEW l \in Learners, states' = [states EXCEPT ![l] = Append(@, now)]
        PROVE  /\ states' \in [Learners -> Seq(Times)] /\ IsFiniteSet(Versions')
               /\ \A k \in Learners : Longer(states[k], states'[k])
                    /\ (states'[k] = states[k] \/ (states'[k] # <<>> /\ states'[k][Len(states'[k])] = now))
                    /\ \A v \in DOMAIN states'[k] : states'[k][v] <= now'
    <3>1. PICK s \in Seq(Times), t \in Times : s = states[l] /\ t = now
      BY <1>1, <1>5
    <3>2. states' = [states EXCEPT ![l] = Append(s, t)]
      BY <2>2, <3>1
    <3>3. /\ Append(s, t) \in Seq(Times) /\ Len(Append(s, t)) = Len(s) + 1 /\ Append(s, t)[Len(s) + 1] = t
          /\ DOMAIN Append(s, t) = 1..(Len(s) + 1) /\ DOMAIN s = 1..Len(s) /\ Len(s) \in Nat
          /\ \A i \in 1..Len(s) : Append(s, t)[i] = s[i]
      OBVIOUS
    <3>4. /\ states' \in [Learners -> Seq(Times)] /\ states'[l] = Append(s, t)
          /\ \A k \in Learners : k # l => states'[k] = states[k]
      BY <1>5, <3>2, <3>3
    <3>5. Versions' \subseteq Versions \cup {<<l, Len(s) + 1>>}
      <4> SUFFICES ASSUME NEW k \in Learners, NEW v \in DOMAIN states'[k]
                   PROVE  <<k, v>> \in Versions \cup {<<l, Len(s) + 1>>}
        BY DEF Versions
      <4>1. CASE k = l
        <5>1. v \in 1..Len(s) \/ v = Len(s) + 1
          BY <3>3, <3>4, <4>1
        <5>2. v \in 1..Len(s) => v \in DOMAIN states[k]
          BY <3>1, <3>3, <4>1
        <5> QED
          BY <4>1, <5>1, <5>2 DEF Versions
      <4>2. CASE k # l
        BY <3>4, <4>2 DEF Versions
      <4> QED
        BY <4>1, <4>2
    <3>6. IsFiniteSet(Versions \cup {<<l, Len(s) + 1>>})
      BY <1>5, FS_AddElement
    <3>7. IsFiniteSet(Versions')
      BY <3>5, <3>6, FS_Subset
    <3>8. ASSUME NEW k \in Learners
          PROVE  /\ Longer(states[k], states'[k])
                 /\ states'[k] = states[k] \/ (states'[k] # <<>> /\ states'[k][Len(states'[k])] = now)
                 /\ \A v \in DOMAIN states'[k] : states'[k][v] <= now'
      <4>1. CASE k = l
        <5>1. Longer(s, Append(s, t)) /\ Append(s, t) # <<>> /\ Append(s, t)[Len(Append(s, t))] = t
          BY <3>3 DEF Longer
        <5>2. \A v \in DOMAIN s : s[v] <= t /\ s[v] \in Times
          BY <1>5, <3>1
        <5>3. t \in Nat /\ now' \in Nat /\ t <= now' /\ \A x \in Times : x \in Nat
          BY <1>1, <3>1, TablesAssumption DEF Times
        <5>4. \A v \in DOMAIN Append(s, t) : Append(s, t)[v] <= now'
          <6> SUFFICES ASSUME NEW v \in 1..(Len(s) + 1) PROVE Append(s, t)[v] <= now'
            BY <3>3
          <6>1. v \in 1..Len(s) \/ v = Len(s) + 1
            BY <3>3
          <6>2. v \in 1..Len(s) => Append(s, t)[v] <= t /\ Append(s, t)[v] \in Nat
            BY <3>3, <5>2, <5>3
          <6> QED
            BY <3>3, <5>3, <6>1, <6>2
        <5> QED
          BY <3>1, <3>4, <4>1, <5>1, <5>4
      <4>2. CASE k # l
        <5>1. PICK u \in Seq(Times) : u = states[k]
          BY <1>5
        <5>2. states'[k] = u
          BY <3>4, <4>2, <5>1
        <5>3. Longer(u, u) /\ \A v \in DOMAIN u : u[v] \in Nat /\ u[v] <= now
          <6>1. \A v \in DOMAIN u : u[v] \in Nat
            BY TablesAssumption DEF Times
          <6>2. Longer(u, u)
            BY DEF Longer
          <6> QED
            BY <1>5, <5>1, <6>1, <6>2
        <5>4. now \in Nat /\ now' \in Nat
          BY <1>1, TablesAssumption DEF Times
        <5> QED
          BY <1>1, <5>1, <5>2, <5>3, <5>4
      <4> QED
        BY <4>1, <4>2
    <3> QED
      BY <3>4, <3>7, <3>8
  <2> QED
    BY <2>1, <2>2 DEF Adding
<1>7. TablesTypeOK'
  BY <1>1, <1>2, <1>3, <1>4, <1>6 DEF TablesTypeOK, Adding, Entry, Accepted
<1>8. TablesSound'
  BY <1>2, <1>3, <1>6, <1>7 DEF TablesSound, Adding
<1> QED
  BY <1>1, <1>2, <1>3, <1>4, <1>6, <1>8 DEF Kept

\* What a listing may see grows with the tables, except that DynamoDB's ingestion log replaces entries.
LEMMA RowsGrow ==
    ASSUME Kept, NEW l \in ListingRows, l.kind # "ingestion" \/ store = "sqlite"
    PROVE  /\ RowsOf(l) \subseteq RowsOf(l)'
           /\ l.kind \in {"signals", "decisions"} =>
                \A i \in RowsOf(l)' : i \in Nat /\ (i <= Len(LogOf(l.kind)) => i \in RowsOf(l))
           /\ l.kind = "roster" => RowsOf(l) \subseteq Learners
<1>1. l.learner \in Learners /\ l.kind \in {"signals", "decisions", "ingestion", "trajectory", "roster"}
  BY ListingsAssumption DEF ListingRows
<1>2. CASE l.kind = "signals"
  <2>1. RowsOf(l) = {i \in DOMAIN signals : LearnerOf[signals[i].signal] = l.learner /\ signals[i].at <= l.until}
    BY <1>2 DEF RowsOf
  <2>2. RowsOf(l)' = {i \in DOMAIN signals' : LearnerOf[signals'[i].signal] = l.learner /\ signals'[i].at <= l.until}
    BY <1>2 DEF RowsOf
  <2>3. Longer(signals, signals') /\ LogOf(l.kind) = signals
    BY <1>2 DEF Kept, LogOf
  <2> QED
    BY <1>2, <2>1, <2>2, <2>3 DEF Longer
<1>3. CASE l.kind = "decisions"
  <2>1. RowsOf(l) = {i \in DOMAIN decisions : LearnerOf[decisions[i].signal] = l.learner /\ decisions[i].at <= l.until}
    BY <1>3 DEF RowsOf
  <2>2. RowsOf(l)' = {i \in DOMAIN decisions' : LearnerOf[decisions'[i].signal] = l.learner /\ decisions'[i].at <= l.until}
    BY <1>3 DEF RowsOf
  <2>3. Longer(decisions, decisions') /\ LogOf(l.kind) = decisions
    BY <1>3 DEF Kept, LogOf
  <2> QED
    BY <1>3, <2>1, <2>2, <2>3 DEF Longer
<1>4. CASE l.kind = "ingestion" /\ store = "sqlite"
  <2>1. RowsOf(l) = {i \in DOMAIN outcomes : l.outcome \in {"any", outcomes[i].outcome}}
    BY <1>4 DEF RowsOf, KeptOutcomes, Replaced
  <2>2. RowsOf(l)' = {i \in DOMAIN outcomes' : l.outcome \in {"any", outcomes'[i].outcome}}
    BY <1>4 DEF RowsOf, KeptOutcomes, Replaced, Kept
  <2>3. Longer(outcomes, outcomes')
    BY DEF Kept
  <2> QED
    BY <1>4, <2>1, <2>2, <2>3 DEF Longer
<1>5. CASE l.kind = "trajectory"
  BY <1>1, <1>5 DEF RowsOf, Kept, Longer
<1>6. CASE l.kind = "roster"
  <2>1. RowsOf(l) = {k \in Learners : states[k] # <<>>} /\ RowsOf(l)' = {k \in Learners : states'[k] # <<>>}
    BY <1>6 DEF RowsOf
  <2>2. \A k \in Learners : states'[k] = states[k] \/ states'[k] # <<>>
    BY DEF Kept
  <2> QED
    BY <1>6, <2>1, <2>2
<1> QED
  BY <1>1, <1>2, <1>3, <1>4, <1>5, <1>6

LEMMA RowsKept ==
    ASSUME Kept, NEW l \in ListingRows, l.status = "more", l.kind \in {"signals", "decisions"}, RowsRead(l)
    PROVE  RowsRead(l)'
<1> DEFINE R == RowsOf(l)
           t == l.token[1]
           n == Len(LogOf(l.kind))
<1>1. Ascending(l.seen) /\ ToSet(l.seen) = {i \in R : i <= t} /\ l.before \subseteq R /\ l.token[2] = 0 /\ t \in 0..n
  BY DEF RowsRead
<1>2. R \subseteq R' /\ \A i \in R' : i \in Nat /\ (i <= n => i \in R)
  BY RowsGrow
<1>3. n \in Nat /\ n <= n' /\ n' \in Nat
  BY DEF Kept, Longer, LogOf
<1>4. t \in Nat /\ t \in 0..n'
  BY <1>1, <1>3
<1> HIDE DEF R, t, n
<1>5. ToSet(l.seen) = {i \in R' : i <= t}
  BY <1>1, <1>2, <1>3, <1>4
<1>6. ToSet(l.seen) \subseteq R' /\ l.before \subseteq R'
  BY <1>1, <1>2, <1>5
<1> QED
  BY <1>1, <1>4, <1>5, <1>6 DEF RowsRead, R, t, n

LEMMA EntriesKept ==
    ASSUME Kept, NEW l \in ListingRows, l.status = "more", l.kind = "ingestion", store = "sqlite", EntriesRead(l)
    PROVE  EntriesRead(l)'
<1>1. RowsOf(l) \subseteq RowsOf(l)'
  BY RowsGrow
<1>2. Longer(outcomes, outcomes')
  BY DEF Kept
<1>3. InTimeOrder(outcomes') => InTimeOrder(outcomes)
  BY <1>2 DEF InTimeOrder, Longer
<1>4. \A x \in 0..Len(outcomes) : x \in 0..Len(outcomes')
  BY <1>2 DEF Longer
<1> QED
  BY <1>1, <1>3, <1>4 DEF EntriesRead

LEMMA LearnersKept ==
    ASSUME TablesSound, TablesSound', Kept, NEW l \in ListingRows, l.status = "more", l.kind = "roster", LearnersRead(l)
    PROVE  LearnersRead(l)'
<1> DEFINE R == RowsOf(l)
           tok == <<MaxTime - l.token[1], l.token[2]>>
<1>1. /\ Distinct(l.seen) /\ ToSet(l.seen) \cup l.before \subseteq R /\ l.until <= now /\ l.token[1] <= MaxTime
      /\ \A k \in ToSet(l.seen) : PassedLearner(l, k)
      /\ \A k \in l.before \ ToSet(l.seen) : ~PassedLearner(l, k) \/ UpdatedAt(k) >= l.until
  BY DEF LearnersRead
<1>2. R \subseteq R' /\ R \subseteq Learners /\ R = {k \in Learners : states[k] # <<>>}
  BY RowsGrow DEF RowsOf
<1>3. \A k \in R : UpdatedAt(k) \in Times /\ UpdatedAt(k) <= now
  BY <1>2, RosterFinite
<1>4. \A k \in R : UpdatedAt(k)' = UpdatedAt(k) \/ UpdatedAt(k)' = now
  BY <1>2 DEF Kept, UpdatedAt
<1>5. /\ now \in Nat /\ now' \in Nat /\ now <= now' /\ l.until \in Nat /\ MaxTime \in Nat /\ l.token \in Nat \X Nat
      /\ \A x \in Times : x \in Nat /\ x <= MaxTime
  BY TablesAssumption DEF Kept, Times, ListingRows
<1>6. now <= MaxTime
  BY <1>5 DEF Kept
<1>7. tok \in Nat \X Nat
  <2>1. l.token[1] \in Nat /\ l.token[2] \in Nat
    BY <1>5
  <2> QED
    BY <1>1, <1>5, <2>1
<1> HIDE DEF R
<1>8. ASSUME NEW k \in R PROVE /\ PassedLearner(l, k) => PassedLearner(l, k)'
                               /\ PassedLearner(l, k)' => PassedLearner(l, k) \/ UpdatedAt(k)' >= l.until
                               /\ UpdatedAt(k)' >= UpdatedAt(k)
  <2>1. PICK a \in Nat, b \in Nat : a = UpdatedAt(k) /\ b = UpdatedAt(k)' /\ a <= b /\ (b = a \/ b >= l.until) /\ b <= MaxTime
    BY <1>1, <1>3, <1>4, <1>5, <1>6
  <2>2. k \in Nat
    BY <1>2, TablesAssumption
  <2>3. /\ PassedLearner(l, k) <=> l.token # NoToken /\ ~LexLess(tok, <<MaxTime - a, k>>)
        /\ PassedLearner(l, k)' <=> l.token # NoToken /\ ~LexLess(tok, <<MaxTime - b, k>>)
    BY <2>1 DEF PassedLearner, RosterKey
  <2>4. LexLess(tok, <<MaxTime - b, k>>) => LexLess(tok, <<MaxTime - a, k>>)
    <3>1. PICK p \in Nat, q \in Nat : tok = <<p, q>>
      BY <1>7
    <3>2. MaxTime - b <= MaxTime - a /\ MaxTime - b \in Nat /\ MaxTime - a \in Nat
      BY <1>5, <2>1
    <3>3. LexLess(<<p, q>>, <<MaxTime - b, k>>) => LexLess(<<p, q>>, <<MaxTime - a, k>>)
      BY <2>2, <3>2 DEF LexLess
    <3> QED
      BY <3>1, <3>3
  <2>5. PassedLearner(l, k) => PassedLearner(l, k)'
    BY <2>3, <2>4
  <2>6. PassedLearner(l, k)' => PassedLearner(l, k) \/ b >= l.until
    BY <2>1, <2>3
  <2> QED
    BY <2>1, <2>5, <2>6
<1>9. \A k \in ToSet(l.seen) : PassedLearner(l, k)'
  BY <1>1, <1>8
<1>10. ASSUME NEW k \in l.before \ ToSet(l.seen) PROVE ~PassedLearner(l, k)' \/ UpdatedAt(k)' >= l.until
  <2>1. k \in R /\ (~PassedLearner(l, k) \/ UpdatedAt(k) >= l.until)
    BY <1>1
  <2>2. UpdatedAt(k) >= l.until => UpdatedAt(k)' >= l.until
    <3>1. PICK a \in Nat, b \in Nat : a = UpdatedAt(k) /\ b = UpdatedAt(k)'
      BY <1>3, <1>4, <1>5, <2>1
    <3>2. b >= a
      BY <1>8, <2>1, <3>1
    <3>3. a >= l.until => b >= l.until
      BY <1>5, <3>2
    <3> QED
      BY <3>1, <3>3
  <2> QED
    BY <1>8, <2>1, <2>2
<1>11. ToSet(l.seen) \cup l.before \subseteq R' /\ l.until <= now'
  BY <1>1, <1>2, <1>5
<1> QED
  BY <1>1, <1>9, <1>10, <1>11 DEF LearnersRead, R

LEMMA KeysKept ==
    ASSUME Kept, NEW l \in ListingRows, l.status = "more", KeysRead(l)
    PROVE  KeysRead(l)'
<1>1. \A i \in DOMAIN outcomes : i \in DOMAIN outcomes' /\ OutcomeKey(i)' = OutcomeKey(i)
  BY DEF Kept, Longer, OutcomeKey
<1>2. ToSet(l.seen) \subseteq DOMAIN outcomes /\ l.before \subseteq DOMAIN outcomes
  BY DEF KeysRead
<1>3. \A i \in DOMAIN outcomes : PassedOutcome(l, i)' <=> PassedOutcome(l, i)
  BY <1>1 DEF PassedOutcome
<1>4. ASSUME NEW S \in SUBSET DOMAIN outcomes PROVE KeysOf(S)' = KeysOf(S)
  BY <1>1 DEF KeysOf
<1> DEFINE P == {i \in l.before : PassedOutcome(l, i)}
<1>5. P' = P
  BY <1>2, <1>3
<1>6. KeysOf(l.before)' = KeysOf(l.before) /\ KeysOf(ToSet(l.seen))' = KeysOf(ToSet(l.seen)) /\ KeysOf(P)' = KeysOf(P)
  <2>1. P \in SUBSET DOMAIN outcomes /\ ToSet(l.seen) \in SUBSET DOMAIN outcomes /\ l.before \in SUBSET DOMAIN outcomes
    BY <1>2
  <2>2. KeysOf(P)' = {OutcomeKey(i)' : i \in P'}
    BY DEF KeysOf
  <2>3. KeysOf(P) = {OutcomeKey(i) : i \in P}
    BY DEF KeysOf
  <2> HIDE DEF P
  <2>4. KeysOf(P)' = KeysOf(P)
    BY <1>1, <1>5, <2>1, <2>2, <2>3
  <2>5. KeysOf(l.before)' = KeysOf(l.before) /\ KeysOf(ToSet(l.seen))' = KeysOf(ToSet(l.seen))
    BY <1>1, <2>1 DEF KeysOf
  <2> QED
    BY <2>4, <2>5
<1>7. \A i \in ToSet(l.seen) : PassedOutcome(l, i)'
  BY <1>2, <1>3 DEF KeysRead
<1>8. ToSet(l.seen) \cup l.before \subseteq DOMAIN outcomes'
  BY <1>1, <1>2
<1> HIDE DEF P
<1> QED
  BY <1>6, <1>7, <1>8 DEF KeysRead, P

\* A step of the pipelines leaves a listing that has pages to come where it is.
LEMMA PagesKept ==
    ASSUME TablesSound, TablesSound', Kept, NEW l \in ListingRows, l.status = "more", PagesFollow(l)
    PROVE  PagesFollow(l)'
<1>1. l.learner \in Learners /\ l.kind \in {"signals", "decisions", "ingestion", "trajectory", "roster"}
  BY ListingsAssumption DEF ListingRows
<1>2. store' = store
  BY DEF Kept
<1>3. CASE l.kind = "trajectory"
  <2>1. VersionsRead(l)
    BY <1>3 DEF PagesFollow
  <2>2. DOMAIN states[l.learner] \subseteq DOMAIN states'[l.learner]
    BY <1>1 DEF Kept, Longer
  <2>3. VersionsRead(l)'
    BY <2>1, <2>2 DEF VersionsRead
  <2> QED
    BY <1>3, <2>3 DEF PagesFollow
<1>4. CASE l.kind \in {"signals", "decisions"}
  <2>1. store = "sqlite" => RowsRead(l)'
    BY <1>4, RowsKept DEF PagesFollow
  <2>2. store # "sqlite" => OneRead(l)'
    BY <1>4 DEF PagesFollow, OneRead
  <2> QED
    BY <1>2, <1>4, <2>1, <2>2 DEF PagesFollow
<1>5. CASE l.kind = "ingestion"
  <2>1. store = "sqlite" => EntriesRead(l)'
    BY <1>5, EntriesKept DEF PagesFollow
  <2>2. store # "sqlite" => KeysRead(l)'
    BY <1>5, KeysKept DEF PagesFollow
  <2> QED
    BY <1>2, <1>5, <2>1, <2>2 DEF PagesFollow
<1>6. CASE l.kind = "roster"
  <2>1. store = "sqlite" => LearnersRead(l)'
    BY <1>6, LearnersKept DEF PagesFollow
  <2> QED
    BY <1>2, <1>6, <2>1 DEF PagesFollow
<1> QED
  BY <1>1, <1>3, <1>4, <1>5, <1>6

\* Before its first page nothing of a listing was returned and nothing passed.
LEMMA FirstFollows ==
    ASSUME TablesSound, NEW l \in ListingRows, l.status = "more", l.token = NoToken, l.seen = <<>>, l.pages = 0,
           l.before = RowsOf(l), l.until = now
    PROVE  PagesFollow(l)
<1>1. /\ l.learner \in Learners /\ l.kind \in {"signals", "decisions", "ingestion", "trajectory", "roster"}
      /\ l.token[1] = 0 /\ l.token[2] = 0
  <2>1. NoToken[1] = 0 /\ NoToken[2] = 0
    BY DEF NoToken
  <2> QED
    BY <2>1, ListingsAssumption DEF ListingRows
<1>2. ToSet(l.seen) = {} /\ Distinct(l.seen) /\ Ascending(l.seen) /\ l.seen = [i \in 1..Len(l.seen) |-> i] /\ Len(l.seen) = 0
  BY DEF ToSet, Distinct, Ascending
<1>3. CASE l.kind = "trajectory"
  <2>1. l.before \subseteq DOMAIN states[l.learner]
    BY <1>3 DEF RowsOf
  <2>2. l.token = <<Len(l.seen), 0>>
    BY <1>2 DEF NoToken
  <2>3. VersionsRead(l)
    BY <1>2, <2>1, <2>2 DEF VersionsRead
  <2> QED
    BY <1>3, <2>3 DEF PagesFollow
<1>4. CASE l.kind \in {"signals", "decisions"}
  <2>1. OneRead(l)
    BY <1>2 DEF OneRead
  <2>2. RowsRead(l)
    <3>1. RowsOf(l) \in SUBSET DOMAIN LogOf(l.kind) /\ LogOf(l.kind) \in Seq(Row)
      BY <1>4 DEF RowsOf, LogOf, TablesSound, TablesTypeOK
    <3> DEFINE log == LogOf(l.kind)
               R == RowsOf(l)
    <3> HIDE DEF log, R
    <3>2. R \subseteq 1..Len(log) /\ Len(log) \in Nat
      BY <3>1, LogFinite DEF log, R
    <3>3. {i \in R : i <= 0} = {} /\ 0 \in 0..Len(log)
      <4>1. \A i \in R : ~(i <= 0)
        BY <3>2
      <4>2. {i \in R : i <= 0} = {}
        BY <4>1
      <4>3. 0 \in 0..Len(log)
        BY <3>2
      <4> QED
        BY <4>2, <4>3
    <3> QED
      BY <1>1, <1>2, <3>3 DEF RowsRead, log, R
  <2> QED
    BY <1>4, <2>1, <2>2 DEF PagesFollow
<1>5. CASE l.kind = "ingestion"
  <2>1. RowsOf(l) \subseteq DOMAIN outcomes
    BY <1>5 DEF RowsOf, KeptOutcomes
  <2>2. Len(outcomes) \in Nat
    BY DEF TablesSound, TablesTypeOK
  <2>3. 0 \in 0..Len(outcomes)
    BY <2>2
  <2>4. EntriesRead(l)
    BY <1>1, <1>2, <2>1, <2>3 DEF EntriesRead
  <2>5. KeysRead(l)
    <3>1. ASSUME l.outcome = "any" PROVE IsFiniteSet(KeysOf(l.before))
      <4>1. l.before \in SUBSET DOMAIN outcomes
        BY <2>1
      <4>2. outcomes \in Seq(Entry)
        BY DEF TablesSound, TablesTypeOK, Entry
      <4>3. IsFiniteSet(l.before)
        BY <4>1, <4>2, LogFinite
      <4> DEFINE f == [i \in l.before |-> OutcomeKey(i)]
                 K == KeysOf(l.before)
                 B == l.before
      <4>4. f \in Surjection(B, K)
        BY DEF Surjection, KeysOf
      <4> HIDE DEF f, K, B
      <4>5. IsFiniteSet(K)
        BY <4>3, <4>4, FS_Surjection DEF B
      <4> QED
        BY <4>5 DEF K
    <3>2. Cardinality(KeysOf({i \in l.before : PassedOutcome(l, i)}) \ KeysOf(ToSet(l.seen))) = 0
      <4>1. KeysOf({i \in l.before : PassedOutcome(l, i)}) \ KeysOf(ToSet(l.seen)) = {}
        BY DEF PassedOutcome, KeysOf
      <4> QED
        BY <4>1, FS_EmptySet
    <3>3. Cardinality(KeysOf({i \in l.before : PassedOutcome(l, i)}) \ KeysOf(ToSet(l.seen))) <= l.pages
      BY <3>2
    <3> QED
      BY <1>2, <2>1, <3>1, <3>3 DEF KeysRead
  <2> QED
    BY <1>5, <2>4, <2>5 DEF PagesFollow
<1>6. CASE l.kind = "roster"
  <2>1. now \in Nat /\ MaxTime \in Nat
    BY TablesAssumption DEF TablesSound, TablesTypeOK, Times
  <2>2. LearnersRead(l)
    BY <1>1, <1>2, <2>1, TablesAssumption DEF LearnersRead, PassedLearner
  <2> QED
    BY <1>6, <2>2 DEF PagesFollow
<1> QED
  BY <1>1, <1>3, <1>4, <1>5, <1>6

LEMMA InitListing == Init => ListingInv
<1> SUFFICES ASSUME Init PROVE ListingInv
  OBVIOUS
<1>1. /\ signals = <<>> /\ decisions = <<>> /\ outcomes = <<>> /\ now = 1 /\ store \in Deployments
      /\ states = [l \in Learners |-> <<>>] /\ received = [s \in Signals |-> 0] /\ request = [r \in Requests |-> Idle]
      /\ listing = NoListing
  BY DEF Init, TablesInit
<1>2. 1 \in Times /\ 0 \in 0..MaxTime
  BY TablesAssumption DEF Times
<1>3. TablesTypeOK
  BY <1>1, <1>2 DEF TablesTypeOK
<1>4. IsFiniteSet(Versions)
  <2>1. Versions = {}
    BY <1>1 DEF Versions
  <2> QED
    BY <2>1, FS_EmptySet
<1>5. \A r \in Requests : request[r].stage # "deciding"
  BY <1>1 DEF Idle
<1> QED
  BY <1>1, <1>3, <1>4, <1>5 DEF ListingInv, TablesSound, InTimeOrder

\* A read leaves the tables as they are.
LEMMA SameReading ==
    ASSUME UNCHANGED tableVars
    PROVE  /\ TablesSound' <=> TablesSound
           /\ \A l \in ListingRows : PagesFollow(l)' <=> PagesFollow(l)
<1>1. UNCHANGED <<store, now, received, signals, decisions, states, outcomes, request>>
  BY DEF tableVars, tables
<1>2. TablesSound' <=> TablesSound
  BY <1>1 DEF TablesSound, TablesTypeOK, InTimeOrder, Versions
<1>3. ASSUME NEW l \in ListingRows PROVE PagesFollow(l)' <=> PagesFollow(l)
  <2>1. RowsOf(l)' = RowsOf(l)
    BY <1>1 DEF RowsOf, KeptOutcomes, Replaced, OutcomeKey
  <2>2. \A k : UpdatedAt(k)' = UpdatedAt(k) /\ (PassedLearner(l, k)' <=> PassedLearner(l, k))
    BY <1>1 DEF UpdatedAt, PassedLearner, RosterKey
  <2>3. \A i : OutcomeKey(i)' = OutcomeKey(i) /\ (PassedOutcome(l, i)' <=> PassedOutcome(l, i))
    BY <1>1 DEF OutcomeKey, PassedOutcome
  <2>4. \A S : KeysOf(S)' = KeysOf(S)
    BY <2>3 DEF KeysOf
  <2>5. RowsRead(l)' <=> RowsRead(l)
    BY <1>1, <2>1 DEF RowsRead, LogOf
  <2>6. VersionsRead(l)' <=> VersionsRead(l)
    BY <1>1 DEF VersionsRead
  <2>7. EntriesRead(l)' <=> EntriesRead(l)
    BY <1>1, <2>1 DEF EntriesRead, InTimeOrder
  <2>8. LearnersRead(l)' <=> LearnersRead(l)
    BY <1>1, <2>1, <2>2 DEF LearnersRead
  <2>9. KeysRead(l)' <=> KeysRead(l)
    BY <1>1 DEF KeysRead, KeysOf, PassedOutcome, OutcomeKey
  <2>10. (OneRead(l)' <=> OneRead(l)) /\ store' = store
    BY <1>1 DEF OneRead
  <2>11. l.kind \in {"signals", "decisions", "ingestion", "trajectory", "roster"}
    BY ListingsAssumption DEF ListingRows
  <2>12. CASE l.kind = "trajectory"
    BY <2>6, <2>12 DEF PagesFollow
  <2>13. CASE l.kind \in {"signals", "decisions"}
    BY <2>5, <2>10, <2>13 DEF PagesFollow
  <2>14. CASE l.kind = "ingestion"
    BY <2>7, <2>9, <2>10, <2>14 DEF PagesFollow
  <2>15. CASE l.kind = "roster"
    BY <2>8, <2>10, <2>15 DEF PagesFollow
  <2> QED
    BY <2>11, <2>12, <2>13, <2>14, <2>15
<1> QED
  BY <1>2, <1>3

\* A page of a listing keeps the invariant.
LEMMA ReadKeeps ==
    ASSUME TablesSound, UNCHANGED tableVars, NEW l \in ListingRows, l.status = "more", PagesFollow(l), Read(l)
    PROVE  ListingInv'
<1>1. listing' = AfterAnswer(l)
  BY DEF Read, AfterAnswer
<1>2. PICK m : m = AfterAnswer(l)
  OBVIOUS
<1>3. m \in ListingRows /\ PagesFollow(m)
  BY <1>2, NextPageFollows
<1>4. PagesFollow(m)' /\ TablesSound'
  BY <1>3, SameReading
<1>5. listing' = m
  BY <1>1, <1>2
<1> QED
  BY <1>3, <1>4, <1>5 DEF ListingInv

LEMMA ListingStepKeeps == ListingInv /\ [Next]_vars => ListingInv'
<1> SUFFICES ASSUME ListingInv, [Next]_vars PROVE ListingInv'
  OBVIOUS
<1>1. TablesSound /\ (listing = NoListing \/ (listing \in ListingRows /\ PagesFollow(listing)))
  BY DEF ListingInv
<1>2. PICK l : l = listing
  OBVIOUS
<1>3. l = NoListing \/ (l \in ListingRows /\ PagesFollow(l))
  BY <1>1, <1>2
<1>4. ASSUME listing.status \in {"none", "more"}, TablesNext, UNCHANGED listing PROVE ListingInv'
  <2>1. TablesSound' /\ Kept
    BY <1>1, <1>4, TablesAdd, AddingKeeps
  <2>2. listing' = l /\ (l # NoListing => l.status = "more")
    BY <1>2, <1>3, <1>4 DEF ListingRows
  <2>3. l # NoListing => l \in ListingRows /\ PagesFollow(l)'
    BY <1>1, <1>3, <2>1, <2>2, PagesKept
  <2> QED
    BY <2>1, <2>2, <2>3 DEF ListingInv
<1>5. ASSUME NEW kind \in Kinds, NEW learner \in Learners, NEW size \in PageSizes, NEW outcome \in {"any", "accepted"},
             NEW to \in 0..2, FirstPage(kind, learner, size, outcome, to)
      PROVE  ListingInv'
  <2> DEFINE empty == [status |-> "more", kind |-> kind, learner |-> learner, size |-> size,
                       outcome |-> outcome, to |-> to, until |-> now, token |-> NoToken,
                       seen |-> <<>>, before |-> {}, pages |-> 0]
  <2>1. Read([empty EXCEPT !.before = RowsOf(empty)]) /\ UNCHANGED tableVars
    BY <1>5 DEF FirstPage
  <2>2. now \in Times /\ NoToken \in Nat \X Nat /\ outcome \in Outcomes \cup {"any"} /\ to \in Nat
    BY <1>1 DEF TablesSound, TablesTypeOK, NoToken, Outcomes
  <2>3. <<>> \in Seq(Nat) /\ {} \in SUBSET Nat /\ 0 \in Nat
    OBVIOUS
  <2>4. empty \in ListingRows /\ empty.kind \in {"signals", "decisions", "ingestion", "trajectory", "roster"}
    BY <2>2, <2>3, ListingsAssumption DEF ListingRows
  <2>5. /\ empty.status = "more" /\ empty.token = NoToken /\ empty.seen = <<>> /\ empty.pages = 0 /\ empty.until = now
        /\ empty.learner \in Learners
    OBVIOUS
  <2> HIDE DEF empty
  <2>6. PICK R : R = RowsOf(empty)
    OBVIOUS
  <2>7. R \in SUBSET Nat
    <3>1. signals \in Seq(Row) /\ decisions \in Seq(Row) /\ states[empty.learner] \in Seq(Times)
          /\ outcomes \in Seq([signal : Signals, outcome : Outcomes, at : Times])
      BY <1>1, <2>5 DEF TablesSound, TablesTypeOK
    <3>2. DOMAIN signals \subseteq Nat /\ DOMAIN decisions \subseteq Nat /\ DOMAIN outcomes \subseteq Nat
          /\ DOMAIN states[empty.learner] \subseteq Nat
      BY <3>1
    <3> QED
      BY <2>4, <2>6, <3>2, TablesAssumption DEF RowsOf, KeptOutcomes
  <2>8. PICK q : q = [empty EXCEPT !.before = R]
    OBVIOUS
  <2>9. /\ q \in ListingRows /\ q.before = R /\ q.status = "more" /\ q.token = NoToken /\ q.seen = <<>> /\ q.pages = 0
        /\ q.until = now /\ q.kind = empty.kind /\ q.learner = empty.learner /\ q.outcome = empty.outcome
    BY <2>4, <2>5, <2>7, <2>8 DEF ListingRows
  <2>10. RowsOf(q) = R
    <3>1. q.until = empty.until
      BY <2>5, <2>9
    <3> QED
      BY <2>6, <2>9, <3>1 DEF RowsOf
  <2>11. PagesFollow(q)
    BY <1>1, <2>9, <2>10, FirstFollows
  <2>12. Read(q)
    BY <2>1, <2>6, <2>8
  <2> QED
    BY <1>1, <2>1, <2>9, <2>11, <2>12, ReadKeeps
<1>6. ASSUME NextPage PROVE ListingInv'
  <2>1. l.status = "more" /\ Read(l) /\ UNCHANGED tableVars
    BY <1>2, <1>6 DEF NextPage
  <2>2. l \in ListingRows /\ PagesFollow(l)
    BY <1>3, <2>1 DEF NoListing
  <2> QED
    BY <1>1, <2>1, <2>2, ReadKeeps
<1>7. ASSUME UNCHANGED vars PROVE ListingInv'
  <2>1. UNCHANGED tableVars /\ listing' = l
    BY <1>2, <1>7 DEF vars
  <2>2. TablesSound' /\ (l = NoListing \/ (l \in ListingRows /\ PagesFollow(l)'))
    BY <1>1, <1>3, <2>1, SameReading
  <2> QED
    BY <2>1, <2>2 DEF ListingInv
<1> QED
  BY <1>4, <1>5, <1>6, <1>7 DEF Next

LEMMA ListingFollows == ListingInv => ListingsHold
<1> SUFFICES ASSUME ListingInv PROVE ListingsHold
  OBVIOUS
<1>1. TablesSound /\ TablesTypeOK
  BY DEF ListingInv, TablesSound
<1>2. CASE listing = NoListing
  <2>1. listing.status = "none"
    BY <1>2 DEF NoListing
  <2> QED
    BY <1>1, <1>2, <2>1 DEF ListingsHold, TypeOK, ListingTypeOK, ServerListingComplete, Ended, TrajectoryContiguous,
       ListedOnce, MissedLearnerWasUpdated, OrderedLogIsComplete, LogLosesOnePerPage
<1>3. CASE listing # NoListing
  <2>1. listing \in ListingRows /\ PagesFollow(listing)
    BY <1>3 DEF ListingInv
  <2>2. TypeOK
    BY <1>1, <2>1 DEF TypeOK, ListingTypeOK, ListingRows
  <2>3. /\ listing.kind \in {"signals", "decisions", "ingestion", "trajectory", "roster"}
        /\ listing.seen \in Seq(Nat) /\ listing.before \in SUBSET Nat
    BY <2>1, ListingsAssumption DEF ListingRows
  <2>4. Asked \subseteq listing.before /\ (listing.kind # "trajectory" => Asked = listing.before)
    BY DEF Asked
  <2>5. ASSUME listing.kind = "trajectory"
        PROVE  /\ listing.seen = [i \in DOMAIN listing.seen |-> i]
               /\ Ended => Complete
    <3>1. VersionsRead(listing)
      BY <2>1, <2>5 DEF PagesFollow
    <3>2. DOMAIN listing.seen = 1..Len(listing.seen)
      BY <2>3
    <3>3. Ended => Complete
      BY <2>5, <3>1 DEF VersionsRead, Ended, Complete, Asked
    <3> QED
      BY <3>1, <3>2, <3>3 DEF VersionsRead
  <2>6. ASSUME listing.kind \in {"signals", "decisions"}, store = "sqlite"
        PROVE  /\ Distinct(listing.seen) /\ (Ended => Complete)
               /\ listing.kind = "signals" => InTimeOrder([i \in DOMAIN listing.seen |-> signals[listing.seen[i]]])
               /\ listing.kind = "decisions" => InTimeOrder([i \in DOMAIN listing.seen |-> decisions[listing.seen[i]]])
    <3>1. RowsRead(listing)
      BY <2>1, <2>6 DEF PagesFollow
    <3>2. Ascending(listing.seen) /\ ToSet(listing.seen) \subseteq RowsOf(listing) /\ (Ended => Complete)
      BY <2>4, <2>6, <3>1 DEF RowsRead, Ended, Complete
    <3>3. \A i \in DOMAIN listing.seen : i \in Nat /\ listing.seen[i] \in Nat /\ listing.seen[i] \in ToSet(listing.seen)
      BY <2>3 DEF ToSet
    <3>4. Distinct(listing.seen)
      <4> SUFFICES ASSUME NEW i \in DOMAIN listing.seen, NEW j \in DOMAIN listing.seen,
                          listing.seen[i] = listing.seen[j], i # j
                   PROVE  FALSE
        BY DEF Distinct
      <4>1. i < j \/ j < i
        BY <3>3
      <4>2. listing.seen[i] < listing.seen[j] \/ listing.seen[j] < listing.seen[i]
        BY <3>2, <4>1 DEF Ascending
      <4>3. PICK x \in Nat : x = listing.seen[i]
        BY <3>3
      <4> QED
        BY <4>2, <4>3
    <3>5. ASSUME listing.kind = "signals" PROVE InTimeOrder([i \in DOMAIN listing.seen |-> signals[listing.seen[i]]])
      <4>1. RowsOf(listing) \subseteq DOMAIN signals /\ InTimeOrder(signals)
        BY <1>1, <3>5 DEF RowsOf, TablesSound
      <4> QED
        BY <3>2, <3>3, <4>1 DEF InTimeOrder, Ascending
    <3>6. ASSUME listing.kind = "decisions" PROVE InTimeOrder([i \in DOMAIN listing.seen |-> decisions[listing.seen[i]]])
      <4>1. RowsOf(listing) \subseteq DOMAIN decisions /\ InTimeOrder(decisions)
        BY <1>1, <3>6 DEF RowsOf, TablesSound
      <4> QED
        BY <3>2, <3>3, <4>1 DEF InTimeOrder, Ascending
    <3> QED
      BY <3>2, <3>4, <3>5, <3>6
  <2>7. ServerListingComplete
    BY <2>5, <2>6 DEF ServerListingComplete
  <2>8. TrajectoryContiguous
    BY <2>5 DEF TrajectoryContiguous
  <2>9. ListedOnce
    <3> SUFFICES ASSUME <<store, listing.kind>> \notin {<<"sqlite", "ingestion">>, <<"dynamodb", "roster">>}
                 PROVE  Distinct(listing.seen)
      BY DEF ListedOnce, IsInjective, Distinct
    <3>1. CASE listing.kind = "trajectory"
      <4>1. \A i \in DOMAIN listing.seen : listing.seen[i] = i
        BY <2>5, <3>1
      <4> QED
        BY <4>1 DEF Distinct
    <3>2. CASE listing.kind \in {"signals", "decisions"}
      <4>1. store # "sqlite" => OneRead(listing)
        BY <2>1, <3>2 DEF PagesFollow
      <4> QED
        BY <2>6, <3>2, <4>1 DEF OneRead
    <3>3. CASE listing.kind = "ingestion"
      <4>1. store # "sqlite" /\ KeysRead(listing)
        BY <2>1, <3>3 DEF PagesFollow
      <4> QED
        BY <4>1 DEF KeysRead
    <3>4. CASE listing.kind = "roster"
      <4>1. store = "sqlite"
        BY <1>1, <3>4, TablesAssumption DEF TablesTypeOK
      <4>2. LearnersRead(listing)
        BY <2>1, <3>4, <4>1 DEF PagesFollow
      <4> QED
        BY <4>2 DEF LearnersRead
    <3> QED
      BY <2>3, <3>1, <3>2, <3>3, <3>4
  <2>10. MissedLearnerWasUpdated
    <3> SUFFICES ASSUME Ended, store = "sqlite", listing.kind = "roster"
                 PROVE  \A k \in Asked \ ToSet(listing.seen) : UpdatedAt(k) >= listing.until
      BY DEF MissedLearnerWasUpdated
    <3>1. LearnersRead(listing)
      BY <2>1 DEF PagesFollow
    <3> QED
      BY <2>4, <3>1 DEF LearnersRead, Ended
  <2>11. OrderedLogIsComplete
    <3> SUFFICES ASSUME Ended, store = "sqlite", listing.kind = "ingestion", InTimeOrder(outcomes)
                 PROVE  Complete /\ IsInjective(listing.seen)
      BY DEF OrderedLogIsComplete
    <3>1. EntriesRead(listing)
      BY <2>1 DEF PagesFollow
    <3> QED
      BY <2>4, <3>1 DEF EntriesRead, Ended, Complete, IsInjective, Distinct
  <2>12. LogLosesOnePerPage
    <3> SUFFICES ASSUME Ended, store = "dynamodb", listing.kind = "ingestion", listing.outcome = "any"
                 PROVE  Cardinality({OutcomeKey(i) : i \in Asked} \ {OutcomeKey(i) : i \in ToSet(listing.seen)})
                          < listing.pages
      BY DEF LogLosesOnePerPage
    <3>1. KeysRead(listing)
      BY <2>1 DEF PagesFollow
    <3> QED
      BY <2>4, <3>1 DEF KeysRead, KeysOf, Ended
  <2> QED
    BY <2>2, <2>7, <2>8, <2>9, <2>10, <2>11, <2>12 DEF ListingsHold
<1> QED
  BY <1>2, <1>3

\* Whatever is ingested between its pages, and for any number of learners, signals, requests and rows of a
\* page: a listing is complete up to what is named for its store and kind, and repeats nothing.
THEOREM ListingsAlwaysHold == Spec => []ListingsHold
<1>1. ListingInv /\ [Next]_vars => ListingInv'
  BY ListingStepKeeps
<1> QED
  BY InitListing, ListingFollows, <1>1, PTL DEF Spec

================================================================================
