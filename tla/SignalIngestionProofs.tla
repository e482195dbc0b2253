------------------------- MODULE SignalIngestionProofs -------------------------
(***************************************************************************)
(* Proofs about ApplySignals, for every set of calls, learners and         *)
(* signals, consistent reads or not, with faults or without; and above     *)
(* them, over the invariant of ApplySignals and what is proved of it,      *)
(* those about the pipeline that calls it, SignalIngestion.                *)
(***************************************************************************)
EXTENDS SignalIngestion, SequenceTheorems, TLAPS

\* The tables alone.
TablesTyped ==
    /\ signalLog \subseteq Signals
    /\ DOMAIN stateTable = Learners
    /\ \A l \in Learners :
          /\ Versions(l) \subseteq Nat \ {0}
          /\ stateTable[l] \in [Versions(l) -> Seq(Signals)]
    /\ appliedTable \in [Signals -> Nat]

\* Whatever has been merged into a state has been recorded as applied.
MergedAreApplied ==
    \A l \in Learners : \A v \in Versions(l) :
        \A i \in DOMAIN stateTable[l][v] : appliedTable[stateTable[l][v][i]] # 0

\* A call about to save carries a number that extends the history by one or
\* is taken, because the history has only grown since the number was chosen.
NumberedToSave(c) ==
    pc[c] = "save" =>
        /\ forSave[c] \in Nat \ {0}
        /\ forSave[c] - 1 \in Versions(Learner(c)) \cup {0}

\* A call that has computed a state has merged its signal into some version.
Computing == {"getStateForSave", "save", "refresh"}
ComputedFromAVersion(c) ==
    pc[c] \in Computing =>
        \E b \in Versions(Learner(c)) \cup {0} :
            stateToSave[c] = Append(Content(Learner(c), b), signal[c])

\* A call that applied its signal left the signal's entry behind.
AppliedIsRecorded(c) ==
    pc[c] = "applied" =>
        appliedTable[signal[c]] # 0 /\ returned[c] = appliedTable[signal[c]]

\* The conflict handler is entered only while the loop has a turn left.
TurnLeft(c) == pc[c] = "refresh" => attempt[c] < MaxRetries - 1

CallInv(c) ==
    /\ NumberedToSave(c)
    /\ ComputedFromAVersion(c)
    /\ AppliedIsRecorded(c)
    /\ TurnLeft(c)

TablesInv ==
    /\ TablesTyped
    /\ VersionsContiguous
    /\ TablesAgree
    /\ MergedAtMostOnce
    /\ MergedAreApplied

CallsInv == (\A c \in Calls : CallInv(c)) /\ OneCallApplies

IInv == TypeOK /\ TablesInv /\ CallsInv

\* What a step may do to the tables: add to them.
TablesGrow ==
    /\ \A l \in Learners : \A v \in Versions(l) :
          v \in DOMAIN stateTable'[l] /\ stateTable'[l][v] = stateTable[l][v]
    /\ \A s \in Signals : appliedTable[s] # 0 => appliedTable'[s] = appliedTable[s]

-------------------------------------------------------------------------------
\* Appending keeps what a sequence holds and puts one element after it.
LEMMA AppendFacts ==
    ASSUME NEW S, NEW q \in Seq(S), NEW e \in S
    PROVE  /\ Append(q, e) \in Seq(S)
           /\ Len(Append(q, e)) = Len(q) + 1
           /\ Len(q) \in Nat
           /\ DOMAIN q = 1..Len(q)
           /\ DOMAIN Append(q, e) = 1..Len(q) + 1
           /\ \A i \in 1..Len(q) : Append(q, e)[i] = q[i]
           /\ Append(q, e)[Len(q) + 1] = e
           /\ Append(q, e) # <<>>
OBVIOUS

\* The first state satisfies the invariant.
LEMMA InitInv == ApplyAssumption /\ Init => IInv
<1> SUFFICES ASSUME ApplyAssumption, Init PROVE IInv
  OBVIOUS
<1>1. \A l \in Learners : stateTable[l] = <<>> /\ Versions(l) = {}
  BY DEF Init, Versions
<1>2. TablesTyped
  BY <1>1 DEF Init, TablesTyped
<1>3. TypeOK
  BY <1>2 DEF Init, TypeOK, TablesTyped, Awaiting, Outcomes, MaxRetries
<1>4. VersionsContiguous
  <2>1. 1..0 = {}
    OBVIOUS
  <2> QED
    BY <1>1, <2>1 DEF VersionsContiguous
<1>5. TablesAgree /\ MergedAtMostOnce /\ MergedAreApplied
  BY <1>1 DEF Init, TablesAgree, MergedAtMostOnce, MergedAreApplied
<1>6. CallsInv
  BY DEF Init, CallsInv, CallInv, NumberedToSave, ComputedFromAVersion, Computing,
         AppliedIsRecorded, TurnLeft, OneCallApplies
<1> QED
  BY <1>2, <1>3, <1>4, <1>5, <1>6 DEF IInv, TablesInv

-------------------------------------------------------------------------------
(***************************************************************************)
(* The one step that writes: a transaction whose conditions hold.          *)
(***************************************************************************)
\* The transaction changes no version and no entry that is there.
LEMMA WriteGrows ==
    ASSUME IInv, NEW c \in Calls, pc[c] = "save", ConditionsHold(c), WriteItems(c)
    PROVE  TablesGrow
<1>1. Learner(c) \in Learners /\ signal[c] \in Signals
  BY ApplyAssumption DEF IInv, TypeOK, ApplyAssumption, Learner
<1>2. ASSUME NEW l \in Learners, NEW v \in Versions(l)
      PROVE  v \in DOMAIN stateTable'[l] /\ stateTable'[l][v] = stateTable[l][v]
  BY <1>1, <1>2 DEF IInv, TablesInv, TablesTyped, WriteItems, WriteVersion,
     ConditionsHold, PutItem, Versions
<1>3. ASSUME NEW s \in Signals, appliedTable[s] # 0
      PROVE  appliedTable'[s] = appliedTable[s]
  BY <1>1, <1>3 DEF IInv, TablesInv, TablesTyped, WriteItems, WriteVersion, ConditionsHold
<1> QED
  BY <1>2, <1>3 DEF TablesGrow

\* The tables stay right: the number saved is the next one or the write fails.
LEMMA WriteKeepsTables ==
    ASSUME IInv, NEW c \in Calls, pc[c] = "save", ConditionsHold(c), WriteItems(c)
    PROVE  TablesInv'
<1> DEFINE s == signal[c]
           l == Learner(c)
           v == forSave[c]
           new == stateToSave[c]
<1>1. /\ s \in Signals
      /\ l \in Learners
      /\ l = LearnerOf[s]
      /\ v \in Nat \ {0}
      /\ new \in Seq(Signals)
      /\ v \notin Versions(l)
      /\ v - 1 \in Versions(l) \cup {0}
      /\ appliedTable[s] = 0
  BY ApplyAssumption DEF IInv, TypeOK, ApplyAssumption, Learner, CallsInv, CallInv, NumberedToSave,
     ConditionsHold
<1>2. PICK b \in Versions(l) \cup {0} : new = Append(Content(l, b), s)
  BY DEF IInv, CallsInv, CallInv, ComputedFromAVersion, Computing
<1>3. Content(l, b) \in Seq(Signals)
  BY <1>1, <1>2 DEF IInv, TablesInv, TablesTyped, Content
<1>4. /\ stateTable'[l] = PutItem(stateTable[l], v, new)
      /\ DOMAIN stateTable'[l] = Versions(l) \cup {v}
      /\ stateTable'[l][v] = new
      /\ \A w \in Versions(l) : stateTable'[l][w] = stateTable[l][w]
  <2>1. stateTable'[l] = PutItem(stateTable[l], v, new)
    BY <1>1 DEF IInv, TablesInv, TablesTyped, WriteItems, WriteVersion
  <2> QED
    BY <1>1, <2>1 DEF PutItem, Versions
<1>5. \A k \in Learners \ {l} : stateTable'[k] = stateTable[k]
  BY <1>1 DEF IInv, TablesInv, TablesTyped, WriteItems, WriteVersion
<1>6. /\ appliedTable' = [appliedTable EXCEPT ![s] = v]
      /\ appliedTable'[s] = v
      /\ \A t \in Signals \ {s} : appliedTable'[t] = appliedTable[t]
  BY <1>1 DEF IInv, TablesInv, TablesTyped, WriteItems, WriteVersion
<1>7. TablesGrow
  BY WriteGrows
<1> HIDE DEF s, l, v, new
<1>8. TablesTyped'
  <2>1. signalLog' \subseteq Signals /\ DOMAIN stateTable' = Learners
    BY DEF IInv, TablesInv, TablesTyped, WriteItems, WriteVersion
  <2>2. appliedTable' \in [Signals -> Nat]
    BY <1>1, <1>6 DEF IInv, TablesInv, TablesTyped
  <2>3. DOMAIN stateTable'[l] \subseteq Nat \ {0} /\ stateTable'[l] \in [DOMAIN stateTable'[l] -> Seq(Signals)]
    BY <1>1, <1>4 DEF IInv, TablesInv, TablesTyped, PutItem
  <2>4. \A k \in Learners \ {l} :
            DOMAIN stateTable'[k] \subseteq Nat \ {0} /\ stateTable'[k] \in [DOMAIN stateTable'[k] -> Seq(Signals)]
    BY <1>5 DEF IInv, TablesInv, TablesTyped, Versions
  <2> QED
    BY <2>1, <2>2, <2>3, <2>4 DEF TablesTyped, Versions
<1>9. VersionsContiguous'
  <2>1. PICK n \in Versions(l) \cup {0} : Versions(l) = 1..n
    BY <1>1 DEF IInv, TablesInv, VersionsContiguous
  <2>2. n \in Nat
    BY <1>1, <2>1 DEF IInv, TablesInv, TablesTyped
  <2>3. v = n + 1
    BY <1>1, <2>1, <2>2
  <2>4. DOMAIN stateTable'[l] = 1..v
    BY <1>4, <2>1, <2>2, <2>3
  <2>5. \A k \in Learners \ {l} :
            \E m \in DOMAIN stateTable'[k] \cup {0} : DOMAIN stateTable'[k] = 1..m
    BY <1>5 DEF IInv, TablesInv, VersionsContiguous, Versions
  <2>6. v \in DOMAIN stateTable'[l]
    BY <1>4
  <2>7. \A k \in Learners :
            \E m \in DOMAIN stateTable'[k] \cup {0} : DOMAIN stateTable'[k] = 1..m
    BY <2>4, <2>5, <2>6
  <2> QED
    BY <2>7 DEF VersionsContiguous, Versions
<1>10. MergedAreApplied'
  <2>1. ASSUME NEW i \in DOMAIN new PROVE appliedTable'[new[i]] # 0
    <3>1. CASE i = Len(Content(l, b)) + 1
      BY <1>1, <1>2, <1>3, <1>6, <3>1, AppendFacts
    <3>2. CASE i \in 1..Len(Content(l, b))
      <4>1. b \in Versions(l) /\ Content(l, b) = stateTable[l][b]
        BY <1>2, <3>2 DEF Content
      <4>2. i \in DOMAIN stateTable[l][b] /\ new[i] = stateTable[l][b][i]
        BY <1>1, <1>2, <1>3, <3>2, <4>1, AppendFacts
      <4>3. new[i] \in Signals /\ appliedTable[new[i]] # 0
        BY <1>1, <1>3, <3>2, <4>1, <4>2 DEF IInv, TablesInv, MergedAreApplied
      <4> QED
        BY <1>7, <4>3 DEF TablesGrow
    <3> QED
      BY <1>1, <1>2, <1>3, <2>1, <3>1, <3>2, AppendFacts
  <2>2. ASSUME NEW k \in Learners, NEW w \in Versions(k), NEW i \in DOMAIN stateTable[k][w]
        PROVE  appliedTable'[stateTable[k][w][i]] # 0
    <3>1. stateTable[k][w] \in Seq(Signals)
      BY <2>2 DEF IInv, TablesInv, TablesTyped
    <3>2. stateTable[k][w][i] \in Signals
      BY <2>2, <3>1
    <3>3. appliedTable[stateTable[k][w][i]] # 0
      BY <2>2 DEF IInv, TablesInv, MergedAreApplied
    <3> QED
      BY <1>7, <3>2, <3>3 DEF TablesGrow
  <2>3. ASSUME NEW w \in DOMAIN stateTable'[l], NEW i \in DOMAIN stateTable'[l][w]
        PROVE  appliedTable'[stateTable'[l][w][i]] # 0
    BY <1>1, <1>4, <2>1, <2>2, <2>3
  <2>4. ASSUME NEW k \in Learners \ {l}, NEW w \in DOMAIN stateTable'[k], NEW i \in DOMAIN stateTable'[k][w]
        PROVE  appliedTable'[stateTable'[k][w][i]] # 0
    BY <1>5, <2>2, <2>4 DEF Versions
  <2> QED
    BY <2>3, <2>4 DEF MergedAreApplied, Versions
<1>11. MergedAtMostOnce'
  <2>1. ASSUME NEW i \in DOMAIN new, NEW j \in DOMAIN new, new[i] = new[j]
        PROVE  i = j
    <3> DEFINE base == Content(l, b)
    <3>1. /\ DOMAIN new = 1..Len(base) + 1
          /\ Len(base) \in Nat
          /\ DOMAIN base = 1..Len(base)
          /\ \A k \in 1..Len(base) : new[k] = base[k]
          /\ new[Len(base) + 1] = s
      BY <1>1, <1>2, <1>3, AppendFacts
    <3>2. \A k \in 1..Len(base) :
              b \in Versions(l) /\ base = stateTable[l][b] /\ base[k] # s
      BY <1>1, <1>2, <3>1 DEF IInv, TablesInv, MergedAreApplied, Content
    <3>3. \A k, m \in 1..Len(base) : base[k] = base[m] => k = m
      BY <1>1, <3>1, <3>2 DEF IInv, TablesInv, MergedAtMostOnce
    <3> HIDE DEF base
    <3> QED
      BY <2>1, <3>1, <3>2, <3>3
  <2>2. ASSUME NEW w \in DOMAIN stateTable'[l], NEW i \in DOMAIN stateTable'[l][w],
               NEW j \in DOMAIN stateTable'[l][w], stateTable'[l][w][i] = stateTable'[l][w][j]
        PROVE  i = j
    BY <1>1, <1>4, <2>1, <2>2 DEF IInv, TablesInv, MergedAtMostOnce
  <2> QED
    BY <1>5, <2>2 DEF IInv, TablesInv, MergedAtMostOnce, Versions
<1>12. TablesAgree'
  <2>1. new # <<>> /\ new[Len(new)] = s
    BY <1>1, <1>2, <1>3, AppendFacts
  <2>2. ASSUME NEW t \in Signals, appliedTable'[t] # 0
        PROVE  /\ appliedTable'[t] \in DOMAIN stateTable'[LearnerOf[t]]
               /\ LET merged == stateTable'[LearnerOf[t]][appliedTable'[t]]
                  IN  merged # <<>> /\ merged[Len(merged)] = t
    <3>1. CASE t = s
      BY <1>1, <1>4, <1>6, <2>1, <3>1
    <3>2. CASE t # s
      <4>1. appliedTable[t] # 0 /\ appliedTable'[t] = appliedTable[t]
        BY <1>6, <2>2, <3>2
      <4>2. LearnerOf[t] \in Learners
        BY ApplyAssumption DEF ApplyAssumption
      <4>3. /\ appliedTable[t] \in Versions(LearnerOf[t])
            /\ LET merged == stateTable[LearnerOf[t]][appliedTable[t]]
               IN  merged # <<>> /\ merged[Len(merged)] = t
        BY <4>1 DEF IInv, TablesInv, TablesAgree
      <4> QED
        BY <1>7, <4>1, <4>2, <4>3 DEF TablesGrow, Versions
    <3> QED
      BY <3>1, <3>2
  <2>3. ASSUME NEW k \in Learners, NEW w \in DOMAIN stateTable'[k]
        PROVE  \E t \in Signals : LearnerOf[t] = k /\ appliedTable'[t] = w
    <3>1. CASE k = l /\ w = v
      BY <1>1, <1>6, <3>1
    <3>2. CASE ~(k = l /\ w = v)
      <4>1. w \in Versions(k)
        BY <1>4, <1>5, <2>3, <3>2 DEF Versions
      <4>2. PICK t \in Signals : LearnerOf[t] = k /\ appliedTable[t] = w
        BY <4>1 DEF IInv, TablesInv, TablesAgree
      <4>3. w # 0
        BY <4>1 DEF IInv, TablesInv, TablesTyped
      <4> QED
        BY <1>7, <4>2, <4>3 DEF TablesGrow
    <3> QED
      BY <3>1, <3>2
  <2> QED
    BY <2>2, <2>3 DEF TablesAgree, Versions
<1> QED
  BY <1>8, <1>9, <1>10, <1>11, <1>12 DEF TablesInv

-------------------------------------------------------------------------------
(***************************************************************************)
(* Every step adds to the tables or leaves them, and keeps TablesInv.      *)
(***************************************************************************)
Writes(c) == pc[c] = "save" /\ ConditionsHold(c) /\ WriteItems(c)

\* A step of a call is the transaction or leaves the tables alone.
LEMMA StepWritesOrNot ==
    ASSUME NEW c \in Calls, Begin(c) \/ Step(c)
    PROVE  signal' = signal /\ (Writes(c) \/ UNCHANGED tables)
BY DEF Step, Begin, CheckApplied, ReturnUnchanged, GetSignals, GetState, RefuseState,
       GetStateForSave, NumberAfter, Save, SaveConflicts, RetryUpTo, Refresh, Recompute,
       PortThrows, Writes

\* A step that writes no version and no entry keeps what is said of them.
LEMMA TablesKept ==
    ASSUME IInv, UNCHANGED <<stateTable, appliedTable>>, signalLog' \subseteq Signals
    PROVE  TablesInv' /\ TablesGrow
<1>1. TablesTyped' /\ VersionsContiguous'
  BY DEF IInv, TablesInv, TablesTyped, VersionsContiguous, Versions
<1>2. TablesAgree' /\ MergedAtMostOnce' /\ MergedAreApplied'
  BY DEF IInv, TablesInv, TablesAgree, MergedAtMostOnce, MergedAreApplied, Versions
<1>3. TablesGrow
  BY DEF TablesGrow, Versions
<1> QED
  BY <1>1, <1>2, <1>3 DEF TablesInv

\* Whatever step is taken, the tables stay right and only grow.
LEMMA NextTables ==
    ASSUME IInv, [Next]_applyVars
    PROVE  TablesInv' /\ TablesGrow /\ signal' = signal
<1>1. ASSUME NEW s \in Signals, AppendSignal(s)
      PROVE  TablesInv' /\ TablesGrow /\ signal' = signal
  BY <1>1, TablesKept DEF AppendSignal, IInv, TypeOK
<1>2. ASSUME NEW c \in Calls, Begin(c) \/ Step(c)
      PROVE  TablesInv' /\ TablesGrow /\ signal' = signal
  <2>1. CASE Writes(c)
    BY <1>2, <2>1, StepWritesOrNot, WriteGrows, WriteKeepsTables DEF Writes
  <2>2. CASE UNCHANGED tables
    BY <1>2, <2>2, StepWritesOrNot, TablesKept DEF tables, IInv, TypeOK
  <2> QED
    BY <1>2, <2>1, <2>2, StepWritesOrNot
<1>3. CASE UNCHANGED applyVars
  BY <1>3, TablesKept DEF applyVars, tables, IInv, TypeOK
<1> QED
  BY <1>1, <1>2, <1>3 DEF Next

-------------------------------------------------------------------------------
(***************************************************************************)
(* The calls.  A call that does not move keeps its invariant because the   *)
(* tables only grow.                                                       *)
(***************************************************************************)
\* What other calls write takes nothing from a call that stands still.
LEMMA UnmovedKeepsInv ==
    ASSUME IInv, TablesGrow, signal' = signal, NEW d \in Calls,
           pc'[d] = pc[d], stateToSave'[d] = stateToSave[d],
           forSave'[d] = forSave[d], returned'[d] = returned[d],
           attempt'[d] = attempt[d]
    PROVE  CallInv(d)'
<1>1. Learner(d) \in Learners /\ signal[d] \in Signals /\ Learner(d)' = Learner(d)
  BY ApplyAssumption DEF IInv, TypeOK, ApplyAssumption, Learner
<1>2. \A v \in Versions(Learner(d)) :
          /\ v \in Versions(Learner(d))'
          /\ stateTable'[Learner(d)'][v] = stateTable[Learner(d)][v]
  BY <1>1 DEF TablesGrow, Versions
<1>3. NumberedToSave(d)'
  BY <1>1, <1>2 DEF IInv, CallsInv, CallInv, NumberedToSave
<1>4. ComputedFromAVersion(d)'
  BY <1>1, <1>2 DEF IInv, CallsInv, CallInv, ComputedFromAVersion, Content
<1>5. AppliedIsRecorded(d)'
  BY <1>1 DEF IInv, CallsInv, CallInv, AppliedIsRecorded, TablesGrow
<1>6. TurnLeft(d)'
  BY DEF IInv, CallsInv, CallInv, TurnLeft
<1> QED
  BY <1>3, <1>4, <1>5, <1>6 DEF CallInv

\* A read, stale or not, returns a version that exists, or none.
LEMMA ReadableFacts ==
    ASSUME IInv, NEW c \in Calls, NEW v \in Readable(Learner(c))
    PROVE  /\ Learner(c) \in Learners
           /\ v \in Versions(Learner(c)) \cup {0}
           /\ v \in Nat
           /\ Content(Learner(c), v) \in Seq(Signals)
<1>1. Learner(c) \in Learners
  BY ApplyAssumption DEF IInv, TypeOK, ApplyAssumption, Learner
<1>2. v \in Versions(Learner(c)) \cup {0}
  BY DEF Readable
<1>3. v \in Nat
  BY <1>1, <1>2 DEF IInv, TablesInv, TablesTyped
<1>4. Content(Learner(c), v) \in Seq(Signals)
  BY <1>1, <1>2 DEF IInv, TablesInv, TablesTyped, Content
<1> QED
  BY <1>1, <1>2, <1>3, <1>4

CallsTyped ==
    /\ signal \in [Calls -> Signals]
    /\ pc \in [Calls -> {"idle"} \cup Awaiting \cup Outcomes]
    /\ prior \in [Calls -> Nat]
    /\ stateToSave \in [Calls -> Seq(Signals)]
    /\ forSave \in [Calls -> Nat]
    /\ attempt \in [Calls -> 0..MaxRetries - 1]
    /\ returned \in [Calls -> Nat]

\* Only call c moves.
Moves(c) ==
    \A d \in Calls \ {c} :
        /\ pc'[d] = pc[d] /\ stateToSave'[d] = stateToSave[d]
        /\ forSave'[d] = forSave[d] /\ returned'[d] = returned[d]
        /\ attempt'[d] = attempt[d] /\ prior'[d] = prior[d]

\* A computed state is what ComputedFromAVersion asks for, and stays so.
LEMMA ComputeOnFacts ==
    ASSUME IInv, UNCHANGED tables, signal' = signal,
           NEW c \in Calls, NEW v \in Readable(Learner(c)), ComputeOn(c, v)
    PROVE  /\ stateToSave' \in [Calls -> Seq(Signals)]
           /\ ComputedFromAVersion(c)'
           /\ \A d \in Calls \ {c} : stateToSave'[d] = stateToSave[d]
<1>1. signal[c] \in Signals /\ stateToSave \in [Calls -> Seq(Signals)]
  BY DEF IInv, TypeOK
<1>2. Append(Content(Learner(c), v), signal[c]) \in Seq(Signals)
  BY <1>1, ReadableFacts, AppendFacts
<1>3. /\ stateToSave' \in [Calls -> Seq(Signals)]
      /\ stateToSave'[c] = Append(Content(Learner(c), v), signal[c])
      /\ \A d \in Calls \ {c} : stateToSave'[d] = stateToSave[d]
  BY <1>1, <1>2 DEF ComputeOn
<1>4. Learner(c)' = Learner(c) /\ stateTable' = stateTable
  BY DEF Learner, tables
<1>5. ComputedFromAVersion(c)'
  BY <1>3, <1>4, ReadableFacts DEF ComputedFromAVersion, Versions, Content
<1> QED
  BY <1>3, <1>5

\* The steps that neither read a state nor write one.
LEMMA LocalSteps ==
    ASSUME IInv, NEW c \in Calls,
           \/ Begin(c) \/ CheckApplied(c) \/ ReturnUnchanged(c) \/ GetSignals(c)
           \/ RefuseState(c) \/ SaveConflicts(c) \/ PortThrows(c)
    PROVE  /\ CallsTyped'
           /\ Moves(c)
           /\ pc'[c] # "applied"
           /\ pc'[c] \in Computing => UNCHANGED tables /\ pc[c] \in Computing
           /\ pc'[c] # "save"
           /\ TurnLeft(c)'
           /\ stateToSave' = stateToSave
<1>1. CASE Begin(c) \/ CheckApplied(c) \/ GetSignals(c) \/ RefuseState(c) \/ PortThrows(c)
  BY <1>1 DEF Begin, CheckApplied, GetSignals, RefuseState, PortThrows, CallsTyped,
     Moves, IInv, TypeOK, Awaiting, Outcomes, Computing, TurnLeft, locals
<1>2. CASE ReturnUnchanged(c)
  BY <1>2, ReadableFacts DEF ReturnUnchanged, CallsTyped, Moves, IInv, TypeOK, Awaiting,
     Outcomes, Computing, TurnLeft
<1>3. CASE SaveConflicts(c)
  BY <1>3 DEF SaveConflicts, RetryUpTo, CallsTyped, Moves, IInv, TypeOK, Awaiting,
     Outcomes, Computing, TurnLeft, locals, tables
<1> QED
  BY <1>1, <1>2, <1>3

\* A step of a call moves that call alone, and to where its invariant holds.
LEMMA StepMoves ==
    ASSUME IInv, TablesGrow, NEW c \in Calls, Begin(c) \/ Step(c)
    PROVE  /\ CallsTyped'
           /\ Moves(c)
           /\ CallInv(c)'
           /\ pc'[c] = "applied" => appliedTable[signal[c]] = 0
<1> USE DEF CallInv
<1>1. CASE \/ Begin(c) \/ CheckApplied(c) \/ ReturnUnchanged(c) \/ GetSignals(c)
           \/ RefuseState(c) \/ SaveConflicts(c) \/ PortThrows(c)
  <2>1. /\ CallsTyped' /\ Moves(c) /\ pc'[c] # "applied" /\ pc'[c] # "save"
        /\ pc'[c] \in Computing => UNCHANGED tables /\ pc[c] \in Computing
        /\ TurnLeft(c)' /\ stateToSave' = stateToSave
    BY <1>1, LocalSteps
  <2>2. signal' = signal
    BY StepWritesOrNot
  <2>3. ComputedFromAVersion(c)'
    BY <2>1, <2>2 DEF ComputedFromAVersion, IInv, CallsInv, tables, Versions, Content, Learner
  <2> QED
    BY <2>1, <2>3 DEF NumberedToSave, AppliedIsRecorded
<1>2. CASE GetState(c)
  <2>1. PICK v \in Readable(Learner(c)) : ComputeOn(c, v) /\ prior' = [prior EXCEPT ![c] = v]
    BY <1>2 DEF GetState
  <2>2. pc'[c] = "getStateForSave" /\ UNCHANGED <<tables, signal, forSave, attempt, returned>>
    BY <1>2 DEF GetState, IInv, TypeOK
  <2>3. CallsTyped' /\ Moves(c) /\ ComputedFromAVersion(c)'
    BY <1>2, <2>1, <2>2, ReadableFacts, ComputeOnFacts
       DEF GetState, CallsTyped, Moves, IInv, TypeOK, Awaiting
  <2> QED
    BY <2>2, <2>3 DEF NumberedToSave, AppliedIsRecorded, TurnLeft
<1>3. CASE Refresh(c)
  <2>1. PICK v \in Readable(Learner(c)) : ComputeOn(c, v)
    BY <1>3 DEF Refresh, Recompute
  <2>2. pc'[c] = "getStateForSave" /\ UNCHANGED <<tables, signal, prior, forSave, returned>>
    BY <1>3 DEF Refresh, Recompute, IInv, TypeOK
  <2>3. CallsTyped' /\ Moves(c) /\ ComputedFromAVersion(c)'
    <3>1. attempt[c] + 1 \in 0..MaxRetries - 1
      <4>1. pc[c] = "refresh" /\ attempt[c] \in 0..MaxRetries - 1
        BY <1>3 DEF Refresh, Recompute, IInv, TypeOK
      <4>2. attempt[c] < MaxRetries - 1
        BY <4>1 DEF IInv, CallsInv, TurnLeft
      <4> QED
        BY <4>1, <4>2 DEF MaxRetries
    <3> QED
      BY <1>3, <2>1, <2>2, <3>1, ComputeOnFacts
         DEF Refresh, Recompute, CallsTyped, Moves, IInv, TypeOK, Awaiting
  <2> QED
    BY <2>2, <2>3 DEF NumberedToSave, AppliedIsRecorded, TurnLeft
<1>4. CASE GetStateForSave(c)
  <2>1. PICK v \in Readable(Learner(c)) : forSave' = [forSave EXCEPT ![c] = v + 1]
    BY <1>4 DEF GetStateForSave, NumberAfter
  <2>2. /\ pc[c] = "getStateForSave" /\ pc' = [pc EXCEPT ![c] = "save"]
        /\ UNCHANGED <<tables, signal, prior, stateToSave, attempt, returned>>
    BY <1>4 DEF GetStateForSave, NumberAfter
  <2>3. v \in Nat /\ v \in Versions(Learner(c)) \cup {0}
    BY ReadableFacts
  <2>4. CallsTyped' /\ Moves(c) /\ pc'[c] = "save" /\ forSave'[c] = v + 1
    BY <2>1, <2>2, <2>3 DEF CallsTyped, Moves, IInv, TypeOK, Awaiting
  <2>5. NumberedToSave(c)'
    BY <2>2, <2>3, <2>4 DEF NumberedToSave, Versions, Learner, tables
  <2>6. ComputedFromAVersion(c)'
    BY <2>2 DEF ComputedFromAVersion, Computing, IInv, CallsInv, Versions, Content, Learner, tables
  <2> QED
    BY <2>4, <2>5, <2>6 DEF AppliedIsRecorded, TurnLeft
<1>5. CASE Save(c)
  <2>1. /\ pc[c] = "save" /\ ConditionsHold(c) /\ WriteItems(c)
        /\ pc' = [pc EXCEPT ![c] = "applied"]
        /\ returned' = [returned EXCEPT ![c] = forSave[c]]
        /\ UNCHANGED <<signal, prior, stateToSave, forSave, attempt>>
    BY <1>5 DEF Save
  <2>2. CallsTyped' /\ Moves(c) /\ pc'[c] = "applied" /\ returned'[c] = forSave[c]
    BY <2>1 DEF CallsTyped, Moves, IInv, TypeOK, Outcomes
  <2>3. forSave[c] # 0 /\ appliedTable[signal[c]] = 0
    BY <2>1 DEF IInv, CallsInv, NumberedToSave, ConditionsHold
  <2>4. appliedTable'[signal[c]] = forSave[c]
    BY <2>1 DEF WriteItems, WriteVersion, IInv, TypeOK
  <2> QED
    BY <2>1, <2>2, <2>3, <2>4 DEF NumberedToSave, ComputedFromAVersion, Computing,
       AppliedIsRecorded, TurnLeft
<1> QED
  BY <1>1, <1>2, <1>3, <1>4, <1>5 DEF Step

-------------------------------------------------------------------------------
\* The type invariant is that of the tables and that of the calls.
LEMMA TypeParts == TypeOK <=> TablesTyped /\ CallsTyped
BY DEF TypeOK, TablesTyped, CallsTyped

\* Every step, stuttering too, preserves the invariant.
LEMMA NextInv ==
    ASSUME IInv, [Next]_applyVars
    PROVE  IInv' /\ TablesGrow
<1>1. TablesInv' /\ TablesGrow /\ signal' = signal
  BY NextTables
<1>2. CASE UNCHANGED <<pc, locals, signal>>
  <2>1. CallsTyped'
    BY <1>2 DEF CallsTyped, IInv, TypeOK, locals
  <2>2. ASSUME NEW d \in Calls PROVE CallInv(d)'
    BY <1>1, <1>2, UnmovedKeepsInv DEF locals
  <2>3. OneCallApplies'
    BY <1>2, <2>2 DEF CallInv, AppliedIsRecorded, OneCallApplies, IInv, CallsInv, locals
  <2> QED
    BY <1>1, <2>1, <2>2, <2>3 DEF IInv, CallsInv, TypeOK, TablesInv, TablesTyped, CallsTyped
<1>3. ASSUME NEW c \in Calls, Begin(c) \/ Step(c)
      PROVE  IInv'
  <2>1. /\ CallsTyped' /\ Moves(c) /\ CallInv(c)'
        /\ pc'[c] = "applied" => appliedTable[signal[c]] = 0
    BY <1>1, <1>3, StepMoves
  <2>2. ASSUME NEW d \in Calls PROVE CallInv(d)'
    <3>1. CASE d = c
      BY <2>1, <3>1
    <3>2. CASE d # c
      BY <1>1, <2>1, <3>2, UnmovedKeepsInv DEF Moves
    <3> QED
      BY <3>1, <3>2
  <2>3. ASSUME NEW d \in Calls, NEW e \in Calls,
               pc'[d] = "applied", pc'[e] = "applied", signal'[d] = signal'[e]
        PROVE  d = e
    <3>1. ASSUME NEW f \in Calls \ {c}, pc'[f] = "applied"
          PROVE  pc[f] = "applied" /\ appliedTable[signal[f]] # 0
      BY <2>1, <3>1 DEF Moves, IInv, CallsInv, CallInv, AppliedIsRecorded
    <3> QED
      BY <1>1, <2>1, <2>3, <3>1 DEF IInv, CallsInv, OneCallApplies
  <2>4. OneCallApplies'
    BY <2>2, <2>3 DEF OneCallApplies, CallInv, AppliedIsRecorded
  <2> QED
    BY <1>1, <2>1, <2>2, <2>4 DEF IInv, CallsInv, TypeOK, TablesInv, TablesTyped, CallsTyped
<1> QED
  BY <1>1, <1>2, <1>3 DEF Next, AppendSignal, applyVars

-------------------------------------------------------------------------------
\* Every variable keeps its type: in particular a version number that is
\* written is never 0, the number that stands for "no state".
THEOREM TypeCorrect == Spec => []TypeOK
<1>1. Init => IInv
  BY InitInv, ApplyAssumption
<1>2. IInv /\ [Next]_applyVars => IInv'
  BY NextInv
<1>3. IInv => TypeOK
  BY DEF IInv
<1> QED
  BY <1>1, <1>2, <1>3, PTL DEF Spec

\* The history of every learner has no gap and no version without a signal,
\* the tables of the transaction agree, and no signal is merged twice.
THEOREM HistoryCorrect == Spec => []HistoryConsistent
<1>1. Init => IInv
  BY InitInv, ApplyAssumption
<1>2. IInv /\ [Next]_applyVars => IInv'
  BY NextInv
<1>3. IInv => HistoryConsistent
  BY DEF IInv, TablesInv, HistoryConsistent
<1> QED
  BY <1>1, <1>2, <1>3, PTL DEF Spec

\* Of the calls that race to apply a signal at most one is told it did.
THEOREM AppliedByOneCall == Spec => []OneCallApplies
<1>1. Init => IInv
  BY InitInv, ApplyAssumption
<1>2. IInv /\ [Next]_applyVars => IInv'
  BY NextInv
<1>3. IInv => OneCallApplies
  BY DEF IInv, CallsInv
<1> QED
  BY <1>1, <1>2, <1>3, PTL DEF Spec

\* No step of any call changes or removes a stored version.
THEOREM HistoryNeverChanges == Spec => HistoryImmutable
<1>1. Init => IInv
  BY InitInv, ApplyAssumption
<1>2. IInv /\ [Next]_applyVars => IInv' /\ TablesGrow
  BY NextInv
<1>3. TablesGrow =>
          /\ \A l \in Learners : \A v \in Versions(l) :
                v \in DOMAIN stateTable'[l] /\ stateTable'[l][v] = stateTable[l][v]
          /\ \A s \in Signals : appliedTable[s] # 0 => appliedTable'[s] = appliedTable[s]
  BY DEF TablesGrow
<1> QED
  BY <1>1, <1>2, <1>3, PTL DEF Spec, HistoryImmutable

-------------------------------------------------------------------------------
(***************************************************************************)
(* Giving up, with consistent reads and no faults: a round of the loop is  *)
(* lost only to a version that another writer saved.                       *)
(***************************************************************************)
\* k versions or more have been saved since call c first read the state, or
\* its signal has been applied.
OvertakenTimes(c, k) ==
    appliedTable[signal[c]] # 0 \/ prior[c] + k \in Versions(Learner(c)) \cup {0}

\* A call has been overtaken once in each round it lost, the one it is losing
\* included; the number it is to save leaves those versions behind.
RaceInv(c) ==
    ConsistentReads /\ ~Faults =>
        /\ pc[c] \in {"idle", "isSignalApplied", "getSignals", "getState"} => attempt[c] = 0
        /\ pc[c] = "getStateForSave" => OvertakenTimes(c, attempt[c])
        /\ pc[c] = "save" =>
              appliedTable[signal[c]] # 0 \/ prior[c] + attempt[c] < forSave[c]
        /\ pc[c] = "refresh" => OvertakenTimes(c, attempt[c] + 1)
        /\ pc[c] = "state_version_conflict" => OvertakenTimes(c, MaxRetries)

\* The versions below one that is stored are stored.
LEMMA VersionsBelow ==
    ASSUME IInv, NEW l \in Learners, NEW v \in Versions(l) \cup {0},
           NEW w \in Nat, w <= v
    PROVE  w \in Versions(l) \cup {0}
<1>1. PICK n \in Versions(l) \cup {0} : Versions(l) = 1..n
  BY DEF IInv, TablesInv, VersionsContiguous
<1>2. n \in Nat /\ v \in Nat
  BY <1>1 DEF IInv, TablesInv, TablesTyped
<1> QED
  BY <1>1, <1>2

\* Being overtaken is not undone.
LEMMA OvertakenStays ==
    ASSUME IInv, TablesGrow, signal' = signal, NEW c \in Calls, NEW k \in Nat,
           prior'[c] = prior[c], OvertakenTimes(c, k)
    PROVE  appliedTable'[signal'[c]] # 0 \/ prior'[c] + k \in Versions(Learner(c))' \cup {0}
<1>1. signal[c] \in Signals /\ Learner(c) \in Learners /\ Learner(c)' = Learner(c)
  BY ApplyAssumption DEF IInv, TypeOK, ApplyAssumption, Learner
<1> QED
  BY <1>1 DEF TablesGrow, OvertakenTimes, Versions

\* A call that does not move keeps RaceInv.
LEMMA UnmovedKeepsRace ==
    ASSUME IInv, TablesGrow, signal' = signal, NEW c \in Calls, RaceInv(c),
           pc'[c] = pc[c], prior'[c] = prior[c], forSave'[c] = forSave[c],
           attempt'[c] = attempt[c]
    PROVE  RaceInv(c)'
<1>1. attempt[c] \in Nat /\ attempt[c] + 1 \in Nat /\ MaxRetries \in Nat
  BY DEF IInv, TypeOK, MaxRetries
<1>2. \A k \in Nat : OvertakenTimes(c, k) =>
          appliedTable'[signal'[c]] # 0 \/ prior'[c] + k \in Versions(Learner(c))' \cup {0}
  BY OvertakenStays
<1>3. appliedTable[signal[c]] # 0 => appliedTable'[signal'[c]] # 0
  BY DEF IInv, TypeOK, TablesGrow
<1> QED
  BY <1>1, <1>2, <1>3 DEF RaceInv, OvertakenTimes

\* The call that moves reaches a stage where RaceInv holds of it.
LEMMA StepKeepsRace ==
    ASSUME IInv, TablesGrow, NEW c \in Calls, RaceInv(c), Begin(c) \/ Step(c)
    PROVE  RaceInv(c)'
<1> SUFFICES ASSUME ConsistentReads, ~Faults
             PROVE  RaceInv(c)'
  BY DEF RaceInv
<1>1. /\ signal' = signal /\ signal[c] \in Signals
      /\ Learner(c) \in Learners /\ Learner(c)' = Learner(c)
      /\ pc \in [Calls -> {"idle"} \cup Awaiting \cup Outcomes]
      /\ prior \in [Calls -> Nat] /\ forSave \in [Calls -> Nat]
      /\ attempt \in [Calls -> Nat]
  <2>1. signal' = signal
    BY StepWritesOrNot
  <2>2. attempt \in [Calls -> 0..MaxRetries - 1] /\ 0..MaxRetries - 1 \subseteq Nat
    BY DEF IInv, TypeOK, MaxRetries
  <2>3. attempt \in [Calls -> Nat]
    BY <2>2
  <2> QED
    BY <2>1, <2>3, ApplyAssumption DEF IInv, TypeOK, ApplyAssumption, Learner
<1>2. CASE Begin(c) \/ CheckApplied(c) \/ GetSignals(c)
  BY <1>1, <1>2 DEF Begin, CheckApplied, GetSignals, RaceInv, locals
<1>3. CASE ReturnUnchanged(c)
  BY <1>1, <1>3 DEF ReturnUnchanged, RaceInv
<1>4. CASE RefuseState(c) \/ PortThrows(c)
  BY <1>4 DEF RefuseState, PortThrows
<1>5. CASE GetState(c)
  <2>1. PICK v \in Readable(Learner(c)) : prior' = [prior EXCEPT ![c] = v]
    BY <1>5 DEF GetState
  <2>2. pc[c] = "getState" /\ pc' = [pc EXCEPT ![c] = "getStateForSave"] /\ attempt' = attempt
        /\ UNCHANGED tables
    BY <1>5 DEF GetState
  <2>3. v \in Nat /\ v \in Versions(Learner(c)) \cup {0} /\ v + 0 = v
    BY ReadableFacts
  <2>4. pc'[c] = "getStateForSave" /\ prior'[c] = v /\ attempt'[c] = 0
    BY <1>1, <2>1, <2>2, <2>3 DEF RaceInv
  <2>5. Versions(Learner(c))' = Versions(Learner(c))
    BY <1>1, <2>2 DEF Versions, tables
  <2> QED
    BY <2>3, <2>4, <2>5 DEF RaceInv, OvertakenTimes
<1>6. CASE GetStateForSave(c)
  <2>1. PICK v \in Readable(Learner(c)) : forSave' = [forSave EXCEPT ![c] = v + 1]
    BY <1>6 DEF GetStateForSave, NumberAfter
  <2>2. /\ pc[c] = "getStateForSave" /\ pc' = [pc EXCEPT ![c] = "save"]
        /\ UNCHANGED <<tables, prior, attempt>>
    BY <1>6 DEF GetStateForSave, NumberAfter
  <2>3. v \in Nat /\ \A w \in Versions(Learner(c)) : w <= v
    BY ReadableFacts DEF Readable, IsLatest
  <2>4. OvertakenTimes(c, attempt[c])
    BY <2>2 DEF RaceInv
  <2>5. appliedTable[signal[c]] # 0 \/ prior[c] + attempt[c] <= v
    BY <1>1, <2>3, <2>4 DEF OvertakenTimes
  <2>6. pc'[c] = "save" /\ forSave'[c] = v + 1 /\ prior' = prior /\ attempt' = attempt
        /\ appliedTable' = appliedTable
    BY <1>1, <2>1, <2>2 DEF tables
  <2> QED
    BY <1>1, <2>3, <2>5, <2>6 DEF RaceInv
<1>7. CASE Save(c)
  BY <1>1, <1>7 DEF Save, RaceInv
<1>8. CASE SaveConflicts(c)
  <2>1. /\ pc[c] = "save" /\ ~ConditionsHold(c)
        /\ \/ attempt[c] < MaxRetries - 1 /\ pc' = [pc EXCEPT ![c] = "refresh"]
           \/ attempt[c] >= MaxRetries - 1 /\ pc' = [pc EXCEPT ![c] = "state_version_conflict"]
        /\ UNCHANGED <<tables, prior, attempt>>
    BY <1>8 DEF SaveConflicts, RetryUpTo, locals
  <2>2. \A k \in Nat : k <= attempt[c] + 1 => OvertakenTimes(c, k)
    <3>1. CASE appliedTable[signal[c]] # 0
      BY <3>1 DEF OvertakenTimes
    <3>2. CASE appliedTable[signal[c]] = 0
      <4>1. forSave[c] \in Versions(Learner(c)) /\ prior[c] + attempt[c] < forSave[c]
        BY <2>1, <3>2 DEF ConditionsHold, RaceInv
      <4>2. \A k \in Nat : k <= attempt[c] + 1 =>
                prior[c] + k \in Nat /\ prior[c] + k <= forSave[c]
        BY <1>1, <4>1
      <4> QED
        BY <1>1, <4>1, <4>2, VersionsBelow DEF OvertakenTimes
    <3> QED
      BY <3>1, <3>2
  <2>3. attempt[c] + 1 \in Nat /\ (attempt[c] >= MaxRetries - 1 => MaxRetries <= attempt[c] + 1)
        /\ MaxRetries \in Nat
    BY <1>1 DEF MaxRetries
  <2>4. UNCHANGED <<appliedTable, prior, attempt>> /\ Versions(Learner(c))' = Versions(Learner(c))
    BY <1>1, <2>1 DEF tables, Versions
  <2> QED
    BY <1>1, <2>1, <2>2, <2>3, <2>4 DEF RaceInv, OvertakenTimes
<1>9. CASE Refresh(c)
  <2>1. /\ pc[c] = "refresh" /\ pc' = [pc EXCEPT ![c] = "getStateForSave"]
        /\ attempt' = [attempt EXCEPT ![c] = attempt[c] + 1]
        /\ UNCHANGED <<tables, prior>>
    BY <1>9 DEF Refresh, Recompute
  <2>2. pc'[c] = "getStateForSave" /\ attempt'[c] = attempt[c] + 1
    BY <1>1, <2>1
  <2>3. UNCHANGED <<appliedTable, prior>> /\ Versions(Learner(c))' = Versions(Learner(c))
    BY <1>1, <2>1 DEF tables, Versions
  <2> QED
    BY <1>1, <2>1, <2>2, <2>3 DEF RaceInv, OvertakenTimes
<1> QED
  BY <1>2, <1>3, <1>4, <1>5, <1>6, <1>7, <1>8, <1>9 DEF Step

\* Every step, stuttering too, keeps RaceInv of every call.
LEMMA NextRace ==
    ASSUME IInv, \A c \in Calls : RaceInv(c), [Next]_applyVars
    PROVE  \A c \in Calls : RaceInv(c)'
<1>1. TablesGrow /\ signal' = signal
  BY NextTables
<1>2. CASE UNCHANGED <<pc, locals>>
  BY <1>1, <1>2, UnmovedKeepsRace DEF locals
<1>3. ASSUME NEW c \in Calls, Begin(c) \/ Step(c)
      PROVE  \A d \in Calls : RaceInv(d)'
  BY <1>1, <1>3, StepMoves, StepKeepsRace, UnmovedKeepsRace DEF Moves
<1> QED
  BY <1>2, <1>3 DEF Next, AppendSignal, applyVars

\* With consistent reads and no faults, a call gives up only on a signal that
\* has been applied, or after as many versions as it made attempts were saved
\* since it first read the state.
THEOREM GivesUpWhenOvertaken == Spec => []ConflictMeansOvertaken
<1> DEFINE RacesInv == \A c \in Calls : RaceInv(c)
<1>1. Init => IInv /\ RacesInv
  BY InitInv, ApplyAssumption DEF Init, RaceInv
<1>2. IInv /\ RacesInv /\ [Next]_applyVars => IInv' /\ RacesInv'
  BY NextInv, NextRace
<1>3. IInv /\ RacesInv => ConflictMeansOvertaken
  <2> SUFFICES ASSUME IInv, RacesInv, NEW c \in Calls, ConsistentReads, ~Faults,
                      pc[c] = "state_version_conflict"
               PROVE  appliedTable[signal[c]] # 0 \/ prior[c] + MaxRetries \in Versions(Learner(c))
    BY DEF ConflictMeansOvertaken
  <2>1. prior[c] \in Nat
    BY DEF IInv, TypeOK
  <2> QED
    BY <2>1 DEF RaceInv, OvertakenTimes, MaxRetries
<1> QED
  BY <1>1, <1>2, <1>3, PTL DEF Spec

-------------------------------------------------------------------------------
(***************************************************************************)
(* Refinement: the two tables implement LearnerHistory, a version being    *)
(* built on some earlier one.                                              *)
(***************************************************************************)
\* What a version may hold.
States == Seq(Signals)

\* Putting the next version of a learner appends it to the versions there are.
LEMMA PutIsAppend ==
    ASSUME NEW n \in Nat, NEW q \in [1..n -> States], NEW e \in States
    PROVE  /\ q \in Seq(States)
           /\ Len(q) = n
           /\ PutItem(q, n + 1, e) = Append(q, e)
<1>1. q \in Seq(States) /\ Len(q) = n
  OBVIOUS
<1>2. /\ PutItem(q, n + 1, e) \in [1..n + 1 -> States]
      /\ \A i \in 1..n : PutItem(q, n + 1, e)[i] = q[i]
      /\ PutItem(q, n + 1, e)[n + 1] = e
  BY DEF PutItem
<1>3. PutItem(q, n + 1, e) \in Seq(States) /\ Len(PutItem(q, n + 1, e)) = n + 1
  BY <1>2
<1>4. \A i \in 1..n + 1 : PutItem(q, n + 1, e)[i] = Append(q, e)[i]
  <2>1. /\ \A i \in 1..n : Append(q, e)[i] = q[i]
        /\ Append(q, e)[n + 1] = e
    BY <1>1, AppendFacts
  <2> QED
    BY <1>2, <2>1
<1>5. Append(q, e) \in Seq(States) /\ Len(Append(q, e)) = n + 1
  BY <1>1, AppendFacts
<1>6. PutItem(q, n + 1, e) = Append(q, e)
  BY <1>3, <1>4, <1>5, SeqEqual
<1> QED
  BY <1>1, <1>6

\* The transaction is one step of the abstract history.
LEMMA WriteProduces ==
    ASSUME IInv, NEW c \in Calls, Writes(c)
    PROVE  History!Next
<1> DEFINE s == signal[c]
           l == Learner(c)
           items == stateTable[l]
           new == stateToSave[c]
<1>1. /\ s \in Signals /\ l \in Learners /\ l = LearnerOf[s]
      /\ new \in Seq(Signals)
      /\ appliedTable[s] = 0
      /\ forSave[c] \in Nat \ {0}
      /\ forSave[c] \notin Versions(l)
      /\ forSave[c] - 1 \in Versions(l) \cup {0}
  BY ApplyAssumption DEF IInv, TypeOK, ApplyAssumption, Learner, CallsInv, CallInv,
     NumberedToSave, ConditionsHold, Writes
<1>2. PICK n \in Nat : Versions(l) = 1..n
  BY <1>1 DEF IInv, TablesInv, TablesTyped, VersionsContiguous
<1>3. forSave[c] = n + 1
  BY <1>1, <1>2
<1>4. items \in [1..n -> Seq(Signals)]
  BY <1>1, <1>2 DEF IInv, TablesInv, TablesTyped
<1>5. PICK b \in Versions(l) \cup {0} : new = Append(Content(l, b), s)
  BY DEF IInv, CallsInv, CallInv, ComputedFromAVersion, Computing, Writes
<1>6. /\ items \in Seq(Seq(Signals))
      /\ Len(items) = n
      /\ PutItem(items, n + 1, new) = Append(items, new)
  <2>1. items \in [1..n -> States] /\ new \in States
    BY <1>1, <1>4 DEF States
  <2>2. /\ items \in Seq(States)
        /\ Len(items) = n
        /\ PutItem(items, n + 1, new) = Append(items, new)
    BY <2>1, PutIsAppend
  <2> QED
    BY <2>2 DEF States
<1>7. /\ stateTable' = [stateTable EXCEPT ![l] = Append(items, new)]
      /\ appliedTable' = [appliedTable EXCEPT ![s] = Len(items) + 1]
  BY <1>3, <1>6 DEF Writes, WriteItems, WriteVersion
<1>8. b \in 0..Len(items) /\ b \in History!Bases(l)
  BY <1>2, <1>5, <1>6 DEF History!Bases
<1>9. Content(l, b) = History!Content(l, b)
  BY DEF Content, History!Content
<1>10. History!Produce(s, b)
  BY <1>1, <1>5, <1>7, <1>8, <1>9 DEF History!Produce
<1> QED
  BY <1>1, <1>8, <1>10 DEF History!Next

\* Whatever the interleaving, staleness and faults, the tables behave as an
\* append-only history to which each signal adds one version at most.
THEOREM RefinesHistory == Spec => ImplementsHistory
<1>1. Init => IInv
  BY InitInv, ApplyAssumption
<1>2. IInv /\ [Next]_applyVars => IInv'
  BY NextInv
<1>3. Init => History!Init
  BY DEF Init, History!Init
<1>4. IInv /\ [Next]_applyVars => [History!Next]_<<stateTable, appliedTable>>
  <2> SUFFICES ASSUME IInv, [Next]_applyVars
               PROVE  [History!Next]_<<stateTable, appliedTable>>
    OBVIOUS
  <2>1. ASSUME NEW c \in Calls, Begin(c) \/ Step(c)
        PROVE  History!Next \/ UNCHANGED <<stateTable, appliedTable>>
    BY <2>1, StepWritesOrNot, WriteProduces DEF tables
  <2> QED
    BY <2>1 DEF Next, AppendSignal, applyVars, tables
<1> QED
  BY <1>1, <1>2, <1>3, <1>4, PTL DEF Spec, ImplementsHistory, History!Spec, History!historyVars

--------------------------------------------------------------------------------
\* The variables that the pipeline adds.
IngestTyped ==
    /\ idempotency \subseteq Signals
    /\ stage \in [Calls -> Stages]
    /\ outcome \in [Calls -> {"none", "accepted", "duplicate", "rejected", "error"}]
    /\ evaluation \in [Calls -> Evaluations]
    /\ snapshot \in [Calls -> Seq(Signals)]

\* checkAndStore let this call through: it is on its way, has been accepted, or
\* has at least begun to apply its signal.
Entered(c) ==
    \/ stage[c] \in {"appendSignal", "apply", "saveDecision"}
    \/ outcome[c] = "accepted"
    \/ pc[c] # "idle"

\* Of the submissions of one signal it lets one through.
EntryInv ==
    /\ \A c \in Calls : Entered(c) => signal[c] \in idempotency
    /\ \A c, d \in Calls : Entered(c) /\ Entered(d) /\ signal[c] = signal[d] => c = d

Settled == {"logOutcome", "responded", "crashed"}

\* What the stage of a call says of the call inside applySignalsAsync: it never
\* finds its signal applied, because nobody else came so far with it.
StageInv(c) ==
    /\ pc[c] # "idle" => stage[c] \in {"apply", "saveDecision"} \cup Settled
    /\ pc[c] \notin {"getUnchanged", "unchanged"}
    /\ outcome[c] = "accepted" => stage[c] \in Settled
    /\ outcome[c] = "duplicate" => signal[c] \in idempotency
    /\ stage[c] \in {"apply", "saveDecision"} \/ outcome[c] = "accepted" =>
          signal[c] \in signalLog
    /\ stage[c] = "saveDecision" =>
          pc[c] = "applied" /\ snapshot[c] = stateTable[Learner(c)][returned[c]]

\* A signal was applied by a call that is told so or whose transaction threw.
AppliedByCall ==
    \A s \in Signals : appliedTable[s] # 0 =>
        \E c \in Calls : signal[c] = s /\ pc[c] \in {"applied", "threw"}

\* A decision is of a call that applied its signal, on the version it produced.
DecisionsInv ==
    \A d \in decisions : \E c \in Calls :
        /\ pc[c] = "applied"
        /\ d = [by |-> c, learner |-> Learner(c), version |-> returned[c],
                snapshot |-> stateTable[Learner(c)][returned[c]]]

\* Without faults, an id that is recorded is in the log or about to be.
OriginalInv ==
    ~Faults => \A s \in idempotency :
        s \in signalLog \/ \E d \in Calls : signal[d] = s /\ stage[d] = "appendSignal"

\* Without faults and with consistent reads, a version is evaluated next, has
\* been, or is not the latest any more.
EvaluatedInv(c) ==
    ConsistentReads /\ ~Faults /\ pc[c] = "applied" =>
        \/ stage[c] = "apply"
        \/ evaluation[c] \in Verdicts
        \/ ~IsLatest(Learner(c), returned[c])

CallsHold == \A c \in Calls : StageInv(c) /\ EvaluatedInv(c)

IngestInv ==
    /\ IInv /\ IngestTyped
    /\ EntryInv /\ CallsHold /\ AppliedByCall /\ DecisionsInv /\ OriginalInv

-------------------------------------------------------------------------------
\* A step inside applySignalsAsync moves its call alone, and can only apply the
\* call's own signal; a call that has finished takes none.
LEMMA StepEffects ==
    ASSUME IInv, NEW c \in Calls, Begin(c) \/ Step(c)
    PROVE  /\ IInv' /\ TablesGrow /\ signal' = signal /\ signalLog' = signalLog
           /\ \A d \in Calls \ {c} : pc'[d] = pc[d] /\ returned'[d] = returned[d]
           /\ pc[c] \notin Outcomes /\ pc'[c] # "idle"
           /\ pc'[c] = "getUnchanged" => appliedTable[signal[c]] # 0
           /\ pc'[c] = "unchanged" => pc[c] = "getUnchanged"
           /\ \A s \in Signals : appliedTable'[s] # 0 =>
                 appliedTable[s] # 0 \/ (s = signal[c] /\ pc'[c] \in {"applied", "threw"})
<1>1. Next
  BY DEF Next
<1>2. IInv' /\ TablesGrow
  BY <1>1, NextInv
<1>3. Moves(c)
  BY <1>2, StepMoves
<1>4. pc \in [Calls -> {"idle"} \cup Awaiting \cup Outcomes] /\ signal[c] \in Signals
      /\ appliedTable \in [Signals -> Nat]
  BY DEF IInv, TypeOK
<1>5. CASE \/ Begin(c) \/ CheckApplied(c) \/ ReturnUnchanged(c) \/ GetSignals(c)
           \/ GetState(c) \/ RefuseState(c) \/ GetStateForSave(c)
           \/ SaveConflicts(c) \/ Refresh(c)
  <2>1. signalLog' = signalLog /\ appliedTable' = appliedTable /\ signal' = signal
    BY <1>5 DEF Begin, CheckApplied, ReturnUnchanged, GetSignals, GetState, RefuseState,
       GetStateForSave, NumberAfter, SaveConflicts, RetryUpTo, Refresh, Recompute, tables
  <2>2. /\ pc[c] \notin Outcomes /\ pc'[c] # "idle"
        /\ pc'[c] = "getUnchanged" => appliedTable[signal[c]] # 0
        /\ pc'[c] = "unchanged" => pc[c] = "getUnchanged"
    BY <1>4, <1>5 DEF Begin, CheckApplied, ReturnUnchanged, GetSignals, GetState, RefuseState,
       GetStateForSave, NumberAfter, SaveConflicts, RetryUpTo, Refresh, Recompute, Outcomes
  <2> QED
    <3>1. \A d \in Calls \ {c} : pc'[d] = pc[d] /\ returned'[d] = returned[d]
      BY <1>3 DEF Moves
    <3>2. \A s \in Signals : appliedTable'[s] # 0 => appliedTable[s] # 0
      BY <2>1
    <3> QED
      BY <1>2, <2>1, <2>2, <3>1, <3>2
<1>6. CASE Save(c) \/ PortThrows(c)
  <2>1. /\ signal' = signal /\ signalLog' = signalLog
        /\ pc[c] \in Awaiting /\ pc'[c] \in {"applied", "threw"}
        /\ appliedTable' = appliedTable \/ appliedTable' = [appliedTable EXCEPT ![signal[c]] = forSave[c]]
    BY <1>4, <1>6 DEF Save, PortThrows, WriteItems, WriteVersion, tables, Awaiting
  <2> QED
    BY <1>2, <1>3, <1>4, <2>1 DEF Moves, Awaiting, Outcomes
<1> QED
  BY <1>5, <1>6 DEF Step

\* Appending a signal to the log changes nothing that calls or versions are.
LEMMA AppendEffects ==
    ASSUME IInv, NEW s \in Signals, AppendSignal(s)
    PROVE  /\ IInv' /\ TablesGrow
           /\ signalLog' = signalLog \cup {s}
           /\ UNCHANGED <<stateTable, appliedTable, signal, pc, locals>>
BY NextInv DEF Next, AppendSignal

-------------------------------------------------------------------------------
\* The first state satisfies the invariant.
LEMMA InitIngest == ApplyAssumption /\ IngestInit => IngestInv
<1> SUFFICES ASSUME ApplyAssumption, IngestInit PROVE IngestInv
  OBVIOUS
<1>1. Init
  BY DEF IngestInit
<1>2. IInv
  BY <1>1, InitInv
<1>3. IngestTyped
  BY DEF IngestInit, IngestTyped, Stages, Evaluations
<1>4. \A c \in Calls : pc[c] = "idle" /\ stage[c] = "idle" /\ outcome[c] = "none"
  BY <1>1 DEF IngestInit, Init
<1>5. EntryInv /\ CallsHold
  BY <1>4 DEF EntryInv, Entered, CallsHold, StageInv, EvaluatedInv, Settled
<1>6. AppliedByCall /\ DecisionsInv /\ OriginalInv
  BY <1>1 DEF IngestInit, Init, AppliedByCall, DecisionsInv, OriginalInv
<1> QED
  BY <1>2, <1>3, <1>5, <1>6 DEF IngestInv

\* Call c goes on to "there", with this outcome, and leaves the tables alone.
MovesTo(c, there, result) ==
    /\ stage' = [stage EXCEPT ![c] = there]
    /\ outcome' = [outcome EXCEPT ![c] = result]
    /\ UNCHANGED <<applyVars, decisions, snapshot>>

Results == {"none", "accepted", "duplicate", "rejected", "error"}

\* A move out of the stages others rely on, or on to where nothing is claimed
\* that did not hold before, keeps the invariant.
LEMMA MoveKeepsInv ==
    ASSUME IngestInv, NEW c \in Calls, NEW there \in Stages, NEW result \in Results,
           MovesTo(c, there, result),
           there \notin {"appendSignal", "apply", "saveDecision"},
           there \in Settled \/ pc[c] = "idle",
           result = "accepted" => Entered(c) /\ signal[c] \in signalLog /\ there \in Settled,
           result = "duplicate" => signal[c] \in idempotency',
           idempotency' = idempotency \/ idempotency' = idempotency \cup {signal[c]},
           evaluation' \in [Calls -> Evaluations],
           ~Faults => /\ idempotency' = idempotency /\ evaluation' = evaluation
                      /\ stage[c] # "appendSignal"
                      /\ stage[c] = "apply" => pc[c] # "applied"
    PROVE  IngestInv'
<1>1. /\ stage \in [Calls -> Stages] /\ stage' \in [Calls -> Stages]
      /\ stage'[c] = there
      /\ \A d \in Calls \ {c} : stage'[d] = stage[d]
      /\ outcome \in [Calls -> Results] /\ outcome' \in [Calls -> Results]
      /\ outcome'[c] = result
      /\ \A d \in Calls \ {c} : outcome'[d] = outcome[d]
  BY DEF IngestInv, IngestTyped, MovesTo, Results
<1>2. /\ signalLog' = signalLog /\ stateTable' = stateTable /\ appliedTable' = appliedTable
      /\ signal' = signal /\ pc' = pc /\ returned' = returned
      /\ decisions' = decisions /\ snapshot' = snapshot
  BY DEF MovesTo, applyVars, tables, locals
<1>3. IInv'
  BY NextInv DEF IngestInv, MovesTo
<1>4. IngestTyped'
  <2>1. signal[c] \in Signals
    BY DEF IngestInv, IInv, TypeOK
  <2> QED
    BY <1>1, <1>2, <2>1 DEF IngestInv, IngestTyped, Results
<1>5. idempotency \subseteq idempotency'
  OBVIOUS
<1>6. \A d \in Calls : Entered(d)' => Entered(d)
  BY <1>1, <1>2 DEF Entered
<1>7. EntryInv'
  BY <1>2, <1>5, <1>6 DEF IngestInv, EntryInv
<1>8. CallsHold'
  <2>1. ASSUME NEW d \in Calls PROVE StageInv(d)'
    <3>1. CASE d = c
      BY <1>1, <1>2, <1>5, <3>1 DEF IngestInv, CallsHold, StageInv
    <3>2. CASE d # c
      BY <1>1, <1>2, <1>5, <3>2 DEF IngestInv, CallsHold, StageInv, Learner
    <3> QED
      BY <3>1, <3>2
  <2>2. ASSUME NEW d \in Calls PROVE EvaluatedInv(d)'
    BY <1>1, <1>2 DEF IngestInv, CallsHold, EvaluatedInv, IsLatest, Versions, Learner
  <2> QED
    BY <2>1, <2>2 DEF CallsHold
<1>9. AppliedByCall' /\ DecisionsInv'
  BY <1>2 DEF IngestInv, AppliedByCall, DecisionsInv, Learner
<1>10. OriginalInv'
  BY <1>1, <1>2 DEF IngestInv, OriginalInv
<1> QED
  BY <1>3, <1>4, <1>7, <1>8, <1>9, <1>10 DEF IngestInv

\* The steps that let a call go on or settle it, without writing to a table of
\* the STATE engine, to the log or to the decisions.
LEMMA QuietSteps ==
    ASSUME IngestInv, NEW c \in Calls,
           \/ Receive(c) \/ Normalize(c)
           \/ CheckAndStore(c) /\ signal[c] \in idempotency
           \/ ApplyFailed(c) \/ EvaluateThrows(c) \/ Respond(c)
           \/ StoreThrows(c) \/ StoreRepeated(c)
           \/ AppendThrows(c) /\ UNCHANGED applyVars
           \/ Crash(c)
    PROVE  IngestInv'
<1> USE DEF At, Goto, Settle, Settled
<1>1. /\ stage \in [Calls -> Stages]
      /\ outcome \in [Calls -> Results] /\ outcome = [outcome EXCEPT ![c] = outcome[c]]
      /\ evaluation \in [Calls -> Evaluations]
      /\ StageInv(c)
  BY DEF IngestInv, IngestTyped, Results, CallsHold
<1>2. {"normalize", "checkAndStore", "logOutcome", "responded", "crashed"} \subseteq Stages
  BY DEF Stages
<1>3. \A there \in Stages, result \in Results :
          /\ MovesTo(c, there, result)
          /\ there \notin {"appendSignal", "apply", "saveDecision"}
          /\ there \in Settled \/ pc[c] = "idle"
          /\ result = "accepted" => Entered(c) /\ signal[c] \in signalLog /\ there \in Settled
          /\ result = "duplicate" => signal[c] \in idempotency'
          /\ idempotency' = idempotency \/ idempotency' = idempotency \cup {signal[c]}
          /\ evaluation' \in [Calls -> Evaluations]
          /\ ~Faults => /\ idempotency' = idempotency /\ evaluation' = evaluation
                        /\ stage[c] # "appendSignal"
                        /\ stage[c] = "apply" => pc[c] # "applied"
          => IngestInv'
  BY MoveKeepsInv
<1>4. CASE Receive(c)
  <2>1. /\ stage[c] = "idle" /\ pc[c] = "idle"
        /\ UNCHANGED <<applyVars, idempotency, decisions, evaluation, snapshot>>
    BY <1>1, <1>4 DEF Receive, StageInv
  <2>2. \/ MovesTo(c, "normalize", outcome[c])
        \/ MovesTo(c, "logOutcome", "rejected")
    BY <1>1, <1>4, <2>1 DEF Receive, MovesTo
  <2> QED
    BY <1>1, <1>2, <1>3, <2>1, <2>2 DEF StageInv, Results
<1>5. CASE Normalize(c)
  <2>1. /\ stage[c] = "normalize" /\ pc[c] = "idle"
        /\ UNCHANGED <<applyVars, idempotency, decisions, evaluation, snapshot>>
    BY <1>1, <1>5 DEF Normalize, StageInv
  <2>2. \/ MovesTo(c, "checkAndStore", outcome[c])
        \/ MovesTo(c, "logOutcome", "rejected")
    BY <1>1, <1>5, <2>1 DEF Normalize, MovesTo
  <2> QED
    BY <1>1, <1>2, <1>3, <2>1, <2>2 DEF StageInv, Results
<1>6. CASE CheckAndStore(c) /\ signal[c] \in idempotency
  <2>1. /\ stage[c] = "checkAndStore"
        /\ UNCHANGED <<applyVars, idempotency, decisions, evaluation, snapshot>>
        /\ MovesTo(c, "logOutcome", "duplicate")
    BY <1>6 DEF CheckAndStore, MovesTo
  <2> QED
    BY <1>1, <1>2, <1>3, <1>6, <2>1 DEF Results
<1>7. CASE ApplyFailed(c)
  <2>1. /\ stage[c] = "apply" /\ pc[c] # "applied"
        /\ UNCHANGED <<applyVars, idempotency, decisions, evaluation, snapshot>>
        /\ MovesTo(c, "logOutcome", "accepted")
    BY <1>7 DEF ApplyFailed, MovesTo
  <2>2. Entered(c) /\ signal[c] \in signalLog
    BY <1>1, <2>1 DEF Entered, StageInv
  <2> QED
    BY <1>1, <1>2, <1>3, <2>1, <2>2 DEF Results
<1>8. CASE EvaluateThrows(c)
  <2>1. /\ Faults /\ stage[c] = "apply"
        /\ evaluation' = [evaluation EXCEPT ![c] = "threw"]
        /\ UNCHANGED <<applyVars, idempotency, decisions, snapshot>>
        /\ MovesTo(c, "logOutcome", "accepted")
    BY <1>8 DEF EvaluateThrows, MovesTo
  <2>2. Entered(c) /\ signal[c] \in signalLog
    BY <1>1, <2>1 DEF Entered, StageInv
  <2>3. evaluation' \in [Calls -> Evaluations]
    BY <1>1, <2>1 DEF Evaluations
  <2> QED
    BY <1>1, <1>2, <1>3, <2>1, <2>2, <2>3 DEF Results
<1>9. CASE Respond(c)
  <2>1. /\ stage[c] = "logOutcome"
        /\ UNCHANGED <<applyVars, idempotency, decisions, evaluation, snapshot>>
        /\ MovesTo(c, "responded", outcome[c])
    BY <1>1, <1>9 DEF Respond, MovesTo
  <2>2. outcome[c] = "accepted" => Entered(c) /\ signal[c] \in signalLog
    BY <1>1 DEF Entered, StageInv
  <2> QED
    BY <1>1, <1>2, <1>3, <2>1, <2>2 DEF StageInv
<1>10. CASE StoreThrows(c)
  <2>1. /\ Faults /\ stage[c] = "checkAndStore"
        /\ idempotency' = idempotency \/ idempotency' = idempotency \cup {signal[c]}
        /\ UNCHANGED <<applyVars, decisions, evaluation, snapshot>>
        /\ MovesTo(c, "logOutcome", "error")
    BY <1>10 DEF StoreThrows, MovesTo
  <2> QED
    BY <1>1, <1>2, <1>3, <2>1 DEF Results
<1>11. CASE StoreRepeated(c)
  <2>1. /\ Faults /\ stage[c] = "checkAndStore"
        /\ idempotency' = idempotency \cup {signal[c]}
        /\ UNCHANGED <<applyVars, decisions, evaluation, snapshot>>
        /\ MovesTo(c, "logOutcome", "duplicate")
    BY <1>11 DEF StoreRepeated, MovesTo
  <2> QED
    BY <1>1, <1>2, <1>3, <2>1 DEF Results
<1>12. CASE AppendThrows(c) /\ UNCHANGED applyVars
  <2>1. /\ Faults /\ stage[c] = "appendSignal"
        /\ UNCHANGED <<applyVars, idempotency, decisions, evaluation, snapshot>>
        /\ MovesTo(c, "logOutcome", "error")
    BY <1>12 DEF AppendThrows, MovesTo
  <2> QED
    BY <1>1, <1>2, <1>3, <2>1 DEF Results
<1>13. CASE Crash(c)
  <2>1. /\ Faults
        /\ UNCHANGED <<applyVars, idempotency, decisions, evaluation, snapshot>>
        /\ MovesTo(c, "crashed", outcome[c])
    BY <1>1, <1>13 DEF Crash, MovesTo
  <2>2. outcome[c] = "accepted" => Entered(c) /\ signal[c] \in signalLog
    BY <1>1 DEF Entered, StageInv
  <2> QED
    BY <1>1, <1>2, <1>3, <2>1, <2>2 DEF StageInv
<1> QED
  BY <1>4, <1>5, <1>6, <1>7, <1>8, <1>9, <1>10, <1>11, <1>12, <1>13

\* The check lets the first submission of a signal through: any call that came
\* further with the signal would have recorded it.
LEMMA EntryKeeps ==
    ASSUME IngestInv, NEW c \in Calls, CheckAndStore(c), signal[c] \notin idempotency
    PROVE  IngestInv'
<1> USE DEF At, Goto, Settle
<1>1. /\ stage[c] = "checkAndStore"
      /\ idempotency' = idempotency \cup {signal[c]}
      /\ stage' = [stage EXCEPT ![c] = "appendSignal"]
      /\ UNCHANGED <<applyVars, decisions, outcome, evaluation, snapshot>>
  BY DEF CheckAndStore
<1>2. /\ signalLog' = signalLog /\ stateTable' = stateTable /\ appliedTable' = appliedTable
      /\ signal' = signal /\ pc' = pc /\ returned' = returned
      /\ decisions' = decisions /\ snapshot' = snapshot /\ outcome' = outcome
      /\ evaluation' = evaluation
  BY <1>1 DEF applyVars, tables, locals
<1>3. /\ signal[c] \in Signals
      /\ stage' \in [Calls -> Stages]
      /\ stage'[c] = "appendSignal"
      /\ \A d \in Calls \ {c} : stage'[d] = stage[d]
  BY <1>1 DEF IngestInv, IngestTyped, IInv, TypeOK, Stages
<1>4. IInv'
  BY <1>1, NextInv DEF IngestInv
<1>5. IngestTyped'
  BY <1>1, <1>2, <1>3 DEF IngestInv, IngestTyped
<1>6. EntryInv'
  <2>1. \A d \in Calls : Entered(d) => signal[d] \in idempotency
    BY DEF IngestInv, EntryInv
  <2>2. \A d \in Calls \ {c} : Entered(d)' => Entered(d)
    BY <1>2, <1>3 DEF Entered
  <2>3. \A d \in Calls : Entered(d)' => signal'[d] \in idempotency'
    BY <1>1, <1>2, <2>1, <2>2
  <2>4. ASSUME NEW d \in Calls, NEW e \in Calls,
               Entered(d)', Entered(e)', signal'[d] = signal'[e]
        PROVE  d = e
    BY <1>2, <2>1, <2>2, <2>4 DEF IngestInv, EntryInv
  <2> QED
    BY <2>3, <2>4 DEF EntryInv
<1>7. CallsHold'
  <2>1. ASSUME NEW d \in Calls PROVE StageInv(d)'
    BY <1>1, <1>2, <1>3 DEF IngestInv, CallsHold, StageInv, Learner, Settled
  <2>2. ASSUME NEW d \in Calls PROVE EvaluatedInv(d)'
    BY <1>1, <1>2, <1>3 DEF IngestInv, CallsHold, EvaluatedInv, IsLatest, Versions, Learner
  <2> QED
    BY <2>1, <2>2 DEF CallsHold
<1>8. AppliedByCall' /\ DecisionsInv'
  BY <1>2 DEF IngestInv, AppliedByCall, DecisionsInv, Learner
<1>9. OriginalInv'
  <2> SUFFICES ASSUME ~Faults, NEW s \in idempotency'
               PROVE  s \in signalLog' \/ \E d \in Calls : signal'[d] = s /\ stage'[d] = "appendSignal"
    BY DEF OriginalInv
  <2>1. CASE s = signal[c]
    BY <1>2, <1>3, <2>1
  <2>2. CASE s \in idempotency
    <3>1. s \in signalLog \/ \E d \in Calls : signal[d] = s /\ stage[d] = "appendSignal"
      BY <2>2 DEF IngestInv, OriginalInv
    <3> QED
      BY <1>1, <1>2, <1>3, <3>1
  <2> QED
    BY <1>1, <2>1, <2>2
<1> QED
  BY <1>4, <1>5, <1>6, <1>7, <1>8, <1>9 DEF IngestInv

\* What the tables and the calls say survives an append to the log.
LEMMA AppendKeeps ==
    ASSUME IngestInv, NEW c \in Calls, stage[c] = "appendSignal", AppendSignal(signal[c]),
           NEW there \in {"apply", "logOutcome"}, NEW result \in Results,
           stage' = [stage EXCEPT ![c] = there],
           outcome' = [outcome EXCEPT ![c] = result],
           result # "accepted", result = "duplicate" => signal[c] \in idempotency,
           UNCHANGED <<idempotency, decisions, evaluation, snapshot>>
    PROVE  IngestInv'
<1>1. signal[c] \in Signals /\ StageInv(c)
  BY DEF IngestInv, IInv, TypeOK, CallsHold
<1>2. /\ IInv'
      /\ signalLog' = signalLog \cup {signal[c]}
      /\ stateTable' = stateTable /\ appliedTable' = appliedTable
      /\ signal' = signal /\ pc' = pc /\ returned' = returned
  BY <1>1, AppendEffects DEF IngestInv, locals
<1>3. /\ stage' \in [Calls -> Stages]
      /\ stage'[c] = there
      /\ \A d \in Calls \ {c} : stage'[d] = stage[d]
      /\ outcome' \in [Calls -> Results]
      /\ outcome'[c] = result
      /\ \A d \in Calls \ {c} : outcome'[d] = outcome[d]
  BY DEF IngestInv, IngestTyped, Stages, Results
<1>4. IngestTyped'
  BY <1>3 DEF IngestInv, IngestTyped, Results
<1>5. Entered(c) /\ \A d \in Calls : Entered(d)' => Entered(d)
  BY <1>2, <1>3 DEF Entered
<1>6. EntryInv'
  BY <1>2, <1>5 DEF IngestInv, EntryInv
<1>7. CallsHold'
  <2>1. pc[c] = "idle"
    BY <1>1 DEF StageInv, Settled
  <2>2. ASSUME NEW d \in Calls PROVE StageInv(d)'
    <3>1. CASE d = c
      BY <1>2, <1>3, <2>1, <3>1 DEF StageInv, Settled
    <3>2. CASE d # c
      BY <1>2, <1>3, <3>2 DEF IngestInv, CallsHold, StageInv, Learner
    <3> QED
      BY <3>1, <3>2
  <2>3. ASSUME NEW d \in Calls PROVE EvaluatedInv(d)'
    BY <1>2, <1>3, <2>1 DEF IngestInv, CallsHold, EvaluatedInv, IsLatest, Versions, Learner
  <2> QED
    BY <2>2, <2>3 DEF CallsHold
<1>8. AppliedByCall' /\ DecisionsInv'
  BY <1>2 DEF IngestInv, AppliedByCall, DecisionsInv, Learner
<1>9. OriginalInv'
  <2> SUFFICES ASSUME ~Faults, NEW s \in idempotency
               PROVE  s \in signalLog' \/ \E d \in Calls : signal'[d] = s /\ stage'[d] = "appendSignal"
    BY DEF OriginalInv
  <2>1. s \in signalLog \/ \E d \in Calls : signal[d] = s /\ stage[d] = "appendSignal"
    BY DEF IngestInv, OriginalInv
  <2> QED
    BY <1>2, <1>3, <2>1
<1> QED
  BY <1>2, <1>4, <1>6, <1>7, <1>8, <1>9 DEF IngestInv

\* The two places where the signal is appended.
LEMMA AppendSteps ==
    ASSUME IngestInv, NEW c \in Calls,
           \/ AppendSignalOf(c)
           \/ AppendThrows(c) /\ ~UNCHANGED applyVars
    PROVE  IngestInv'
<1> USE DEF At, Goto, Settle
<1>1. /\ outcome \in [Calls -> Results] /\ outcome = [outcome EXCEPT ![c] = outcome[c]]
      /\ StageInv(c)
  BY DEF IngestInv, IngestTyped, Results, CallsHold
<1>2. CASE AppendSignalOf(c)
  <2>1. /\ stage[c] = "appendSignal" /\ AppendSignal(signal[c])
        /\ stage' = [stage EXCEPT ![c] = "apply"]
        /\ UNCHANGED <<idempotency, decisions, outcome, evaluation, snapshot>>
    BY <1>2 DEF AppendSignalOf
  <2>2. /\ outcome' = [outcome EXCEPT ![c] = outcome[c]]
        /\ outcome[c] \in Results \ {"accepted"}
        /\ outcome[c] = "duplicate" => signal[c] \in idempotency
    BY <1>1, <2>1 DEF StageInv, Settled
  <2> QED
    BY <2>1, <2>2, AppendKeeps
<1>3. CASE AppendThrows(c) /\ ~UNCHANGED applyVars
  <2>1. /\ stage[c] = "appendSignal" /\ AppendSignal(signal[c])
        /\ stage' = [stage EXCEPT ![c] = "logOutcome"]
        /\ outcome' = [outcome EXCEPT ![c] = "error"]
        /\ UNCHANGED <<idempotency, decisions, evaluation, snapshot>>
    BY <1>3 DEF AppendThrows
  <2> QED
    BY <2>1, AppendKeeps DEF Results
<1> QED
  BY <1>2, <1>3

\* Versions that are stored stay what they are, and stay superseded.
LEMMA StoredStays ==
    ASSUME IInv, TablesGrow, signal' = signal, NEW c \in Calls
    PROVE  /\ Learner(c)' = Learner(c) /\ Learner(c) \in Learners
           /\ \A v \in Versions(Learner(c)) :
                 stateTable'[Learner(c)][v] = stateTable[Learner(c)][v]
           /\ \A v : v \in Versions(Learner(c)) /\ ~IsLatest(Learner(c), v)
                        => ~IsLatest(Learner(c), v)'
           /\ pc[c] = "applied" => returned[c] \in Versions(Learner(c))
<1>1. Learner(c)' = Learner(c) /\ Learner(c) \in Learners /\ signal[c] \in Signals
  BY ApplyAssumption DEF IInv, TypeOK, ApplyAssumption, Learner
<1>2. \A v \in Versions(Learner(c)) :
          /\ v \in Versions(Learner(c))'
          /\ stateTable'[Learner(c)][v] = stateTable[Learner(c)][v]
  BY <1>1 DEF TablesGrow, Versions
<1>3. ASSUME NEW v, v \in Versions(Learner(c)), ~IsLatest(Learner(c), v)
      PROVE  ~IsLatest(Learner(c), v)'
  BY <1>1, <1>2, <1>3 DEF IsLatest
<1>4. pc[c] = "applied" => returned[c] \in Versions(Learner(c))
  BY <1>1 DEF IInv, CallsInv, CallInv, AppliedIsRecorded, TablesInv, TablesAgree, Learner
<1> QED
  BY <1>1, <1>2, <1>3, <1>4

\* Inside applySignalsAsync only the call itself can apply its signal, so it
\* never finds the signal applied; what others hold or decided stays.
LEMMA ApplyKeeps ==
    ASSUME IngestInv, NEW c \in Calls, ApplySignals(c)
    PROVE  IngestInv'
<1>1. /\ stage[c] = "apply"
      /\ Begin(c) \/ Step(c)
      /\ UNCHANGED <<idempotency, decisions, stage, outcome, evaluation, snapshot>>
  BY DEF ApplySignals, At, ingestVars
<1>2. /\ IInv /\ IInv' /\ TablesGrow /\ signal' = signal /\ signalLog' = signalLog
      /\ \A d \in Calls \ {c} : pc'[d] = pc[d] /\ returned'[d] = returned[d]
      /\ pc[c] \notin Outcomes /\ pc'[c] # "idle"
      /\ pc'[c] = "getUnchanged" => appliedTable[signal[c]] # 0
      /\ pc'[c] = "unchanged" => pc[c] = "getUnchanged"
      /\ \A s \in Signals : appliedTable'[s] # 0 =>
            appliedTable[s] # 0 \/ (s = signal[c] /\ pc'[c] \in {"applied", "threw"})
  BY <1>1, StepEffects DEF IngestInv
<1>3. Entered(c) /\ \A d \in Calls : Entered(d)' => Entered(d)
  BY <1>1, <1>2 DEF Entered
<1>4. appliedTable[signal[c]] = 0
  <2> SUFFICES ASSUME appliedTable[signal[c]] # 0 PROVE FALSE
    OBVIOUS
  <2>1. PICK d \in Calls : signal[d] = signal[c] /\ pc[d] \in {"applied", "threw"}
    BY <1>2 DEF IngestInv, AppliedByCall, IInv, TypeOK
  <2>2. d = c
    BY <1>3, <2>1 DEF IngestInv, EntryInv, Entered
  <2> QED
    BY <1>2, <2>1, <2>2 DEF Outcomes
<1>5. IngestTyped'
  BY <1>1 DEF IngestInv, IngestTyped
<1>6. EntryInv'
  BY <1>1, <1>2, <1>3 DEF IngestInv, EntryInv
<1>7. AppliedByCall'
  <2> SUFFICES ASSUME NEW s \in Signals, appliedTable'[s] # 0
               PROVE  \E d \in Calls : signal'[d] = s /\ pc'[d] \in {"applied", "threw"}
    BY DEF AppliedByCall
  <2>1. CASE s = signal[c] /\ pc'[c] \in {"applied", "threw"}
    BY <1>2, <2>1
  <2>2. CASE appliedTable[s] # 0
    <3>1. PICK d \in Calls : signal[d] = s /\ pc[d] \in {"applied", "threw"}
      BY <2>2 DEF IngestInv, AppliedByCall
    <3>2. d # c
      BY <1>2, <3>1 DEF Outcomes
    <3> QED
      BY <1>2, <3>1, <3>2
  <2> QED
    BY <1>2, <2>1, <2>2
<1>8. \A d \in Calls :
          /\ Learner(d)' = Learner(d) /\ Learner(d) \in Learners
          /\ \A v \in Versions(Learner(d)) :
                stateTable'[Learner(d)][v] = stateTable[Learner(d)][v]
          /\ \A v : v \in Versions(Learner(d)) /\ ~IsLatest(Learner(d), v)
                       => ~IsLatest(Learner(d), v)'
          /\ pc[d] = "applied" => returned[d] \in Versions(Learner(d))
  BY <1>2, StoredStays
<1>9. CallsHold'
  <2>1. ASSUME NEW d \in Calls PROVE StageInv(d)'
    <3>1. StageInv(d)
      BY DEF IngestInv, CallsHold
    <3>2. CASE d = c
      BY <1>1, <1>2, <1>4, <3>1, <3>2 DEF StageInv, Settled
    <3>3. CASE d # c
      <4>1. stage[d] = "saveDecision" => snapshot[d] = stateTable'[Learner(d)][returned[d]]
        BY <1>8, <3>1 DEF StageInv
      <4> QED
        BY <1>1, <1>2, <1>8, <3>1, <3>3, <4>1 DEF StageInv
    <3> QED
      BY <3>2, <3>3
  <2>2. ASSUME NEW d \in Calls PROVE EvaluatedInv(d)'
    <3>1. EvaluatedInv(d)
      BY DEF IngestInv, CallsHold
    <3>2. CASE d = c
      BY <1>1, <3>2 DEF EvaluatedInv
    <3>3. CASE d # c
      <4>1. pc[d] = "applied" /\ ~IsLatest(Learner(d), returned[d]) => ~IsLatest(Learner(d), returned[d])'
        BY <1>2, <1>8, <3>3 DEF IsLatest
      <4> QED
        BY <1>1, <1>2, <1>8, <3>1, <3>3, <4>1 DEF EvaluatedInv
    <3> QED
      BY <3>2, <3>3
  <2> QED
    BY <2>1, <2>2 DEF CallsHold
<1>10. DecisionsInv'
  <2> SUFFICES ASSUME NEW d \in decisions
               PROVE  \E e \in Calls :
                         /\ pc'[e] = "applied"
                         /\ d = [by |-> e, learner |-> Learner(e)', version |-> returned'[e],
                                 snapshot |-> stateTable'[Learner(e)'][returned'[e]]]
    BY <1>1 DEF DecisionsInv
  <2>1. PICK e \in Calls :
            /\ pc[e] = "applied"
            /\ d = [by |-> e, learner |-> Learner(e), version |-> returned[e],
                    snapshot |-> stateTable[Learner(e)][returned[e]]]
    BY DEF IngestInv, DecisionsInv
  <2>2. e # c
    BY <1>2, <2>1 DEF Outcomes
  <2>3. stateTable'[Learner(e)'][returned'[e]] = stateTable[Learner(e)][returned[e]]
    BY <1>2, <1>8, <2>1, <2>2
  <2> QED
    BY <1>2, <1>8, <2>1, <2>2, <2>3
<1>11. OriginalInv'
  BY <1>1, <1>2 DEF IngestInv, OriginalInv
<1> QED
  BY <1>2, <1>5, <1>6, <1>7, <1>9, <1>10, <1>11 DEF IngestInv

\* What the evaluation of version v comes to.
ResultOf(c, v, verdict) ==
    CASE v = 0 -> "state_not_found"
      [] v # 0 /\ v # returned[c] -> "trace_state_mismatch"
      [] OTHER -> verdict

\* What is read for the evaluation of a call that applied its signal is the
\* version it produced, or that version is not the latest any more.
LEMMA EvaluateKeeps ==
    ASSUME IngestInv, NEW c \in Calls, Evaluate(c)
    PROVE  IngestInv'
<1> USE DEF At, Goto, Settle
<1>1. /\ IInv /\ StageInv(c) /\ EvaluatedInv(c)
      /\ signal[c] \in Signals
      /\ Learner(c) \in Learners
      /\ stage \in [Calls -> Stages] /\ outcome \in [Calls -> Results]
      /\ evaluation \in [Calls -> Evaluations] /\ snapshot \in [Calls -> Seq(Signals)]
  BY ApplyAssumption DEF IngestInv, IngestTyped, CallsHold, Results, IInv, TypeOK, ApplyAssumption,
     Learner
<1>2. /\ stage[c] = "apply" /\ pc[c] = "applied"
      /\ UNCHANGED <<applyVars, idempotency, decisions>>
  BY <1>1 DEF Evaluate, EvaluateAgainst, StageInv, applyVars, tables, locals
<1>3. /\ signalLog' = signalLog /\ stateTable' = stateTable /\ appliedTable' = appliedTable
      /\ signal' = signal /\ pc' = pc /\ returned' = returned
      /\ decisions' = decisions /\ idempotency' = idempotency
  BY <1>2 DEF applyVars, tables, locals
<1>4. /\ returned[c] \in Versions(Learner(c)) /\ returned[c] # 0
      /\ \A v \in Versions(Learner(c)) : stateTable[Learner(c)][v] \in Seq(Signals)
      /\ \A v \in Versions(Learner(c)) : v \in Nat \ {0}
  <2>1. returned[c] \in Versions(Learner(c))
    BY <1>1, <1>2 DEF IInv, CallsInv, CallInv, AppliedIsRecorded, TablesInv, TablesAgree, Learner
  <2> QED
    BY <1>1, <2>1 DEF IInv, TablesInv, TablesTyped
<1>5. PICK v \in Readable(Learner(c)), verdict \in Verdicts :
         /\ evaluation' = [evaluation EXCEPT ![c] = ResultOf(c, v, verdict)]
         /\ snapshot' = [snapshot EXCEPT ![c] = Content(Learner(c), v)]
         /\ IF ResultOf(c, v, verdict) = "matched"
            THEN /\ stage' = [stage EXCEPT ![c] = "saveDecision"] /\ outcome' = outcome
            ELSE /\ stage' = [stage EXCEPT ![c] = "logOutcome"]
                 /\ outcome' = [outcome EXCEPT ![c] = "accepted"]
  BY DEF Evaluate, EvaluateAgainst, ResultOf
<1> DEFINE result == ResultOf(c, v, verdict)
<1>6. result \in Evaluations
  BY DEF Evaluations, ResultOf
<1>7. /\ v \in Versions(Learner(c)) \cup {0}
      /\ ConsistentReads => IsLatest(Learner(c), v)
      /\ Content(Learner(c), v) \in Seq(Signals)
  BY <1>4, <1>5 DEF Readable, Content
<1>8. /\ stage' \in [Calls -> Stages] /\ outcome' \in [Calls -> Results]
      /\ evaluation' \in [Calls -> Evaluations] /\ snapshot' \in [Calls -> Seq(Signals)]
      /\ \A d \in Calls \ {c} :
            /\ stage'[d] = stage[d] /\ outcome'[d] = outcome[d]
            /\ evaluation'[d] = evaluation[d] /\ snapshot'[d] = snapshot[d]
      /\ evaluation'[c] = result /\ snapshot'[c] = Content(Learner(c), v)
      /\ \/ stage'[c] = "saveDecision" /\ result = "matched" /\ outcome'[c] = outcome[c]
         \/ stage'[c] = "logOutcome" /\ outcome'[c] = "accepted"
  <2>1. CASE result = "matched"
    BY <1>1, <1>5, <1>6, <1>7, <2>1 DEF Stages
  <2>2. CASE result # "matched"
    BY <1>1, <1>5, <1>6, <1>7, <2>2 DEF Stages, Results
  <2> QED
    BY <2>1, <2>2
<1>9. result = "matched" => v = returned[c]
  BY DEF ResultOf
<1>10. result \in Verdicts \/ v # returned[c]
  BY <1>4 DEF ResultOf
<1> HIDE DEF result
<1>11. IInv'
  BY <1>2, NextInv DEF IngestInv
<1>12. IngestTyped'
  BY <1>3, <1>8 DEF IngestInv, IngestTyped, Results
<1>13. EntryInv'
  <2>1. \A d \in Calls : Entered(d)' => Entered(d)
    BY <1>2, <1>3, <1>8 DEF Entered
  <2> QED
    BY <1>3, <2>1 DEF IngestInv, EntryInv
<1>14. CallsHold'
  <2>1. StageInv(c)'
    <3>1. stage'[c] = "saveDecision" => snapshot'[c] = stateTable[Learner(c)][returned[c]]
      BY <1>4, <1>8, <1>9 DEF Content
    <3> QED
      BY <1>1, <1>2, <1>3, <1>8, <3>1 DEF StageInv, Settled, Learner
  <2>2. EvaluatedInv(c)'
    <3> SUFFICES ASSUME ConsistentReads, result \notin Verdicts
                 PROVE  ~IsLatest(Learner(c), returned[c])
      BY <1>3, <1>8 DEF EvaluatedInv, IsLatest, Versions, Learner
    <3>1. v # returned[c] /\ IsLatest(Learner(c), v)
      BY <1>7, <1>10
    <3> QED
      BY <1>4, <1>7, <3>1 DEF IsLatest
  <2>3. ASSUME NEW d \in Calls, d # c PROVE StageInv(d)' /\ EvaluatedInv(d)'
    <3>1. StageInv(d) /\ EvaluatedInv(d)
      BY DEF IngestInv, CallsHold
    <3>2. StageInv(d)'
      BY <1>3, <1>8, <2>3, <3>1 DEF StageInv, Learner
    <3>3. EvaluatedInv(d)'
      BY <1>3, <1>8, <2>3, <3>1 DEF EvaluatedInv, IsLatest, Versions, Learner
    <3> QED
      BY <3>2, <3>3
  <2> QED
    BY <2>1, <2>2, <2>3 DEF CallsHold
<1>15. AppliedByCall' /\ DecisionsInv'
  BY <1>3 DEF IngestInv, AppliedByCall, DecisionsInv, Learner
<1>16. OriginalInv'
  <2> SUFFICES ASSUME ~Faults, NEW s \in idempotency
               PROVE  s \in signalLog \/ \E d \in Calls : signal[d] = s /\ stage'[d] = "appendSignal"
    BY <1>3 DEF OriginalInv
  <2>1. s \in signalLog \/ \E d \in Calls : signal[d] = s /\ stage[d] = "appendSignal"
    BY DEF IngestInv, OriginalInv
  <2> QED
    BY <1>2, <1>8, <2>1
<1> QED
  BY <1>11, <1>12, <1>13, <1>14, <1>15, <1>16 DEF IngestInv

\* A decision is saved by a call that applied its signal, on what it has read
\* of the version its signal produced.
LEMMA SaveDecisionKeeps ==
    ASSUME IngestInv, NEW c \in Calls, SaveDecision(c)
    PROVE  IngestInv'
<1> USE DEF At, Goto, Settle
<1>1. /\ stage[c] = "saveDecision"
      /\ stage' = [stage EXCEPT ![c] = "logOutcome"]
      /\ outcome' = [outcome EXCEPT ![c] = "accepted"]
      /\ UNCHANGED <<applyVars, idempotency, evaluation, snapshot>>
      /\ \/ decisions' = decisions
         \/ decisions' = decisions \cup
              {[by |-> c, learner |-> Learner(c), version |-> returned[c], snapshot |-> snapshot[c]]}
  BY DEF SaveDecision, applyVars, tables, locals
<1>2. /\ StageInv(c) /\ EvaluatedInv(c) /\ signal[c] \in Signals
      /\ stage \in [Calls -> Stages] /\ outcome \in [Calls -> Results]
      /\ evaluation \in [Calls -> Evaluations]
  BY DEF IngestInv, IngestTyped, CallsHold, Results, IInv, TypeOK
<1>3. /\ pc[c] = "applied" /\ signal[c] \in signalLog
      /\ snapshot[c] = stateTable[Learner(c)][returned[c]]
  BY <1>1, <1>2 DEF StageInv
<1>4. /\ signalLog' = signalLog /\ stateTable' = stateTable /\ appliedTable' = appliedTable
      /\ signal' = signal /\ pc' = pc /\ returned' = returned
      /\ idempotency' = idempotency /\ evaluation' = evaluation /\ snapshot' = snapshot
  BY <1>1 DEF applyVars, tables, locals
<1>5. /\ stage' \in [Calls -> Stages] /\ outcome' \in [Calls -> Results]
      /\ stage'[c] = "logOutcome" /\ outcome'[c] = "accepted"
      /\ \A d \in Calls \ {c} : stage'[d] = stage[d] /\ outcome'[d] = outcome[d]
  BY <1>1, <1>2 DEF Stages, Results
<1>6. IInv'
  BY <1>1, NextInv DEF IngestInv
<1>7. IngestTyped'
  BY <1>4, <1>5 DEF IngestInv, IngestTyped, Results
<1>8. EntryInv'
  <2>1. \A d \in Calls : Entered(d)' => Entered(d)
    BY <1>1, <1>4, <1>5 DEF Entered
  <2> QED
    BY <1>4, <2>1 DEF IngestInv, EntryInv
<1>9. CallsHold'
  <2>1. StageInv(c)' /\ EvaluatedInv(c)'
    BY <1>1, <1>2, <1>3, <1>4, <1>5 DEF StageInv, EvaluatedInv, Settled, IsLatest, Versions, Learner
  <2>2. ASSUME NEW d \in Calls, d # c PROVE StageInv(d)' /\ EvaluatedInv(d)'
    BY <1>4, <1>5, <2>2 DEF IngestInv, CallsHold, StageInv, EvaluatedInv, IsLatest, Versions, Learner
  <2> QED
    BY <2>1, <2>2 DEF CallsHold
<1>10. AppliedByCall'
  BY <1>4 DEF IngestInv, AppliedByCall
<1>11. DecisionsInv'
  <2> SUFFICES ASSUME NEW d \in decisions'
               PROVE  \E e \in Calls :
                         /\ pc[e] = "applied"
                         /\ d = [by |-> e, learner |-> Learner(e), version |-> returned[e],
                                 snapshot |-> stateTable[Learner(e)][returned[e]]]
    BY <1>4 DEF DecisionsInv, Learner
  <2>1. CASE d \in decisions
    BY <2>1 DEF IngestInv, DecisionsInv
  <2>2. CASE d \notin decisions
    BY <1>1, <1>3, <2>2
  <2> QED
    BY <2>1, <2>2
<1>12. OriginalInv'
  BY <1>1, <1>4, <1>5 DEF IngestInv, OriginalInv
<1> QED
  BY <1>6, <1>7, <1>8, <1>9, <1>10, <1>11, <1>12 DEF IngestInv

\* Every step of the pipeline preserves the invariant.
LEMMA NextIngest == IngestInv /\ [IngestNext]_vars => IngestInv'
<1> SUFFICES ASSUME IngestInv, [IngestNext]_vars PROVE IngestInv'
  OBVIOUS
<1>1. CASE UNCHANGED vars
  <2>1. UNCHANGED <<applyVars, idempotency, decisions, stage, outcome, evaluation, snapshot>>
    BY <1>1 DEF vars, ingestVars
  <2>2. IInv'
    BY <2>1, NextInv DEF IngestInv
  <2>3. /\ signalLog' = signalLog /\ stateTable' = stateTable /\ appliedTable' = appliedTable
        /\ signal' = signal /\ pc' = pc /\ returned' = returned
    BY <2>1 DEF applyVars, tables, locals
  <2> QED
    BY <2>1, <2>2, <2>3 DEF IngestInv, IngestTyped, EntryInv, Entered, CallsHold, StageInv,
       EvaluatedInv, AppliedByCall, DecisionsInv, OriginalInv, IsLatest, Versions, Learner
<1>2. ASSUME NEW c \in Calls, Receive(c) \/ Handle(c) \/ Crash(c)
      PROVE  IngestInv'
  <2>1. CASE CheckAndStore(c) /\ signal[c] \notin idempotency
    BY <2>1, EntryKeeps
  <2>2. CASE AppendSignalOf(c) \/ (AppendThrows(c) /\ ~UNCHANGED applyVars)
    BY <2>2, AppendSteps
  <2>3. CASE ApplySignals(c)
    BY <2>3, ApplyKeeps
  <2>4. CASE Evaluate(c)
    BY <2>4, EvaluateKeeps
  <2>5. CASE SaveDecision(c)
    BY <2>5, SaveDecisionKeeps
  <2> QED
    BY <1>2, <2>1, <2>2, <2>3, <2>4, <2>5, QuietSteps DEF Handle
<1> QED
  BY <1>1, <1>2 DEF IngestNext

-------------------------------------------------------------------------------
(***************************************************************************)
(* What the invariant says of the pipeline.                                *)
(***************************************************************************)
\* A call that applied its signal was told the version recorded for it, which is stored.
LEMMA AppliedVersion ==
    ASSUME IInv, NEW c \in Calls, pc[c] = "applied"
    PROVE  /\ signal[c] \in Signals /\ Learner(c) \in Learners
           /\ returned[c] = appliedTable[signal[c]]
           /\ returned[c] \in Versions(Learner(c))
           /\ returned[c] \in Nat \ {0}
           /\ stateTable[Learner(c)][returned[c]] \in Seq(Signals)
<1>1. signal[c] \in Signals /\ Learner(c) \in Learners
  BY ApplyAssumption DEF IInv, TypeOK, ApplyAssumption, Learner
<1>2. returned[c] = appliedTable[signal[c]] /\ returned[c] \in Versions(Learner(c))
  BY <1>1 DEF IInv, CallsInv, CallInv, AppliedIsRecorded, TablesInv, TablesAgree, Learner
<1> QED
  BY <1>1, <1>2 DEF IInv, TablesInv, TablesTyped

\* The types of the pipeline.
LEMMA IngestTypes == IngestInv => IngestTypeOK
<1> SUFFICES ASSUME IngestInv PROVE IngestTypeOK
  OBVIOUS
<1>1. IInv
  BY DEF IngestInv
<1>2. ASSUME NEW d \in decisions
      PROVE  /\ d.by \in Calls /\ d.learner \in Learners
             /\ d.version \in Nat \ {0} /\ d.snapshot \in Seq(Signals)
  <2>1. PICK c \in Calls :
            /\ pc[c] = "applied"
            /\ d = [by |-> c, learner |-> Learner(c), version |-> returned[c],
                    snapshot |-> stateTable[Learner(c)][returned[c]]]
    BY DEF IngestInv, DecisionsInv
  <2> QED
    BY <1>1, <2>1, AppliedVersion
<1> QED
  BY <1>1, <1>2 DEF IngestInv, IngestTyped, IInv, IngestTypeOK

\* Two calls answered as accepted with one signal, or two decisions on one
\* version, are one.
LEMMA IngestOnce == IngestInv => NothingTwice
<1> SUFFICES ASSUME IngestInv PROVE NothingTwice
  OBVIOUS
<1>1. AcceptedOnce
  <2>1. ASSUME NEW c \in Calls, outcome[c] = "accepted"
        PROVE  signal[c] \in signalLog /\ Entered(c)
    BY <2>1 DEF IngestInv, CallsHold, StageInv, Entered
  <2> QED
    BY <2>1 DEF IngestInv, EntryInv, AcceptedOnce, Answered, At
<1>2. OneDecisionPerVersion
  <2> SUFFICES ASSUME NEW d \in decisions, NEW e \in decisions,
                      d.learner = e.learner, d.version = e.version
               PROVE  d = e
    BY DEF OneDecisionPerVersion
  <2>1. PICK b \in Calls :
            /\ pc[b] = "applied"
            /\ d = [by |-> b, learner |-> Learner(b), version |-> returned[b],
                    snapshot |-> stateTable[Learner(b)][returned[b]]]
    BY DEF IngestInv, DecisionsInv
  <2>2. PICK c \in Calls :
            /\ pc[c] = "applied"
            /\ e = [by |-> c, learner |-> Learner(c), version |-> returned[c],
                    snapshot |-> stateTable[Learner(c)][returned[c]]]
    BY DEF IngestInv, DecisionsInv
  <2>3. signal[b] = signal[c]
    <3>1. Learner(b) = Learner(c) /\ returned[b] = returned[c]
      BY <2>1, <2>2
    <3>2. /\ returned[b] = appliedTable[signal[b]] /\ returned[c] = appliedTable[signal[c]]
          /\ signal[b] \in Signals /\ signal[c] \in Signals
          /\ returned[b] \in Versions(Learner(b)) /\ Learner(b) \in Learners
          /\ returned[b] \in Nat \ {0}
      BY <2>1, <2>2, AppliedVersion DEF IngestInv
    <3>3. \A s \in Signals : LearnerOf[s] = Learner(b) /\ appliedTable[s] # 0 =>
              s = stateTable[Learner(b)][appliedTable[s]][Len(stateTable[Learner(b)][appliedTable[s]])]
      BY DEF IngestInv, IInv, TablesInv, TablesAgree
    <3>4. LearnerOf[signal[b]] = Learner(b) /\ LearnerOf[signal[c]] = Learner(b)
      BY <3>1 DEF Learner
    <3> QED
      BY <3>1, <3>2, <3>3, <3>4
  <2>4. b = c
    BY <2>1, <2>2, <2>3 DEF IngestInv, EntryInv, Entered
  <2> QED
    BY <2>1, <2>2, <2>4
<1> QED
  BY <1>1, <1>2 DEF NothingTwice

\* What a decision records is what the version it names holds.
LEMMA IngestTraceable == IngestInv => DecisionsTraceable
<1> SUFFICES ASSUME IngestInv, NEW d \in decisions
             PROVE  /\ d.version \in Versions(d.learner)
                    /\ d.snapshot = stateTable[d.learner][d.version]
                    /\ appliedTable[signal[d.by]] = d.version
  BY DEF DecisionsTraceable
<1>1. PICK c \in Calls :
          /\ pc[c] = "applied"
          /\ d = [by |-> c, learner |-> Learner(c), version |-> returned[c],
                  snapshot |-> stateTable[Learner(c)][returned[c]]]
  BY DEF IngestInv, DecisionsInv
<1>2. returned[c] = appliedTable[signal[c]] /\ returned[c] \in Versions(Learner(c))
  BY <1>1, AppliedVersion DEF IngestInv
<1> QED
  BY <1>1, <1>2

\* Once nothing is in progress, whoever applied the latest version has evaluated it.
LEMMA IngestEvaluated == IngestInv => CurrentStateEvaluated
<1> SUFFICES ASSUME IngestInv, ConsistentReads, ~Faults,
                    \A c \in Calls : stage[c] \in {"idle", "responded"},
                    NEW c \in Calls, pc[c] = "applied", IsLatest(Learner(c), returned[c])
             PROVE  evaluation[c] \in Verdicts
  BY DEF CurrentStateEvaluated
<1> QED
  BY DEF IngestInv, CallsHold, EvaluatedInv

\* A call answered as a duplicate found an id that was recorded.
LEMMA IngestOriginal == ~Faults /\ IngestInv => DuplicateHasOriginal
BY DEF IngestInv, CallsHold, StageInv, OriginalInv, DuplicateHasOriginal, Answered,
   At

\* A step of the pipeline is a step of concurrent calls of applySignalsAsync,
\* or leaves their variables alone.
LEMMA IngestStepApplies ==
    IngestInv /\ [IngestNext]_vars => [Next]_applyVars
<1> SUFFICES ASSUME IngestInv, [IngestNext]_vars PROVE [Next]_applyVars
  OBVIOUS
<1>1. CASE UNCHANGED vars
  BY <1>1 DEF vars
<1>2. ASSUME NEW c \in Calls, Receive(c) \/ Handle(c) \/ Crash(c)
      PROVE  Next \/ UNCHANGED applyVars
  <2>1. CASE ApplySignals(c)
    BY <2>1 DEF ApplySignals, Next
  <2>2. CASE AppendSignalOf(c) \/ AppendThrows(c)
    <3>1. signal[c] \in Signals
      BY DEF IngestInv, IInv, TypeOK
    <3> QED
      BY <2>2, <3>1 DEF AppendSignalOf, AppendThrows, Next
  <2>3. CASE Evaluate(c)
    BY <2>3 DEF Evaluate, EvaluateAgainst
  <2>4. CASE \/ Receive(c) \/ Normalize(c) \/ CheckAndStore(c)
             \/ ApplyFailed(c) \/ EvaluateThrows(c) \/ SaveDecision(c)
             \/ Respond(c) \/ StoreThrows(c) \/ StoreRepeated(c)
             \/ Crash(c)
    BY <2>4 DEF Receive, Normalize, CheckAndStore, ApplyFailed,
       EvaluateThrows, SaveDecision, Respond, StoreThrows,
       StoreRepeated, Crash
  <2> QED
    BY <1>2, <2>1, <2>2, <2>3, <2>4 DEF Handle
<1> QED
  BY <1>1, <1>2 DEF IngestNext

\* The invariant holds in every state of the pipeline.
LEMMA IngestInvariant == IngestSpec => []IngestInv
<1>1. IngestInit => IngestInv
  BY InitIngest, ApplyAssumption
<1>2. IngestInv /\ [IngestNext]_vars => IngestInv'
  BY NextIngest
<1> QED
  BY <1>1, <1>2, PTL DEF IngestSpec

-------------------------------------------------------------------------------
\* The tables of the pipeline and what its invocations hold keep their types,
\* decisions included: a decision is always on a version that exists.
THEOREM IngestTypeCorrect == IngestSpec => []IngestTypeOK
BY IngestInvariant, IngestTypes, PTL

\* However often a signal is submitted, and whatever crashes, throws or is
\* repeated: it is accepted at most once, an accepted one is in the signal log,
\* and no version is decided on twice.
THEOREM NothingIsDoneTwice == IngestSpec => []NothingTwice
BY IngestInvariant, IngestOnce, PTL

\* A decision names the version its own signal produced, and the snapshot in its
\* trace is what that version holds, although it was read after the save and
\* other signals of the learner go on being applied.
THEOREM DecisionsAlwaysTraceable == IngestSpec => []DecisionsTraceable
BY IngestInvariant, IngestTraceable, PTL

\* The guard on TRACE_STATE_MISMATCH loses no current state: with consistent
\* reads and no fault, when nothing is in progress the latest version of a
\* learner has been evaluated.
THEOREM CurrentStateIsEvaluated == IngestSpec => []CurrentStateEvaluated
BY IngestInvariant, IngestEvaluated, PTL

\* Where nothing fails, a submission answered as a duplicate has an original
\* that is in the signal log or is about to be appended to it.
THEOREM DuplicatesHaveOriginals ==
    ASSUME ~Faults PROVE IngestSpec => []DuplicateHasOriginal
<1>1. IngestInv => DuplicateHasOriginal
  BY IngestOriginal
<1> QED
  BY <1>1, IngestInvariant, PTL

\* The pipeline implements concurrent calls of applySignalsAsync: what it does
\* to the tables of the STATE engine, the signal log included, they can do.
THEOREM PipelineImplementsApply == IngestSpec => ImplementsApply
<1>1. IngestInit => Init
  BY DEF IngestInit
<1> QED
  BY <1>1, IngestInvariant, IngestStepApplies, PTL DEF IngestSpec, ImplementsApply, Spec

\* Within the pipeline too a call gives up only on a signal that was applied or
\* overtaken at each of its attempts, so nothing the pipeline does between its
\* calls of applySignalsAsync disturbs the retry loop.
THEOREM PipelineGivesUpWhenOvertaken == IngestSpec => []ConflictMeansOvertaken
BY PipelineImplementsApply, GivesUpWhenOvertaken, PTL DEF ImplementsApply

===============================================================================
