------------------------- MODULE SqliteIngestionProofs -------------------------
(***************************************************************************)
(* Proofs about SqliteIngestion, for every set of requests, learners and   *)
(* signals, wherever the process dies and however often.                   *)
(***************************************************************************)
EXTENDS SqliteIngestion, SequenceTheorems, TLAPS

\* One thread: whoever is between two awaits is the one that runs.
OneThread == \A r \in Requests : stage[r] \in Synchronous <=> running = r

\* Past the idempotency check, and how far: the signal is in signal_ids, in
\* the log, applied.
Entered == {"appendSignal", "applySignals", "evaluateState", "generate",
            "saveDecision", "accepted"}
Saved == {"evaluateState", "generate", "saveDecision", "accepted"}
Unsaved == {"idle", "normalize", "checkAndStore", "appendSignal", "applySignals"}

\* The check lets one request per signal through.
OneEntry ==
    /\ \A r \in Requests : stage[r] \in Entered => signal[r] \in idempotency
    /\ \A r, q \in Requests :
          stage[r] \in Entered /\ stage[q] \in Entered /\ signal[r] = signal[q] => r = q

\* The log has what went through the check, once; a request about to append
\* finds its signal missing, one about to apply finds it last and not applied.
LogInv ==
    /\ ToSet(signalLog) \subseteq idempotency
    /\ IsInjective(signalLog)
    /\ \A r \in Requests :
          /\ stage[r] = "appendSignal" => signal[r] \notin ToSet(signalLog)
          /\ stage[r] = "applySignals" =>
                /\ signalLog # <<>> /\ signalLog[Len(signalLog)] = signal[r]
                /\ appliedTable[signal[r]] = 0

\* The entry of a signal names the version that merged it last.
AppliedInv ==
    \A s \in Signals : appliedTable[s] # 0 =>
        LET versions == stateTable[LearnerOf[s]]
            merged == versions[appliedTable[s]]
        IN  /\ s \in ToSet(signalLog)
            /\ appliedTable[s] \in DOMAIN versions
            /\ merged # <<>> /\ merged[Len(merged)] = s

\* The current state is the replay of the signals applied so far, and a signal
\* of the log that is not applied is about to be, was cut off by a crash, or
\* failed to be.
Kept(l) == {s \in ToSet(signalLog) : LearnerOf[s] = l /\ appliedTable[s] # 0}
ReplayInv ==
    /\ \A l \in Learners : Replays(CurrentState(l), Kept(l))
    /\ \A s \in ToSet(signalLog) : appliedTable[s] = 0 =>
          \E r \in Requests :
              signal[r] = s /\ (stage[r] \in {"applySignals", "crashed"} \/ AcceptedInVain(r))

\* A request past the apply remembers the version the tables name; only one
\* answered already may have none.
VersionInv ==
    \A r \in Requests :
        /\ stage[r] \in Unsaved => version[r] = 0
        /\ stage[r] \in Saved => version[r] = appliedTable[signal[r]]
        /\ stage[r] \in Saved \ {"accepted"} => version[r] # 0

\* A decision is of a request answered as accepted.
DecisionInv ==
    /\ \A i \in DOMAIN decisions : \E r \in Requests :
          /\ stage[r] = "accepted"
          /\ decisions[i] = [learner |-> Learner(r), version |-> appliedTable[signal[r]]]
    /\ IsInjective(decisions)

NoErrors == \A r \in Requests : stage[r] # "error"

IInv == /\ TypeOK /\ OneThread /\ OneEntry /\ LogInv /\ AppliedInv
        /\ ReplayInv /\ VersionInv /\ DecisionInv /\ NoErrors

-------------------------------------------------------------------------------
\* Appending keeps what a sequence holds and puts one element after it.
LEMMA AppendFacts ==
    ASSUME NEW S, NEW q \in Seq(S), NEW e \in S
    PROVE  /\ Append(q, e) \in Seq(S)
           /\ Len(Append(q, e)) = Len(q) + 1
           /\ Len(q) \in Nat
           /\ DOMAIN q = 1..Len(q)
           /\ DOMAIN Append(q, e) = 1..Len(q) + 1
           /\ \A i \in 1..Len(q) : Append(q, e)[i] = q[i]
           /\ Append(q, e)[Len(q) + 1] = e
           /\ Append(q, e) # <<>>
OBVIOUS

\* Appending a new element adds it to the elements and keeps them distinct.
LEMMA AppendNew ==
    ASSUME NEW S, NEW q \in Seq(S), NEW e \in S
    PROVE  /\ ToSet(Append(q, e)) = ToSet(q) \cup {e}
           /\ IsInjective(q) /\ e \notin ToSet(q) => IsInjective(Append(q, e))
<1>1. /\ Len(q) \in Nat
      /\ DOMAIN q = 1..Len(q)
      /\ DOMAIN Append(q, e) = 1..Len(q) + 1
      /\ \A i \in 1..Len(q) : Append(q, e)[i] = q[i]
      /\ Append(q, e)[Len(q) + 1] = e
  BY AppendFacts
<1>2. ToSet(Append(q, e)) = ToSet(q) \cup {e}
  BY <1>1 DEF ToSet
<1>3. ASSUME IsInjective(q), e \notin ToSet(q)
      PROVE  IsInjective(Append(q, e))
  BY <1>1, <1>3 DEF IsInjective, ToSet
<1> QED
  BY <1>2, <1>3

\* The first state satisfies the invariant.
LEMMA InitInv == SqliteAssumption /\ Init => IInv
<1> SUFFICES ASSUME SqliteAssumption, Init PROVE IInv
  OBVIOUS
<1>1. \A r \in Requests : stage[r] = "idle"
  BY DEF Init
<1>2. ToSet(signalLog) = {} /\ IsInjective(signalLog) /\ IsInjective(decisions) /\ DOMAIN decisions = {}
  BY DEF Init, ToSet, IsInjective
<1>3. TypeOK
  BY DEF Init, TypeOK, SqliteAssumption, Stages
<1>4. OneThread /\ OneEntry /\ VersionInv /\ NoErrors
  BY <1>1 DEF Init, OneThread, OneEntry, VersionInv, NoErrors, Synchronous, Entered, Saved,
     Unsaved, SqliteAssumption
<1>5. LogInv /\ AppliedInv /\ DecisionInv
  BY <1>1, <1>2 DEF Init, LogInv, AppliedInv, DecisionInv
<1>6. ReplayInv
  <2>1. ASSUME NEW l \in Learners PROVE CurrentState(l) = <<>>
    BY DEF Init, CurrentState
  <2>2. DOMAIN <<>> = {} /\ ToSet(<<>>) = {}
    BY DEF ToSet
  <2> QED
    BY <1>2, <2>1, <2>2 DEF ReplayInv, Replays, Kept
<1> QED
  BY <1>3, <1>4, <1>5, <1>6 DEF IInv

-------------------------------------------------------------------------------
\* A request that goes on to "there" while the databases stay as they are.
MovesOn(r, there) ==
    /\ stage' = [stage EXCEPT ![r] = there]
    /\ UNCHANGED <<stores, signal, version, crashes>>

\* A move that takes a request into no stage that asserts more than its own
\* did, and out of none that others rely on, keeps the invariant.
LEMMA MoveKeepsInv ==
    ASSUME IInv, NEW r \in Requests, NEW there \in Stages, MovesOn(r, there),
           OneThread', running' \in Requests \cup {NoRequest},
           there \notin {"appendSignal", "applySignals", "error"},
           there \in Entered => stage[r] \in Entered,
           there \in Saved => stage[r] \in Saved,
           there \in Unsaved => stage[r] \in Unsaved,
           stage[r] \notin {"applySignals", "crashed", "accepted"}
    PROVE  IInv'
<1>1. /\ stage \in [Requests -> Stages]
      /\ stage'[r] = there
      /\ \A q \in Requests \ {r} : stage'[q] = stage[q]
  BY DEF IInv, TypeOK, MovesOn
<1>2. /\ idempotency' = idempotency /\ signalLog' = signalLog /\ stateTable' = stateTable
      /\ appliedTable' = appliedTable /\ decisions' = decisions
      /\ signal' = signal /\ version' = version /\ crashes' = crashes
  BY DEF MovesOn, stores
<1>3. TypeOK'
  BY <1>1, <1>2 DEF IInv, TypeOK, MovesOn
<1>4. OneEntry'
  BY <1>1, <1>2 DEF IInv, OneEntry
<1>5. LogInv'
  BY <1>1, <1>2 DEF IInv, LogInv
<1>6. AppliedInv'
  BY <1>2 DEF IInv, AppliedInv
<1>7. ReplayInv'
  BY <1>1, <1>2 DEF IInv, ReplayInv, Replays, CurrentState, Kept, AcceptedInVain
<1>8. VersionInv' /\ NoErrors'
  BY <1>1, <1>2 DEF IInv, VersionInv, NoErrors
<1>9. DecisionInv'
  BY <1>1, <1>2 DEF IInv, DecisionInv, Learner
<1> QED
  BY <1>3, <1>4, <1>5, <1>6, <1>7, <1>8, <1>9 DEF IInv

\* Whoever takes or keeps the thread, and goes on or yields, is alone on it.
LEMMA ThreadPassed ==
    ASSUME IInv, NEW r \in Requests, NEW there \in Stages,
           running = r \/ running = NoRequest,
           \/ GoOn(r, there) /\ there \in Synchronous
           \/ Yield(r, there) /\ there \notin Synchronous
    PROVE  /\ OneThread'
           /\ running' \in Requests \cup {NoRequest}
           /\ stage' \in [Requests -> Stages]
           /\ stage'[r] = there
           /\ \A q \in Requests \ {r} : stage'[q] = stage[q]
<1>1. /\ stage' \in [Requests -> Stages]
      /\ stage'[r] = there
      /\ \A q \in Requests \ {r} : stage'[q] = stage[q]
  BY DEF IInv, TypeOK, GoOn, Yield
<1>2. \A q \in Requests \ {r} : stage[q] \notin Synchronous
  BY SqliteAssumption DEF IInv, OneThread, SqliteAssumption
<1>3. running' \in Requests \cup {NoRequest}
  BY DEF GoOn, Yield
<1>4. OneThread'
  BY <1>1, <1>2, SqliteAssumption DEF OneThread, GoOn, Yield, SqliteAssumption
<1> QED
  BY <1>1, <1>3, <1>4

\* The steps that write nothing: arrival, normalisation, evaluation, explanation.
LEMMA QuietSteps ==
    ASSUME IInv, NEW r \in Requests,
           Receive(r) \/ Normalize(r) \/ EvaluateState(r) \/ Generated(r)
    PROVE  IInv'
<1> USE DEF Stages, Synchronous, Final, Entered, Saved, Unsaved
<1>1. PICK there \in Stages :
          /\ MovesOn(r, there)
          /\ running = r \/ running = NoRequest
          /\ \/ GoOn(r, there) /\ there \in Synchronous
             \/ Yield(r, there) /\ there \notin Synchronous
          /\ there \notin {"appendSignal", "applySignals", "error"}
          /\ there \in Entered => stage[r] \in Entered
          /\ there \in Saved => stage[r] \in Saved
          /\ there \in Unsaved => stage[r] \in Unsaved
          /\ stage[r] \notin {"applySignals", "crashed", "accepted"}
  BY DEF Receive, Normalize, EvaluateState, Generated, TakeThread, KeepThread, GoOn,
     Yield, MovesOn
<1> QED
  BY <1>1, ThreadPassed, MoveKeepsInv

-------------------------------------------------------------------------------
(***************************************************************************)
(* The steps that commit to a database.                                    *)
(***************************************************************************)
\* The check records a signal and lets the first request of it through.
LEMMA CheckAndStoreKeeps ==
    ASSUME IInv, NEW r \in Requests, CheckAndStore(r)
    PROVE  IInv'
<1> USE DEF Stages, Synchronous, Final, Entered, Saved, Unsaved
<1>1. /\ stage[r] = "checkAndStore" /\ running = r
      /\ idempotency' = idempotency \cup {signal[r]}
      /\ UNCHANGED <<signalLog, stateTable, appliedTable, decisions, signal, version, crashes>>
  BY DEF CheckAndStore, KeepThread
<1>2. CASE signal[r] \in idempotency
  <2>1. Yield(r, "duplicate")
    BY <1>2 DEF CheckAndStore
  <2>2. MovesOn(r, "duplicate")
    BY <1>1, <1>2, <2>1 DEF MovesOn, Yield, stores
  <2> QED
    BY <1>1, <2>1, <2>2, ThreadPassed, MoveKeepsInv
<1>3. CASE signal[r] \notin idempotency
  <2>1. GoOn(r, "appendSignal")
    BY <1>3 DEF CheckAndStore
  <2>2. /\ OneThread' /\ running' \in Requests \cup {NoRequest}
        /\ stage' \in [Requests -> Stages]
        /\ stage'[r] = "appendSignal"
        /\ \A q \in Requests \ {r} : stage'[q] = stage[q]
    BY <1>1, <2>1, ThreadPassed
  <2>3. TypeOK'
    BY <1>1, <2>2 DEF IInv, TypeOK
  <2>4. OneEntry'
    BY <1>1, <1>3, <2>2 DEF IInv, OneEntry
  <2>5. LogInv'
    BY <1>1, <1>3, <2>2 DEF IInv, LogInv
  <2>6. AppliedInv'
    BY <1>1 DEF IInv, AppliedInv
  <2>7. ReplayInv'
    BY <1>1, <2>2 DEF IInv, ReplayInv, Replays, CurrentState, Kept, AcceptedInVain
  <2>8. VersionInv' /\ NoErrors'
    BY <1>1, <2>2 DEF IInv, VersionInv, NoErrors
  <2>9. DecisionInv'
    BY <1>1, <2>2 DEF IInv, DecisionInv, Learner
  <2> QED
    BY <2>2, <2>3, <2>4, <2>5, <2>6, <2>7, <2>8, <2>9 DEF IInv
<1> QED
  BY <1>2, <1>3

\* The append finds its signal missing, so the log stays without repetition.
LEMMA AppendSignalKeeps ==
    ASSUME IInv, NEW r \in Requests, AppendSignal(r)
    PROVE  IInv'
<1> USE DEF Stages, Synchronous, Final, Entered, Saved, Unsaved
<1>1. /\ stage[r] = "appendSignal" /\ running = r
      /\ UNCHANGED <<idempotency, stateTable, appliedTable, decisions, signal, version, crashes>>
  BY DEF AppendSignal, KeepThread
<1>2. /\ signal[r] \in Signals /\ signalLog \in Seq(Signals)
      /\ signal[r] \in idempotency /\ signal[r] \notin ToSet(signalLog)
  BY <1>1 DEF IInv, TypeOK, LogInv, OneEntry
<1>3. GoOn(r, "applySignals") /\ signalLog' = Append(signalLog, signal[r])
  BY <1>2 DEF AppendSignal
<1>4. /\ OneThread' /\ running' \in Requests \cup {NoRequest}
      /\ stage' \in [Requests -> Stages]
      /\ stage'[r] = "applySignals"
      /\ \A q \in Requests \ {r} : stage'[q] = stage[q]
  BY <1>1, <1>3, ThreadPassed
<1>5. /\ signalLog' \in Seq(Signals)
      /\ ToSet(signalLog)' = ToSet(signalLog) \cup {signal[r]}
      /\ IsInjective(signalLog)'
      /\ Len(signalLog') = Len(signalLog) + 1
      /\ signalLog' # <<>> /\ signalLog'[Len(signalLog')] = signal[r]
      /\ \A i \in DOMAIN signalLog : i \in DOMAIN signalLog' /\ signalLog'[i] = signalLog[i]
      /\ DOMAIN signalLog \subseteq Nat
  BY <1>2, <1>3, AppendFacts, AppendNew DEF IInv, LogInv
<1>6. appliedTable[signal[r]] = 0
  BY <1>2 DEF IInv, AppliedInv
<1>7. TypeOK'
  BY <1>1, <1>4, <1>5 DEF IInv, TypeOK
<1>8. OneEntry'
  BY <1>1, <1>4 DEF IInv, OneEntry
<1>9. LogInv'
  <2>1. ToSet(signalLog)' \subseteq idempotency'
    BY <1>1, <1>2, <1>5 DEF IInv, LogInv
  <2>2. ASSUME NEW q \in Requests \ {r}
        PROVE  stage'[q] # "applySignals" /\ (stage'[q] = "appendSignal" => FALSE)
    BY <1>1, <1>4 DEF IInv, OneThread
  <2> QED
    BY <1>1, <1>4, <1>5, <1>6, <2>1, <2>2 DEF LogInv
<1>10. AppliedInv'
  BY <1>1, <1>5 DEF IInv, AppliedInv
<1>11. ReplayInv'
  <2>1. ASSUME NEW l \in Learners
        PROVE  Replays(CurrentState(l), Kept(l))'
    <3>1. CurrentState(l)' = CurrentState(l)
      BY <1>1 DEF CurrentState
    <3>2. Kept(l)' = Kept(l)
      BY <1>1, <1>5, <1>6 DEF Kept
    <3> QED
      BY <1>5, <3>1, <3>2 DEF IInv, ReplayInv, Replays
  <2>2. ASSUME NEW s \in ToSet(signalLog'), appliedTable'[s] = 0
        PROVE  \E q \in Requests :
                  signal'[q] = s /\ (stage'[q] \in {"applySignals", "crashed"} \/ AcceptedInVain(q)')
    BY <1>1, <1>4, <1>5, <2>2 DEF IInv, ReplayInv, AcceptedInVain
  <2> QED
    BY <2>1, <2>2 DEF ReplayInv
<1>12. VersionInv' /\ NoErrors'
  BY <1>1, <1>4 DEF IInv, VersionInv, NoErrors
<1>13. DecisionInv'
  BY <1>1, <1>4 DEF IInv, DecisionInv, Learner
<1> QED
  BY <1>4, <1>7, <1>8, <1>9, <1>10, <1>11, <1>12, <1>13 DEF IInv

\* applySignals puts the next version of its learner: the current state with
\* the last signal of the log merged into it.
LEMMA ApplyFacts ==
    ASSUME IInv, NEW r \in Requests, ApplySignals(r)
    PROVE  LET s == signal[r]
               l == Learner(r)
               items == stateTable[l]
               new == Append(CurrentState(l), s)
           IN  /\ stage[r] = "applySignals" /\ running = r
               /\ UNCHANGED <<idempotency, signalLog, decisions, signal, crashes>>
               /\ s \in Signals /\ l \in Learners /\ l = LearnerOf[s]
               /\ appliedTable[s] = 0
               /\ items \in Seq(Seq(Signals)) /\ CurrentState(l) \in Seq(Signals)
               /\ stateTable' \in [Learners -> Seq(Seq(Signals))]
               /\ stateTable'[l] = Append(items, new)
               /\ \A k \in Learners \ {l} : stateTable'[k] = stateTable[k]
               /\ appliedTable' \in [Signals -> Nat]
               /\ appliedTable'[s] = Len(items) + 1
               /\ \A t \in Signals \ {s} : appliedTable'[t] = appliedTable[t]
               /\ version' \in [Requests -> Nat]
               /\ version'[r] = Len(items) + 1
               /\ \A q \in Requests \ {r} : version'[q] = version[q]
               /\ stage' \in [Requests -> Stages]
               /\ stage'[r] = "evaluateState"
               /\ \A q \in Requests \ {r} : stage'[q] = stage[q]
               /\ OneThread' /\ running' \in Requests \cup {NoRequest}
<1> DEFINE s == signal[r]
           l == Learner(r)
           items == stateTable[l]
           new == Append(CurrentState(l), s)
<1>1. /\ stage[r] = "applySignals" /\ running = r
      /\ UNCHANGED <<idempotency, signalLog, decisions, signal, crashes>>
      /\ appliedTable[s] = 0
      /\ stateTable' = [stateTable EXCEPT ![l] = Append(@, Append(
             IF Len(items) = 0 THEN <<>> ELSE items[Len(items)], s))]
      /\ appliedTable' = [appliedTable EXCEPT ![s] = Len(items) + 1]
      /\ version' = [version EXCEPT ![r] = Len(items) + 1]
      /\ GoOn(r, "evaluateState")
  BY DEF ApplySignals, SaveOn, Current, KeepThread
<1>2. s \in Signals /\ l \in Learners /\ l = LearnerOf[s]
  BY SqliteAssumption DEF IInv, TypeOK, SqliteAssumption, Learner
<1>3. items \in Seq(Seq(Signals)) /\ Len(items) \in Nat
  BY <1>2 DEF IInv, TypeOK
<1>4. (IF Len(items) = 0 THEN <<>> ELSE items[Len(items)]) = CurrentState(l)
  BY <1>3 DEF CurrentState
<1>5. CurrentState(l) \in Seq(Signals)
  BY <1>3 DEF CurrentState
<1>6. new \in Seq(Signals)
  BY <1>2, <1>5, AppendFacts
<1>7. Append(items, new) \in Seq(Seq(Signals))
  BY <1>3, <1>6, AppendFacts
<1>8. stateTable' = [stateTable EXCEPT ![l] = Append(items, new)]
  BY <1>1, <1>4
<1>9. /\ OneThread' /\ running' \in Requests \cup {NoRequest}
      /\ stage' \in [Requests -> Stages]
      /\ stage'[r] = "evaluateState"
      /\ \A q \in Requests \ {r} : stage'[q] = stage[q]
  BY <1>1, ThreadPassed DEF Stages, Synchronous
<1>10. /\ stateTable' \in [Learners -> Seq(Seq(Signals))]
       /\ stateTable'[l] = Append(items, new)
       /\ \A k \in Learners \ {l} : stateTable'[k] = stateTable[k]
  BY <1>2, <1>7, <1>8 DEF IInv, TypeOK
<1>11. /\ appliedTable' \in [Signals -> Nat]
       /\ appliedTable'[s] = Len(items) + 1
       /\ \A t \in Signals \ {s} : appliedTable'[t] = appliedTable[t]
  BY <1>1, <1>2, <1>3 DEF IInv, TypeOK
<1>12. /\ version' \in [Requests -> Nat]
       /\ version'[r] = Len(items) + 1
       /\ \A q \in Requests \ {r} : version'[q] = version[q]
  BY <1>1, <1>3 DEF IInv, TypeOK
<1> HIDE DEF s, l, items, new
<1> QED
  BY <1>1, <1>2, <1>3, <1>5, <1>9, <1>10, <1>11, <1>12 DEF s, l, items, new

\* The state saved is the replay of one signal more, the last of the log.
LEMMA ApplySignalsKeeps ==
    ASSUME IInv, NEW r \in Requests, ApplySignals(r)
    PROVE  IInv'
<1> DEFINE s == signal[r]
           l == Learner(r)
           items == stateTable[l]
           cur == CurrentState(l)
           new == Append(cur, s)
<1>1. /\ UNCHANGED <<idempotency, signalLog, decisions, signal, crashes>>
      /\ s \in Signals /\ l \in Learners /\ l = LearnerOf[s]
      /\ items \in Seq(Seq(Signals)) /\ cur \in Seq(Signals)
      /\ stateTable' \in [Learners -> Seq(Seq(Signals))]
      /\ stateTable'[l] = Append(items, new)
      /\ \A k \in Learners \ {l} : stateTable'[k] = stateTable[k]
  BY ApplyFacts
<1>2. /\ appliedTable[s] = 0
      /\ appliedTable' \in [Signals -> Nat]
      /\ appliedTable'[s] = Len(items) + 1
      /\ \A t \in Signals \ {s} : appliedTable'[t] = appliedTable[t]
      /\ version' \in [Requests -> Nat]
      /\ version'[r] = Len(items) + 1
      /\ \A q \in Requests \ {r} : version'[q] = version[q]
  BY ApplyFacts
<1>3. /\ stage[r] = "applySignals" /\ running = r
      /\ stage' \in [Requests -> Stages]
      /\ stage'[r] = "evaluateState"
      /\ \A q \in Requests \ {r} : stage'[q] = stage[q]
      /\ OneThread' /\ running' \in Requests \cup {NoRequest}
      /\ UNCHANGED <<idempotency, signalLog, decisions, signal, crashes>>
  BY ApplyFacts
<1> HIDE DEF s, l, items, cur, new
<1>4. /\ signalLog \in Seq(Signals) /\ signalLog # <<>>
      /\ Len(signalLog) \in DOMAIN signalLog
      /\ signalLog[Len(signalLog)] = s
      /\ s \in ToSet(signalLog) /\ ToSet(signalLog) \subseteq Signals
  <2>1. signalLog \in Seq(Signals) /\ signalLog # <<>> /\ signalLog[Len(signalLog)] = s
    BY <1>3 DEF IInv, TypeOK, LogInv, s
  <2> QED
    BY <2>1 DEF ToSet
<1>5. /\ new \in Seq(Signals)
      /\ DOMAIN cur = 1..Len(cur) /\ Len(cur) \in Nat
      /\ DOMAIN new = 1..Len(cur) + 1 /\ Len(new) = Len(cur) + 1
      /\ \A i \in 1..Len(cur) : new[i] = cur[i]
      /\ new[Len(cur) + 1] = s
      /\ new # <<>> /\ new[Len(new)] = s
      /\ ToSet(new) = ToSet(cur) \cup {s}
  BY <1>1, AppendFacts, AppendNew DEF new
<1>6. items \in Seq(Seq(Signals)) /\ new \in Seq(Signals)
  BY <1>1, <1>5
<1>7. /\ Len(items) \in Nat /\ DOMAIN items = 1..Len(items)
      /\ DOMAIN stateTable'[l] = 1..Len(items) + 1
      /\ Len(stateTable'[l]) = Len(items) + 1
      /\ \A i \in 1..Len(items) : stateTable'[l][i] = items[i]
      /\ stateTable'[l][Len(items) + 1] = new
      /\ stateTable'[l] # <<>>
  BY <1>1, <1>6, AppendFacts
<1>8. \A q \in Requests \ {r} : stage[q] \in Entered => signal[q] # s
  BY <1>3 DEF IInv, OneEntry, Entered, s
<1>9. \A k \in Learners : CurrentState(k)' = IF k = l THEN new ELSE CurrentState(k)
  BY <1>1, <1>7 DEF CurrentState
<1>10. TypeOK'
  BY <1>1, <1>2, <1>3 DEF IInv, TypeOK
<1>11. OneEntry'
  BY <1>3 DEF IInv, OneEntry, Entered
<1>12. LogInv'
  <2>1. \A q \in Requests \ {r} : stage[q] \notin {"appendSignal", "applySignals"}
    BY <1>3 DEF IInv, OneThread, Synchronous
  <2> QED
    BY <1>3, <2>1 DEF IInv, LogInv
<1>13. AppliedInv'
  <2> SUFFICES ASSUME NEW t \in Signals, appliedTable'[t] # 0
               PROVE  /\ t \in ToSet(signalLog')
                      /\ appliedTable'[t] \in DOMAIN stateTable'[LearnerOf[t]]
                      /\ stateTable'[LearnerOf[t]][appliedTable'[t]] # <<>>
                      /\ stateTable'[LearnerOf[t]][appliedTable'[t]][
                            Len(stateTable'[LearnerOf[t]][appliedTable'[t]])] = t
    BY DEF AppliedInv
  <2>1. CASE t = s
    BY <1>1, <1>2, <1>4, <1>5, <1>7, <2>1
  <2>2. CASE t # s
    <3>1. appliedTable'[t] = appliedTable[t] /\ LearnerOf[t] \in Learners
      BY <1>1, <1>2, <2>2, SqliteAssumption DEF SqliteAssumption
    <3>2. /\ t \in ToSet(signalLog)
          /\ appliedTable[t] \in DOMAIN stateTable[LearnerOf[t]]
          /\ stateTable[LearnerOf[t]][appliedTable[t]] # <<>>
          /\ stateTable[LearnerOf[t]][appliedTable[t]][Len(stateTable[LearnerOf[t]][appliedTable[t]])] = t
      BY <3>1 DEF IInv, AppliedInv
    <3>3. CASE LearnerOf[t] = l
      <4>1. stateTable[LearnerOf[t]] = items
        BY <3>3 DEF items
      <4>2. stateTable'[LearnerOf[t]][appliedTable[t]] = items[appliedTable[t]]
        BY <1>7, <3>2, <3>3, <4>1
      <4>3. stateTable'[LearnerOf[t]][appliedTable'[t]] = stateTable[LearnerOf[t]][appliedTable[t]]
        BY <3>1, <4>1, <4>2
      <4>4. appliedTable'[t] \in DOMAIN stateTable'[LearnerOf[t]]
        BY <1>7, <3>1, <3>2, <3>3, <4>1
      <4>5. t \in ToSet(signalLog')
        BY <1>1, <3>2
      <4> QED
        BY <3>2, <4>3, <4>4, <4>5
    <3>4. CASE LearnerOf[t] # l
      BY <1>1, <1>2, <3>1, <3>2, <3>4
    <3> QED
      BY <3>3, <3>4
  <2> QED
    BY <2>1, <2>2
<1>14. ReplayInv'
  <2>1. ToSet(signalLog') = ToSet(signalLog)
    BY <1>1
  <2>2. appliedTable'[s] # 0
    BY <1>2, <1>7
  <2>3. \A k \in Learners : Kept(k)' = IF k = l THEN Kept(k) \cup {s} ELSE Kept(k)
    BY <1>1, <1>2, <1>4, <2>1, <2>2 DEF Kept
  <2>4. Replays(cur, Kept(l))
    BY <1>1 DEF IInv, ReplayInv, cur
  <2>5. ASSUME NEW i \in DOMAIN new, NEW j \in DOMAIN new, i < j
        PROVE  \E m, n \in DOMAIN signalLog :
                   m < n /\ signalLog[m] = new[i] /\ signalLog[n] = new[j]
    <3>1. CASE j \in 1..Len(cur)
      BY <1>5, <2>4, <2>5, <3>1 DEF Replays
    <3>2. CASE j = Len(cur) + 1
      <4>1. i \in DOMAIN cur /\ new[i] = cur[i] /\ new[j] = s
        BY <1>5, <2>5, <3>2
      <4>2. new[i] \in Kept(l)
        BY <2>4, <4>1 DEF Replays, ToSet
      <4>3. PICK m \in DOMAIN signalLog : signalLog[m] = new[i]
        BY <4>2 DEF Kept, ToSet
      <4>4. m # Len(signalLog)
        BY <1>1, <1>2, <1>4, <4>2, <4>3 DEF Kept
      <4>5. m < Len(signalLog)
        BY <1>4, <4>3, <4>4
      <4> QED
        BY <1>4, <4>1, <4>3, <4>5
    <3> QED
      BY <1>5, <2>5, <3>1, <3>2
  <2>6. ToSet(new) = Kept(l) \cup {s}
    BY <1>5, <2>4 DEF Replays
  <2>7. ASSUME NEW k \in Learners PROVE Replays(CurrentState(k), Kept(k))'
    <3>1. CASE k = l
      <4>1. CurrentState(k)' = new /\ Kept(k)' = ToSet(new)
        BY <1>9, <2>3, <2>6, <3>1
      <4> QED
        BY <1>1, <2>5, <4>1 DEF Replays
    <3>2. CASE k # l
      <4>1. CurrentState(k)' = CurrentState(k) /\ Kept(k)' = Kept(k)
        BY <1>9, <2>3, <3>2
      <4>2. Replays(CurrentState(k), Kept(k))
        BY DEF IInv, ReplayInv
      <4> QED
        BY <1>1, <4>1, <4>2 DEF Replays
    <3> QED
      BY <3>1, <3>2
  <2>8. ASSUME NEW t \in ToSet(signalLog'), appliedTable'[t] = 0
        PROVE  \E q \in Requests :
                  signal'[q] = t /\ (stage'[q] \in {"applySignals", "crashed"} \/ AcceptedInVain(q)')
    <3>1. t # s /\ t \in ToSet(signalLog) /\ appliedTable[t] = 0
      BY <1>1, <1>2, <1>4, <1>7, <2>1, <2>8
    <3>2. PICK q \in Requests :
              signal[q] = t /\ (stage[q] \in {"applySignals", "crashed"} \/ AcceptedInVain(q))
      BY <3>1 DEF IInv, ReplayInv
    <3> QED
      BY <1>2, <1>3, <3>1, <3>2 DEF s, AcceptedInVain
  <2> QED
    BY <2>7, <2>8 DEF ReplayInv
<1>15. VersionInv' /\ NoErrors'
  <2>1. ASSUME NEW q \in Requests
        PROVE  /\ stage'[q] \in Unsaved => version'[q] = 0
               /\ stage'[q] \in Saved => version'[q] = appliedTable'[signal'[q]]
               /\ stage'[q] \in Saved \ {"accepted"} => version'[q] # 0
    <3>1. CASE q = r
      BY <1>2, <1>3, <1>7, <3>1 DEF s, Saved, Unsaved
    <3>2. CASE q # r
      <4>1. stage'[q] = stage[q] /\ version'[q] = version[q] /\ signal'[q] = signal[q]
        BY <1>2, <1>3, <3>2
      <4>2. stage[q] \in Saved => signal[q] # s /\ signal[q] \in Signals
        BY <1>8, <3>2 DEF IInv, TypeOK, Entered, Saved
      <4> QED
        BY <1>2, <4>1, <4>2 DEF IInv, VersionInv
    <3> QED
      BY <3>1, <3>2
  <2>2. NoErrors'
    BY <1>3 DEF IInv, NoErrors
  <2> QED
    BY <2>1, <2>2 DEF VersionInv
<1>16. DecisionInv'
  <2>1. ASSUME NEW i \in DOMAIN decisions
        PROVE  \E q \in Requests :
                  /\ stage'[q] = "accepted"
                  /\ decisions[i] = [learner |-> Learner(q)', version |-> appliedTable'[signal'[q]]]
    <3>1. PICK q \in Requests :
              /\ stage[q] = "accepted"
              /\ decisions[i] = [learner |-> Learner(q), version |-> appliedTable[signal[q]]]
      BY DEF IInv, DecisionInv
    <3>2. q # r /\ signal[q] # s /\ signal[q] \in Signals
      BY <1>2, <1>3, <1>8, <3>1 DEF IInv, TypeOK, Entered
    <3> QED
      BY <1>2, <1>3, <3>1, <3>2 DEF Learner
  <2> QED
    BY <1>3, <2>1 DEF IInv, DecisionInv
<1> QED
  BY <1>3, <1>10, <1>11, <1>12, <1>13, <1>14, <1>15, <1>16 DEF IInv

\* A failed apply leaves its signal in the log, and in no version.
LEMMA ApplyFailsKeeps ==
    ASSUME IInv, NEW r \in Requests, ApplyFails(r)
    PROVE  IInv'
<1> USE DEF Stages, Synchronous, Final, Entered, Saved, Unsaved
<1>1. /\ stage[r] = "applySignals" /\ running = r
      /\ Yield(r, "accepted")
      /\ UNCHANGED <<idempotency, signalLog, stateTable, appliedTable, decisions, signal, version,
                     crashes>>
  BY DEF ApplyFails, KeepThread, stores
<1>2. /\ OneThread' /\ running' \in Requests \cup {NoRequest}
      /\ stage' \in [Requests -> Stages]
      /\ stage'[r] = "accepted"
      /\ \A q \in Requests \ {r} : stage'[q] = stage[q]
  BY <1>1, ThreadPassed
<1>3. version[r] = 0 /\ appliedTable[signal[r]] = 0
  BY <1>1 DEF IInv, VersionInv, LogInv
<1>4. TypeOK'
  BY <1>1, <1>2 DEF IInv, TypeOK
<1>5. OneEntry' /\ LogInv'
  BY <1>1, <1>2 DEF IInv, OneEntry, LogInv
<1>6. AppliedInv'
  BY <1>1 DEF IInv, AppliedInv
<1>7. ReplayInv'
  <2>1. ASSUME NEW l \in Learners PROVE Replays(CurrentState(l), Kept(l))'
    BY <1>1 DEF IInv, ReplayInv, Replays, CurrentState, Kept
  <2>2. ASSUME NEW s \in ToSet(signalLog'), appliedTable'[s] = 0
        PROVE  \E q \in Requests :
                  signal'[q] = s /\ (stage'[q] \in {"applySignals", "crashed"} \/ AcceptedInVain(q)')
    BY <1>1, <1>2, <1>3, <2>2 DEF IInv, ReplayInv, AcceptedInVain
  <2> QED
    BY <2>1, <2>2 DEF ReplayInv
<1>8. VersionInv' /\ NoErrors'
  BY <1>1, <1>2, <1>3 DEF IInv, VersionInv, NoErrors
<1>9. DecisionInv'
  BY <1>1, <1>2 DEF IInv, DecisionInv, Learner
<1> QED
  BY <1>2, <1>4, <1>5, <1>6, <1>7, <1>8, <1>9 DEF IInv

\* A decision saved late still names a version no decision named before: a
\* version is of one signal, and of a signal one request gets this far.
LEMMA SaveDecisionKeeps ==
    ASSUME IInv, NEW r \in Requests, SaveDecision(r)
    PROVE  IInv'
<1> DEFINE made == [learner |-> Learner(r), version |-> version[r]]
<1> USE DEF Stages, Synchronous, Final, Entered, Saved, Unsaved
<1>1. /\ stage[r] = "saveDecision" /\ running = r
      /\ decisions' = Append(decisions, made)
      /\ Yield(r, "accepted")
      /\ UNCHANGED <<idempotency, signalLog, stateTable, appliedTable, signal, version, crashes>>
  BY DEF SaveDecision, Decide, KeepThread
<1>2. /\ OneThread' /\ running' \in Requests \cup {NoRequest}
      /\ stage' \in [Requests -> Stages]
      /\ stage'[r] = "accepted"
      /\ \A q \in Requests \ {r} : stage'[q] = stage[q]
  BY <1>1, ThreadPassed
<1>3. /\ signal[r] \in Signals /\ Learner(r) \in Learners
      /\ version[r] \in Nat \ {0} /\ version[r] = appliedTable[signal[r]]
  BY <1>1, SqliteAssumption DEF IInv, TypeOK, VersionInv, Learner, SqliteAssumption
<1>4. /\ decisions \in Seq([learner : Learners, version : Nat \ {0}])
      /\ made \in [learner : Learners, version : Nat \ {0}]
  BY <1>3 DEF IInv, TypeOK
<1>5. made \notin ToSet(decisions)
  <2> SUFFICES ASSUME NEW i \in DOMAIN decisions, decisions[i] = made PROVE FALSE
    BY DEF ToSet
  <2>1. PICK q \in Requests :
            /\ stage[q] = "accepted"
            /\ decisions[i] = [learner |-> Learner(q), version |-> appliedTable[signal[q]]]
    BY DEF IInv, DecisionInv
  <2>2. Learner(q) = Learner(r) /\ appliedTable[signal[q]] = appliedTable[signal[r]]
    BY <1>3, <2>1
  <2>3. signal[q] \in Signals /\ appliedTable[signal[q]] # 0
    BY <1>3, <2>2 DEF IInv, TypeOK
  <2>4. signal[q] = signal[r]
    BY <1>3, <2>2, <2>3 DEF IInv, AppliedInv, Learner
  <2> QED
    BY <1>1, <2>1, <2>4 DEF IInv, OneEntry
<1>6. /\ decisions' \in Seq([learner : Learners, version : Nat \ {0}])
      /\ IsInjective(decisions)'
      /\ \A i \in DOMAIN decisions' :
            \/ i \in DOMAIN decisions /\ decisions'[i] = decisions[i]
            \/ decisions'[i] = made
  <2> DEFINE Made == [learner : Learners, version : Nat \ {0}]
  <2>1. decisions \in Seq(Made) /\ made \in Made
    BY <1>4
  <2> HIDE DEF made, Made
  <2>2. /\ Append(decisions, made) \in Seq(Made)
        /\ DOMAIN decisions = 1..Len(decisions)
        /\ DOMAIN Append(decisions, made) = 1..Len(decisions) + 1
        /\ Len(decisions) \in Nat
        /\ \A i \in 1..Len(decisions) : Append(decisions, made)[i] = decisions[i]
        /\ Append(decisions, made)[Len(decisions) + 1] = made
    BY <2>1, AppendFacts
  <2>3. IsInjective(Append(decisions, made))
    BY <1>5, <2>1, AppendNew DEF IInv, DecisionInv
  <2>4. decisions' = Append(decisions, made)
    BY <1>1
  <2>5. \A i \in DOMAIN decisions' :
            \/ i \in DOMAIN decisions /\ decisions'[i] = decisions[i]
            \/ decisions'[i] = made
    BY <2>2, <2>4
  <2> QED
    BY <2>2, <2>3, <2>4, <2>5 DEF Made
<1>7. TypeOK'
  BY <1>1, <1>2, <1>6 DEF IInv, TypeOK
<1>8. OneEntry'
  BY <1>1, <1>2 DEF IInv, OneEntry
<1>9. LogInv'
  BY <1>1, <1>2 DEF IInv, LogInv
<1>10. AppliedInv'
  BY <1>1 DEF IInv, AppliedInv
<1>11. ReplayInv'
  BY <1>1, <1>2 DEF IInv, ReplayInv, Replays, CurrentState, Kept, AcceptedInVain
<1>12. VersionInv' /\ NoErrors'
  BY <1>1, <1>2 DEF IInv, VersionInv, NoErrors
<1>13. DecisionInv'
  <2>1. ASSUME NEW i \in DOMAIN decisions'
        PROVE  \E q \in Requests :
                  /\ stage'[q] = "accepted"
                  /\ decisions'[i] = [learner |-> Learner(q)', version |-> appliedTable'[signal'[q]]]
    <3>1. CASE i \in DOMAIN decisions /\ decisions'[i] = decisions[i]
      <4>1. PICK q \in Requests :
                /\ stage[q] = "accepted"
                /\ decisions[i] = [learner |-> Learner(q), version |-> appliedTable[signal[q]]]
        BY <3>1 DEF IInv, DecisionInv
      <4> QED
        BY <1>1, <1>2, <3>1, <4>1 DEF Learner
    <3>2. CASE decisions'[i] = made
      BY <1>1, <1>2, <1>3, <3>2 DEF Learner
    <3> QED
      BY <1>6, <3>1, <3>2
  <2> QED
    BY <1>6, <2>1 DEF DecisionInv
<1> QED
  BY <1>2, <1>7, <1>8, <1>9, <1>10, <1>11, <1>12, <1>13 DEF IInv

\* A crash stops every request that is under way; the databases stay.
LEMMA CrashKeeps ==
    ASSUME IInv, CrashAndRestart
    PROVE  IInv'
<1> USE DEF Stages, Synchronous, Final, Entered, Saved, Unsaved
<1>1. /\ crashes < MaxCrashes /\ crashes' = crashes + 1
      /\ running' = NoRequest
      /\ UNCHANGED <<idempotency, signalLog, stateTable, appliedTable, decisions, signal, version>>
  BY DEF CrashAndRestart, stores
<1>2. /\ stage' \in [Requests -> Stages]
      /\ \A q \in Requests :
            IF stage[q] \in Final \cup {"idle"} THEN stage'[q] = stage[q] ELSE stage'[q] = "crashed"
  BY DEF IInv, TypeOK, CrashAndRestart
<1>3. TypeOK'
  BY <1>1, <1>2, SqliteAssumption DEF IInv, TypeOK, SqliteAssumption
<1>4. OneThread'
  BY <1>1, <1>2, SqliteAssumption DEF OneThread, SqliteAssumption
<1>5. OneEntry'
  BY <1>1, <1>2 DEF IInv, OneEntry
<1>6. LogInv' /\ AppliedInv'
  BY <1>1, <1>2 DEF IInv, LogInv, AppliedInv
<1>7. ReplayInv'
  BY <1>1, <1>2 DEF IInv, ReplayInv, Replays, CurrentState, Kept, AcceptedInVain
<1>8. VersionInv' /\ NoErrors'
  BY <1>1, <1>2 DEF IInv, VersionInv, NoErrors
<1>9. DecisionInv'
  BY <1>1, <1>2 DEF IInv, DecisionInv, Learner
<1> QED
  BY <1>3, <1>4, <1>5, <1>6, <1>7, <1>8, <1>9 DEF IInv

\* Every step, stuttering too, preserves the invariant.
LEMMA NextInv == IInv /\ [Next]_vars => IInv'
<1> SUFFICES ASSUME IInv, [Next]_vars PROVE IInv'
  OBVIOUS
<1>1. ASSUME NEW r \in Requests, Receive(r) \/ Handle(r) PROVE IInv'
  BY <1>1, QuietSteps, CheckAndStoreKeeps, AppendSignalKeeps, ApplySignalsKeeps,
     ApplyFailsKeeps, SaveDecisionKeeps DEF Handle
<1>2. CASE CrashAndRestart
  BY <1>2, CrashKeeps
<1>3. CASE UNCHANGED vars
  BY <1>3 DEF vars, stores, IInv, TypeOK, OneThread, OneEntry, LogInv, AppliedInv, ReplayInv,
     Replays, Kept, CurrentState, AcceptedInVain, VersionInv, DecisionInv, Learner, NoErrors
<1> QED
  BY <1>1, <1>2, <1>3 DEF Next

-------------------------------------------------------------------------------
\* Wherever the process dies: no signal is accepted twice, no append is
\* refused, no version is decided on twice, a decision names the version its
\* request saved, which holds its signal, and what was accepted in vain is
\* applied nowhere.
THEOREM StoresAlwaysAgree == Spec => []StoresAgree
<1>1. Init => IInv
  BY InitInv, SqliteAssumption
<1>2. IInv /\ [Next]_vars => IInv'
  BY NextInv
<1>3. IInv => StoresAgree
  <2> SUFFICES ASSUME IInv PROVE StoresAgree
    OBVIOUS
  <2>1. NothingTwice
    BY DEF IInv, OneEntry, NoErrors, DecisionInv, NothingTwice, Entered
  <2>2. ASSUME NEW r \in Requests, stage[r] = "accepted"
        PROVE  IF AcceptedInVain(r) THEN appliedTable[signal[r]] = 0
               ELSE signal[r] \in ToSet(stateTable[Learner(r)][version[r]])
    <3>1. version[r] = appliedTable[signal[r]]
      BY <2>2 DEF IInv, VersionInv, Saved
    <3>2. CASE version[r] = 0
      BY <2>2, <3>1, <3>2 DEF AcceptedInVain
    <3>3. CASE version[r] # 0
      <4> DEFINE merged == stateTable[Learner(r)][version[r]]
      <4>1. /\ signal[r] \in Signals /\ Learner(r) \in Learners
            /\ version[r] \in DOMAIN stateTable[Learner(r)]
            /\ merged # <<>> /\ merged[Len(merged)] = signal[r]
        BY <3>1, <3>3, SqliteAssumption
           DEF IInv, TypeOK, AppliedInv, Learner, SqliteAssumption
      <4>2. merged \in Seq(Signals)
        BY <4>1 DEF IInv, TypeOK
      <4> HIDE DEF merged
      <4>3. signal[r] \in ToSet(merged)
        BY <4>1, <4>2 DEF ToSet
      <4> QED
        BY <3>3, <4>3 DEF AcceptedInVain, merged
    <3> QED
      BY <3>2, <3>3
  <2>3. DecisionNamesItsVersion
    BY <2>2 DEF DecisionNamesItsVersion, IInv, DecisionInv
  <2> QED
    BY <2>1, <2>3 DEF StoresAgree, IInv
<1> QED
  BY <1>1, <1>2, <1>3, PTL DEF Spec

\* Whenever the thread is free, the current state of every learner is the
\* replay of the signal log, less the signals a crash cut off or whose apply
\* failed.
THEOREM ReplayAlwaysReconstructs == Spec => []ReplayReconstructsState
<1>1. Init => IInv
  BY InitInv, SqliteAssumption
<1>2. IInv /\ [Next]_vars => IInv'
  BY NextInv
<1>3. IInv => ReplayReconstructsState
  <2> SUFFICES ASSUME IInv, running = NoRequest, NEW l \in Learners
               PROVE  Replays(CurrentState(l),
                              {s \in ToSet(signalLog) : LearnerOf[s] = l /\ ~LeftOut(s)})
    BY DEF ReplayReconstructsState, IInv, LogInv
  <2>1. \A s \in ToSet(signalLog) : LeftOut(s) <=> appliedTable[s] = 0
    BY SqliteAssumption DEF IInv, ReplayInv, OneThread, LeftOut, Synchronous, SqliteAssumption
  <2>2. {s \in ToSet(signalLog) : LearnerOf[s] = l /\ ~LeftOut(s)} = Kept(l)
    BY <2>1 DEF Kept
  <2> QED
    BY <2>2 DEF IInv, ReplayInv
<1> QED
  BY <1>1, <1>2, <1>3, PTL DEF Spec

\* The synchronous engine implements the linear history: each version is built
\* on its predecessor, whatever the process died on.
THEOREM RefinesLinearHistory == Spec => ImplementsHistory
<1>1. Init => IInv
  BY InitInv, SqliteAssumption
<1>2. IInv /\ [Next]_vars => IInv'
  BY NextInv
<1>3. Init => History!Init
  BY DEF Init, History!Init
<1>4. IInv /\ [Next]_vars => [History!Next]_<<stateTable, appliedTable>>
  <2> SUFFICES ASSUME IInv, [Next]_vars
               PROVE  [History!Next]_<<stateTable, appliedTable>>
    OBVIOUS
  <2>1. ASSUME NEW r \in Requests, ApplySignals(r)
        PROVE  History!Next
    <3> DEFINE s == signal[r]
               base == Len(stateTable[Learner(r)])
    <3>1. s \in Signals /\ Learner(r) = LearnerOf[s] /\ stateTable[Learner(r)] \in Seq(Seq(Signals))
      BY <2>1, ApplyFacts
    <3>2. /\ appliedTable[s] = 0
          /\ stateTable' = [stateTable EXCEPT ![Learner(r)] = Append(@,
                 Append(IF base = 0 THEN <<>> ELSE stateTable[Learner(r)][base], s))]
          /\ appliedTable' = [appliedTable EXCEPT ![s] = base + 1]
      BY <2>1 DEF ApplySignals, SaveOn, Current
    <3>3. base \in History!Bases(LearnerOf[s])
      BY <3>1 DEF History!Bases
    <3>4. History!Produce(s, base)
      BY <3>1, <3>2, <3>3 DEF History!Produce, History!Content
    <3> QED
      BY <3>1, <3>3, <3>4 DEF History!Next
  <2>2. ASSUME NEW r \in Requests, Receive(r) \/ Handle(r), ~ApplySignals(r)
        PROVE  UNCHANGED <<stateTable, appliedTable>>
    BY <2>2 DEF Handle, Receive, Normalize, CheckAndStore, AppendSignal, ApplyFails,
       EvaluateState, Generated, SaveDecision, Decide, stores
  <2> QED
    BY <2>1, <2>2 DEF Next, CrashAndRestart, vars, stores
<1> QED
  BY <1>1, <1>2, <1>3, <1>4, PTL DEF Spec, ImplementsHistory, History!Spec, History!historyVars

===============================================================================
