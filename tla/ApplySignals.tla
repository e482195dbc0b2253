----------------------------- MODULE ApplySignals -----------------------------
(***************************************************************************)
(* applySignalsAsync over the DynamoDB state repository.                   *)
(*                                                                         *)
(* Calls are concurrent invocations of applySignalsAsync: they run in      *)
(* different Lambda instances and interleave at every await of a port      *)
(* operation, one action per await.  Each call applies one signal: the one *)
(* caller, handleSignalIngestionAsync, passes signal_ids: [signal_id].     *)
(*                                                                         *)
(* computeNewState and computeStateDeltas are functions of the base state  *)
(* and the signal, so a state is represented by the sequence of signals    *)
(* merged into it: merging s into base is Append(base, s).                 *)
(***************************************************************************)
EXTENDS Naturals, Sequences

CONSTANTS Calls,           \* invocations of applySignalsAsync
          Learners,        \* learner references of one organisation
          Signals,         \* signal ids
          LearnerOf,       \* the learner_reference of each signal
          ConsistentReads, \* do reads see every completed write?
          Faults           \* may a port fail, or a computed state be refused?

ASSUME ApplyAssumption ==
    /\ LearnerOf \in [Signals -> Learners]
    /\ ConsistentReads \in BOOLEAN
    /\ Faults \in BOOLEAN

MaxRetries == 2

VARIABLES
    signalLog,    \* the signals getSignalsByIds can find
    stateTable,   \* stateTable[l][v]: the item with key (l, v), for the v written
    appliedTable, \* state_version of a signal's item, 0 when there is none
    signal,       \* the signal_id a call is to apply
    pc,           \* the await a call is suspended at
    prior,        \* priorVersion
    stateToSave,  \* the state computed so far
    forSave,      \* versionForSave
    attempt,      \* the retry loop's counter
    returned      \* the state_version in the call's result, 0 when it has none

tables == <<signalLog, stateTable, appliedTable>>
locals == <<prior, stateToSave, forSave, attempt, returned>>
applyVars == <<tables, signal, pc, locals>>

Outcomes == {"applied", "unchanged", "unknown_signal_id", "invalid_state",
             "state_version_conflict", "threw"}
Awaiting == {"isSignalApplied", "getUnchanged", "getSignals", "getState",
             "getStateForSave", "save", "refresh"}
Finished(c) == pc[c] \in Outcomes

Learner(c) == LearnerOf[signal[c]]

(***************************************************************************)
(* The state table of DynamoDB.  A Query that is not a consistent read may *)
(* be answered from a replica that lags: it returns the latest version of  *)
(* some earlier moment, or none.                                           *)
(***************************************************************************)
Versions(l) == DOMAIN stateTable[l]

IsLatest(l, v) ==
    /\ v \in Versions(l) \cup {0}
    /\ \A w \in Versions(l) : w <= v

Readable(l) ==
    {v \in Versions(l) \cup {0} : ConsistentReads => IsLatest(l, v)}

\* What a version holds; version 0 stands for getState returning null.
Content(l, v) == IF v = 0 THEN <<>> ELSE stateTable[l][v]

\* stateTable[l] with the item of version v put.
PutItem(items, v, merged) ==
    [w \in DOMAIN items \cup {v} |-> IF w = v THEN merged ELSE items[w]]

Init ==
    /\ signalLog = {}
    /\ stateTable = [l \in Learners |-> <<>>]
    /\ appliedTable = [s \in Signals |-> 0]
    /\ signal \in [Calls -> Signals]
    /\ pc = [c \in Calls |-> "idle"]
    /\ prior = [c \in Calls |-> 0]
    /\ stateToSave = [c \in Calls |-> <<>>]
    /\ forSave = [c \in Calls |-> 0]
    /\ attempt = [c \in Calls |-> 0]
    /\ returned = [c \in Calls |-> 0]

\* appendSignal of the signal log: a conditional put of the caller's.
AppendSignal(s) ==
    /\ signalLog' = signalLog \cup {s}
    /\ UNCHANGED <<stateTable, appliedTable, signal, pc, locals>>

Begin(c) ==
    /\ pc[c] = "idle"
    /\ pc' = [pc EXCEPT ![c] = "isSignalApplied"]
    /\ UNCHANGED <<tables, signal, locals>>

\* A read that is not consistent may miss the item.
CheckApplied(c) ==
    /\ pc[c] = "isSignalApplied"
    /\ \/ /\ appliedTable[signal[c]] # 0
          /\ pc' = [pc EXCEPT ![c] = "getUnchanged"]
       \/ /\ ConsistentReads => appliedTable[signal[c]] = 0
          /\ pc' = [pc EXCEPT ![c] = "getSignals"]
    /\ UNCHANGED <<tables, signal, locals>>

\* Nothing left to apply: the current version is returned as it is.
ReturnUnchanged(c) ==
    /\ pc[c] = "getUnchanged"
    /\ \E v \in Readable(Learner(c)) :
          /\ prior' = [prior EXCEPT ![c] = v]
          /\ returned' = [returned EXCEPT ![c] = v]
    /\ pc' = [pc EXCEPT ![c] = "unchanged"]
    /\ UNCHANGED <<tables, signal, stateToSave, forSave, attempt>>

GetSignals(c) ==
    /\ pc[c] = "getSignals"
    /\ \/ /\ signal[c] \in signalLog
          /\ pc' = [pc EXCEPT ![c] = "getState"]
       \/ /\ ConsistentReads => signal[c] \notin signalLog
          /\ pc' = [pc EXCEPT ![c] = "unknown_signal_id"]
    /\ UNCHANGED <<tables, signal, locals>>

\* computeNewState and computeStateDeltas on version v.
ComputeOn(c, v) ==
    stateToSave' = [stateToSave EXCEPT ![c] = Append(Content(Learner(c), v), signal[c])]

GetState(c) ==
    /\ pc[c] = "getState"
    /\ \E v \in Readable(Learner(c)) :
          /\ ComputeOn(c, v)
          /\ prior' = [prior EXCEPT ![c] = v]
    /\ pc' = [pc EXCEPT ![c] = "getStateForSave"]
    /\ UNCHANGED <<tables, signal, forSave, attempt, returned>>

\* validateStateObject refuses the computed state, at either computation.
RefuseState(c) ==
    /\ pc[c] \in {"getState", "refresh"}
    /\ Faults
    /\ pc' = [pc EXCEPT ![c] = "invalid_state"]
    /\ UNCHANGED <<tables, signal, locals>>

\* The loop reads the state once more, for the version to save only.
NumberAfter(c, gap) ==
    /\ pc[c] = "getStateForSave"
    /\ \E v \in Readable(Learner(c)) : forSave' = [forSave EXCEPT ![c] = v + gap]
    /\ pc' = [pc EXCEPT ![c] = "save"]
    /\ UNCHANGED <<tables, signal, prior, stateToSave, attempt, returned>>

GetStateForSave(c) == NumberAfter(c, 1)

(***************************************************************************)
(* saveStateWithAppliedSignals: one transaction whose two puts are both    *)
(* conditional on the key being new.                                       *)
(***************************************************************************)
\* Mutants: one of the two conditions is missing.
OnlyVersionIsNew(c) == forSave[c] \notin Versions(Learner(c))
OnlySignalIsNew(c) == appliedTable[signal[c]] = 0

ConditionsHold(c) ==
    /\ forSave[c] \notin Versions(Learner(c))
    /\ appliedTable[signal[c]] = 0

WriteVersion(c, recorded) ==
    /\ stateTable' = [stateTable EXCEPT ![Learner(c)] = PutItem(@, forSave[c], stateToSave[c])]
    /\ appliedTable' = [appliedTable EXCEPT ![signal[c]] = recorded]
    /\ UNCHANGED signalLog

\* Mutant: the applied entry is numbered from the version first read.
WriteItemsFromPrior(c) == WriteVersion(c, prior[c] + 1)

WriteItems(c) == WriteVersion(c, forSave[c])

Save(c) ==
    /\ pc[c] = "save"
    /\ ConditionsHold(c)
    /\ WriteItems(c)
    /\ returned' = [returned EXCEPT ![c] = forSave[c]]
    /\ pc' = [pc EXCEPT ![c] = "applied"]
    /\ UNCHANGED <<signal, prior, stateToSave, forSave, attempt>>

\* The transaction is cancelled: a condition failed, or DynamoDB cancelled it
\* for contention or throttling, which the repository reports as a version
\* conflict too.  It is retried while fewer than retries were made.
RetryUpTo(c, retries) ==
    /\ pc[c] = "save"
    /\ ~ConditionsHold(c) \/ Faults
    /\ \/ attempt[c] < retries /\ pc' = [pc EXCEPT ![c] = "refresh"]
       \/ attempt[c] >= retries /\ pc' = [pc EXCEPT ![c] = "state_version_conflict"]
    /\ UNCHANGED <<tables, signal, locals>>

\* Mutants: the loop runs once more than maxRetries, or not twice.
SaveConflictsOneMore(c) == RetryUpTo(c, MaxRetries)
SaveConflictsAtOnce(c) == RetryUpTo(c, 0)

SaveConflicts(c) == RetryUpTo(c, MaxRetries - 1)

\* The conflict handler recomputes on a fresh read and goes round the loop.
Recompute(c, next) ==
    /\ pc[c] = "refresh"
    /\ \E v \in Readable(Learner(c)) : ComputeOn(c, v)
    /\ attempt' = [attempt EXCEPT ![c] = next]
    /\ pc' = [pc EXCEPT ![c] = "getStateForSave"]
    /\ UNCHANGED <<tables, signal, prior, forSave, returned>>

\* Mutant: the loop does not count its attempts.
RefreshUncounted(c) == Recompute(c, attempt[c])

Refresh(c) == Recompute(c, attempt[c] + 1)

\* A port operation rejects with an error that is not a version conflict; a
\* transaction may have been committed all the same.
PortThrows(c) ==
    /\ Faults
    /\ pc[c] \in Awaiting
    /\ \/ UNCHANGED tables
       \/ pc[c] = "save" /\ ConditionsHold(c) /\ WriteItems(c)
    /\ pc' = [pc EXCEPT ![c] = "threw"]
    /\ UNCHANGED <<signal, locals>>

Step(c) ==
    \/ CheckApplied(c) \/ ReturnUnchanged(c) \/ GetSignals(c)
    \/ GetState(c) \/ RefuseState(c) \/ GetStateForSave(c)
    \/ Save(c) \/ SaveConflicts(c) \/ Refresh(c)
    \/ PortThrows(c)

Next ==
    \/ \E s \in Signals : AppendSignal(s)
    \/ \E c \in Calls : Begin(c) \/ Step(c)

Spec == Init /\ [][Next]_applyVars
-------------------------------------------------------------------------------
\* The tables hold versions and signals of the learners, and each call's reads are of versions.
TypeOK ==
    /\ signalLog \subseteq Signals
    /\ DOMAIN stateTable = Learners
    /\ \A l \in Learners :
          /\ Versions(l) \subseteq Nat \ {0}
          /\ stateTable[l] \in [Versions(l) -> Seq(Signals)]
    /\ appliedTable \in [Signals -> Nat]
    /\ signal \in [Calls -> Signals]
    /\ pc \in [Calls -> {"idle"} \cup Awaiting \cup Outcomes]
    /\ prior \in [Calls -> Nat]
    /\ stateToSave \in [Calls -> Seq(Signals)]
    /\ forSave \in [Calls -> Nat]
    /\ attempt \in [Calls -> 0..MaxRetries - 1]
    /\ returned \in [Calls -> Nat]

\* The versions of a learner are 1, 2, 3... with no gap, although each writer
\* numbers its version from a read that may be stale by the time it saves.
VersionsContiguous ==
    \A l \in Learners : \E n \in Versions(l) \cup {0} : Versions(l) = 1..n

\* The two tables the transaction writes agree: the version recorded for a
\* signal exists and has that signal merged last, and every version is
\* recorded for the signal it merged last.
TablesAgree ==
    /\ \A s \in Signals : appliedTable[s] # 0 =>
          /\ appliedTable[s] \in Versions(LearnerOf[s])
          /\ LET merged == stateTable[LearnerOf[s]][appliedTable[s]]
             IN  merged # <<>> /\ merged[Len(merged)] = s
    /\ \A l \in Learners : \A v \in Versions(l) :
          \E s \in Signals : LearnerOf[s] = l /\ appliedTable[s] = v

\* No state has a signal merged into it twice, however often the signal is
\* submitted and however the submissions race.
MergedAtMostOnce ==
    \A l \in Learners : \A v \in Versions(l) :
        \A i, j \in DOMAIN stateTable[l][v] :
            stateTable[l][v][i] = stateTable[l][v][j] => i = j

\* The history of every learner is sound: without a gap, told alike by both tables, and
\* with every signal in it once.
HistoryConsistent == VersionsContiguous /\ TablesAgree /\ MergedAtMostOnce

\* Of the calls racing to apply one signal at most one is told it applied it,
\* and the version it is told is the one the signal produced.
OneCallApplies ==
    \A c, d \in Calls :
        /\ pc[c] = "applied" => returned[c] = appliedTable[signal[c]]
        /\ pc[c] = "applied" /\ pc[d] = "applied" /\ signal[c] = signal[d] => c = d

\* A call gives up with state_version_conflict only when its signal has been
\* applied by another call or when other writers have saved as many versions
\* as it made attempts, since it first read the state.
ConflictMeansOvertaken ==
    \A c \in Calls : ConsistentReads /\ ~Faults /\ pc[c] = "state_version_conflict" =>
        \/ appliedTable[signal[c]] # 0
        \/ prior[c] + MaxRetries \in Versions(Learner(c))

\* "Read current state_version, compute new state, save with version check"
\* (docs/specs/state-engine.md, Concurrency Control): every version is its
\* predecessor with one signal merged into it.
BuiltOnPredecessor ==
    \A l \in Learners : \A v \in Versions(l) :
        \E s \in Signals : stateTable[l][v] = Append(Content(l, v - 1), s)

\* "Immutable history: each state version is a new record (append-only)"
\* (state/repository.ts): no step changes or removes a stored version, nor
\* reassigns a signal to another version.
HistoryImmutable ==
    [][ /\ \A l \in Learners : \A v \in Versions(l) :
              v \in DOMAIN stateTable'[l] /\ stateTable'[l][v] = stateTable[l][v]
        /\ \A s \in Signals :
              appliedTable[s] # 0 => appliedTable'[s] = appliedTable[s] ]_applyVars

\* The state table and the applied-signals table implement an append-only
\* history, except that a version may be built on any earlier version.
History == INSTANCE LearnerHistory
               WITH history <- stateTable, appliedAt <- appliedTable, Linear <- FALSE
ImplementsHistory == History!Spec
===============================================================================
