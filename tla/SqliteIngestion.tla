---------------------------- MODULE SqliteIngestion ----------------------------
(***************************************************************************)
(* handleSignalIngestionCore: POST /v1/signals in the Fastify server, over *)
(* better-sqlite3.                                                         *)
(*                                                                         *)
(* One process, one thread: the code between two awaits runs to its end    *)
(* before another request is looked at (running names the request that     *)
(* holds the thread).  There are two awaits, the tenant payload            *)
(* normalisation and the explanation generator, and each store is its own  *)
(* SQLite database: a crash of the process can fall between any two        *)
(* commits, and a restart recovers nothing but what was committed.         *)
(***************************************************************************)
EXTENDS Naturals, Sequences, SequencesExt

CONSTANTS Requests, Learners, Signals, LearnerOf,
          NoRequest,   \* nobody holds the thread
          MaxCrashes   \* bound: how often the process dies

ASSUME SqliteAssumption ==
    /\ LearnerOf \in [Signals -> Learners]
    /\ NoRequest \notin Requests
    /\ MaxCrashes \in Nat

VARIABLES
    idempotency,  \* table signal_ids
    signalLog,    \* table signal_log, in insertion order
    stateTable,   \* stateTable[l][v]: the signals merged into version v
    appliedTable, \* table applied_signals: the version of a signal, or 0
    decisions,    \* table decisions, in insertion order
    signal,       \* the signal each request submits
    stage,        \* where each request is
    running,      \* the request executing now
    version,      \* new_state_version of the request's applyOutcome, or 0
    crashes

stores == <<idempotency, signalLog, stateTable, appliedTable, decisions>>
vars == <<stores, signal, stage, running, version, crashes>>

Final == {"accepted", "duplicate", "rejected", "error", "crashed"}
Synchronous == {"checkAndStore", "appendSignal", "applySignals", "evaluateState",
                "saveDecision"}
Stages == {"idle", "normalize", "generate"} \cup Synchronous \cup Final

Learner(r) == LearnerOf[signal[r]]

Init ==
    /\ idempotency = {}
    /\ signalLog = <<>>
    /\ stateTable = [l \in Learners |-> <<>>]
    /\ appliedTable = [s \in Signals |-> 0]
    /\ decisions = <<>>
    /\ signal \in [Requests -> Signals]
    /\ stage = [r \in Requests |-> "idle"]
    /\ running = NoRequest
    /\ version = [r \in Requests |-> 0]
    /\ crashes = 0

\* A request takes the thread to run from an await, or goes on running.
TakeThread(r, here) ==
    /\ stage[r] = here
    /\ running = NoRequest
KeepThread(r, here) ==
    /\ stage[r] = here
    /\ running = r

\* It goes on without yielding, or yields at an await or by answering.
GoOn(r, there) ==
    /\ stage' = [stage EXCEPT ![r] = there]
    /\ running' = r
Yield(r, there) ==
    /\ stage' = [stage EXCEPT ![r] = there]
    /\ running' = NoRequest

\* Envelope and forbidden keys are checked, then the normaliser is awaited.
Receive(r) ==
    /\ TakeThread(r, "idle")
    /\ Yield(r, "normalize") \/ Yield(r, "rejected")
    /\ UNCHANGED <<stores, signal, version, crashes>>

Normalize(r) ==
    /\ TakeThread(r, "normalize")
    /\ GoOn(r, "checkAndStore") \/ Yield(r, "rejected")
    /\ UNCHANGED <<stores, signal, version, crashes>>

\* Mutant: a duplicate waits for the first submission instead of answering.
CheckAndStoreWaits(r) ==
    /\ signal[r] \notin idempotency
    /\ KeepThread(r, "checkAndStore")
    /\ idempotency' = idempotency \cup {signal[r]}
    /\ GoOn(r, "appendSignal")
    /\ UNCHANGED <<signalLog, stateTable, appliedTable, decisions, signal, version, crashes>>

CheckAndStore(r) ==
    /\ KeepThread(r, "checkAndStore")
    /\ idempotency' = idempotency \cup {signal[r]}
    /\ IF signal[r] \in idempotency THEN Yield(r, "duplicate") ELSE GoOn(r, "appendSignal")
    /\ UNCHANGED <<signalLog, stateTable, appliedTable, decisions, signal, version, crashes>>

\* INSERT INTO signal_log: (org_id, signal_id) is unique there, and a refused
\* insert is an error of the request.
AppendSignal(r) ==
    /\ KeepThread(r, "appendSignal")
    /\ IF signal[r] \in ToSet(signalLog)
       THEN Yield(r, "error") /\ UNCHANGED signalLog
       ELSE GoOn(r, "applySignals") /\ signalLog' = Append(signalLog, signal[r])
    /\ UNCHANGED <<idempotency, stateTable, appliedTable, decisions, signal, version, crashes>>

(***************************************************************************)
(* applySignals reads, computes and saves without yielding, so the version *)
(* it saves is always free: the conflict handler is never entered.  Nor is *)
(* the signal ever applied or unknown already: only the request that wrote *)
(* it to signal_ids and to the log gets here.  State and applied signal    *)
(* are one transaction, written whole or not at all.                       *)
(***************************************************************************)
SaveOn(r, base, reported) ==
    LET l == Learner(r)
        items == stateTable[l]
    IN  /\ KeepThread(r, "applySignals")
        /\ appliedTable[signal[r]] = 0
        /\ stateTable' = [stateTable EXCEPT ![l] =
               Append(@, Append(IF base = 0 THEN <<>> ELSE items[base], signal[r]))]
        /\ appliedTable' = [appliedTable EXCEPT ![signal[r]] = Len(items) + 1]
        /\ version' = [version EXCEPT ![r] = reported]
        /\ GoOn(r, "evaluateState")
        /\ UNCHANGED <<idempotency, signalLog, decisions, signal, crashes>>

Current(r) == Len(stateTable[Learner(r)])

\* Mutant: the merge starts from the version before the current one.
ApplySignalsOnOlder(r) == SaveOn(r, IF Current(r) = 0 THEN 0 ELSE Current(r) - 1, Current(r) + 1)

ApplySignals(r) == SaveOn(r, Current(r), Current(r) + 1)

\* Mutant: a failed apply goes on to the evaluation all the same.
ApplyFailsUnnoticed(r) ==
    /\ KeepThread(r, "applySignals")
    /\ version' = [version EXCEPT ![r] = Current(r)]
    /\ GoOn(r, "evaluateState")
    /\ UNCHANGED <<stores, signal, crashes>>

\* The merged state is refused (a mapping wrote a forbidden key), or the read
\* of the log or the transaction throws: the failure is logged, nothing is
\* evaluated, and the request is answered as accepted.
ApplyFails(r) ==
    /\ KeepThread(r, "applySignals")
    /\ Yield(r, "accepted")
    /\ UNCHANGED <<stores, signal, version, crashes>>

\* evaluateState runs on to the generator, still without yielding: the state
\* it reads is the one just saved.  No rule may match.
EvaluateState(r) ==
    /\ KeepThread(r, "evaluateState")
    /\ Yield(r, "generate") \/ Yield(r, "accepted")
    /\ UNCHANGED <<stores, signal, version, crashes>>

\* The generator or the save may throw, which the handler only logs.
Generated(r) ==
    /\ TakeThread(r, "generate")
    /\ GoOn(r, "saveDecision") \/ Yield(r, "accepted")
    /\ UNCHANGED <<stores, signal, version, crashes>>

Decide(r, v) ==
    /\ KeepThread(r, "saveDecision")
    /\ decisions' = Append(decisions, [learner |-> Learner(r), version |-> v])
    /\ Yield(r, "accepted")
    /\ UNCHANGED <<idempotency, signalLog, stateTable, appliedTable, signal, version, crashes>>

\* Mutant: the trace names the version current when the explanation arrived.
SaveDecisionNow(r) == Decide(r, Current(r))

SaveDecision(r) == Decide(r, version[r])

\* The process dies and is started again: requests in progress are gone, the
\* databases are as the last commit left them.
CrashAndRestart ==
    /\ crashes < MaxCrashes
    /\ crashes' = crashes + 1
    /\ stage' = [r \in Requests |->
                    IF stage[r] \in Final \cup {"idle"} THEN stage[r] ELSE "crashed"]
    /\ running' = NoRequest
    /\ UNCHANGED <<stores, signal, version>>

Handle(r) ==
    \/ Normalize(r) \/ CheckAndStore(r) \/ AppendSignal(r) \/ ApplySignals(r)
    \/ ApplyFails(r) \/ EvaluateState(r) \/ Generated(r) \/ SaveDecision(r)

Next ==
    \/ \E r \in Requests : Receive(r) \/ Handle(r)
    \/ CrashAndRestart

\* Running code runs on, and once the thread is free a settled promise is
\* resumed.  Requests are finitely many, so weak fairness is enough.
Fairness == \A r \in Requests : WF_vars(Handle(r))

Spec == Init /\ [][Next]_vars
FairSpec == Spec /\ Fairness
-------------------------------------------------------------------------------
\* The databases of the server and the state of each request keep their types.
TypeOK ==
    /\ idempotency \subseteq Signals
    /\ signalLog \in Seq(Signals)
    /\ stateTable \in [Learners -> Seq(Seq(Signals))]
    /\ appliedTable \in [Signals -> Nat]
    /\ decisions \in Seq([learner : Learners, version : Nat \ {0}])
    /\ signal \in [Requests -> Signals]
    /\ stage \in [Requests -> Stages]
    /\ running \in Requests \cup {NoRequest}
    /\ version \in [Requests -> Nat]
    /\ crashes \in 0..MaxCrashes

CurrentState(l) ==
    IF stateTable[l] = <<>> THEN <<>> ELSE stateTable[l][Len(stateTable[l])]

\* A request answered as accepted although its signal was not applied.
AcceptedInVain(r) == stage[r] = "accepted" /\ version[r] = 0

\* A signal whose request died with the process before its state was saved, or
\* was accepted in vain.
LeftOut(s) ==
    /\ appliedTable[s] = 0
    /\ \E r \in Requests : signal[r] = s /\ (stage[r] = "crashed" \/ AcceptedInVain(r))

\* A state has merged just the signals in kept, in the order of the log.
Replays(state, kept) ==
    /\ ToSet(state) = kept
    /\ \A i, j \in DOMAIN state : i < j =>
          \E m, n \in DOMAIN signalLog :
              m < n /\ signalLog[m] = state[i] /\ signalLog[n] = state[j]

\* What replay gives: whenever no request is running, the current state of a
\* learner has merged the learner's signals of the log in the order of the log,
\* and lacks only those the process died on or whose apply failed; the log has
\* no signal twice, so this leaves one state.
ReplayReconstructsState ==
    running = NoRequest =>
        /\ IsInjective(signalLog)
        /\ \A l \in Learners :
              Replays(CurrentState(l),
                      {s \in ToSet(signalLog) : LearnerOf[s] = l /\ ~LeftOut(s)})

\* No crash makes the process answer a signal as accepted twice, fail on a
\* signal its log already has, or decide twice on one version.
NothingTwice ==
    /\ \A r, q \in Requests :
          stage[r] = "accepted" /\ stage[q] = "accepted" /\ signal[r] = signal[q] => r = q
    /\ \A r \in Requests : stage[r] # "error"
    /\ IsInjective(decisions)

\* The explanation may be awaited while newer versions are saved: a decision
\* still names the version its request produced.  A request answered as accepted
\* has its signal in its version, or none of the tables has applied it.
DecisionNamesItsVersion ==
    /\ \A i \in DOMAIN decisions :
          \E r \in Requests :
              /\ stage[r] = "accepted"
              /\ decisions[i] = [learner |-> Learner(r), version |-> appliedTable[signal[r]]]
    /\ \A r \in Requests : stage[r] = "accepted" =>
          IF AcceptedInVain(r) THEN appliedTable[signal[r]] = 0
          ELSE signal[r] \in ToSet(stateTable[Learner(r)][version[r]])

\* The four databases of the server agree after every commit and every crash: nothing is
\* in them twice, and a decision names the version it was made on.
StoresAgree == TypeOK /\ NothingTwice /\ DecisionNamesItsVersion

\* Every request received is answered, or lost to a crash.
Answers == \A r \in Requests : stage[r] # "idle" ~> stage[r] \in Final

\* The synchronous engine keeps the promise the documents make: each version
\* is built on its predecessor, also across crashes.
History == INSTANCE LearnerHistory
               WITH history <- stateTable, appliedAt <- appliedTable, Linear <- TRUE
ImplementsHistory == History!Spec
===============================================================================
