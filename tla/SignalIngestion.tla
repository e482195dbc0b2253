---------------------------- MODULE SignalIngestion ----------------------------
(***************************************************************************)
(* handleSignalIngestionAsync: the whole pipeline of POST /v1/signals on   *)
(* Lambda and DynamoDB, from the envelope to the decision.                 *)
(*                                                                         *)
(* Each invocation runs once, on one submission of a signal; a client that *)
(* retries, or delivers twice, is another invocation with the same signal. *)
(* The middle of the pipeline is applySignalsAsync: module ApplySignals,   *)
(* whose variables are the pipeline's too and whose actions it takes.      *)
(***************************************************************************)
EXTENDS ApplySignals

VARIABLES
    idempotency,  \* the signal ids recorded by checkAndStore
    decisions,    \* the decision log
    stage,        \* the await an invocation is suspended at
    outcome,      \* the outcome it will answer, or has answered
    evaluation,   \* what evaluateStateAsync returned
    snapshot      \* the state evaluateStateAsync read

ingestVars == <<idempotency, decisions, stage, outcome, evaluation, snapshot>>
vars == <<applyVars, ingestVars>>

Stages == {"idle", "normalize", "checkAndStore", "appendSignal", "apply",
           "saveDecision", "logOutcome", "responded", "crashed"}
\* What evaluateStateAsync comes to once it has the version expected.
Verdicts == {"matched", "unmatched", "policy_not_found"}
Evaluations == Verdicts \cup {"none", "state_not_found", "trace_state_mismatch", "threw"}

IngestInit ==
    /\ Init
    /\ idempotency = {}
    /\ decisions = {}
    /\ stage = [c \in Calls |-> "idle"]
    /\ outcome = [c \in Calls |-> "none"]
    /\ evaluation = [c \in Calls |-> "none"]
    /\ snapshot = [c \in Calls |-> <<>>]

At(c, here) == stage[c] = here
Goto(c, there) == stage' = [stage EXCEPT ![c] = there]

\* The outcome is settled: it is written to the ingestion log, then answered.
Settle(c, result) ==
    /\ Goto(c, "logOutcome")
    /\ outcome' = [outcome EXCEPT ![c] = result]

\* The envelope is valid and holds no forbidden key, or it is rejected.
Receive(c) ==
    /\ At(c, "idle")
    /\ \/ Goto(c, "normalize") /\ UNCHANGED outcome
       \/ Settle(c, "rejected")
    /\ UNCHANGED <<applyVars, idempotency, decisions, evaluation, snapshot>>

\* normalizeAndValidateTenantPayloadAsync answers.
Normalize(c) ==
    /\ At(c, "normalize")
    /\ \/ Goto(c, "checkAndStore") /\ UNCHANGED outcome
       \/ Settle(c, "rejected")
    /\ UNCHANGED <<applyVars, idempotency, decisions, evaluation, snapshot>>

\* Mutant: the item is put without a condition, so nothing is a duplicate.
CheckAndStoreAnyway(c) ==
    /\ At(c, "checkAndStore")
    /\ idempotency' = idempotency \cup {signal[c]}
    /\ Goto(c, "appendSignal")
    /\ UNCHANGED <<applyVars, decisions, outcome, evaluation, snapshot>>

CheckAndStore(c) ==
    /\ At(c, "checkAndStore")
    /\ \/ /\ signal[c] \notin idempotency
          /\ idempotency' = idempotency \cup {signal[c]}
          /\ Goto(c, "appendSignal")
          /\ UNCHANGED outcome
       \/ /\ signal[c] \in idempotency
          /\ Settle(c, "duplicate")
          /\ UNCHANGED idempotency
    /\ UNCHANGED <<applyVars, decisions, evaluation, snapshot>>

\* Mutant: the signal is applied before it is appended to the log.
AppendSignalLater(c) ==
    /\ At(c, "appendSignal")
    /\ Goto(c, "apply")
    /\ UNCHANGED <<applyVars, idempotency, decisions, outcome, evaluation, snapshot>>

AppendSignalOf(c) ==
    /\ At(c, "appendSignal")
    /\ AppendSignal(signal[c])
    /\ Goto(c, "apply")
    /\ UNCHANGED <<idempotency, decisions, outcome, evaluation, snapshot>>

\* Inside applySignalsAsync.
ApplySignals(c) ==
    /\ At(c, "apply")
    /\ Begin(c) \/ Step(c)
    /\ UNCHANGED ingestVars

\* Mutant: a signal that failed to apply is applied again.
ApplyFailedRetries(c) ==
    /\ At(c, "apply")
    /\ pc[c] = "state_version_conflict"
    /\ pc' = [pc EXCEPT ![c] = "isSignalApplied"]
    /\ UNCHANGED <<signalLog, stateTable, appliedTable, signal, prior, stateToSave,
                   forSave, attempt, returned, ingestVars>>

\* applyOutcome is not ok, or applySignalsAsync threw: the failure is logged
\* and the signal is answered as accepted all the same.
ApplyFailed(c) ==
    /\ At(c, "apply")
    /\ Finished(c)
    /\ pc[c] \notin {"applied", "unchanged"}
    /\ Settle(c, "accepted")
    /\ UNCHANGED <<applyVars, idempotency, decisions, evaluation, snapshot>>

\* evaluateStateAsync reads the state again and compares it with the version
\* expected, the one its request names.
EvaluateAgainst(c, expected) ==
    /\ At(c, "apply")
    /\ pc[c] \in {"applied", "unchanged"}
    /\ \E v \in Readable(Learner(c)), verdict \in Verdicts :
          LET result == CASE v = 0 -> "state_not_found"
                          [] v # 0 /\ v # expected -> "trace_state_mismatch"
                          [] OTHER -> verdict
          IN  /\ evaluation' = [evaluation EXCEPT ![c] = result]
              /\ snapshot' = [snapshot EXCEPT ![c] = Content(Learner(c), v)]
              /\ IF result = "matched"
                 THEN Goto(c, "saveDecision") /\ UNCHANGED outcome
                 ELSE Settle(c, "accepted")
    /\ UNCHANGED <<applyVars, idempotency, decisions>>

\* Mutants: the request names the version after the one first read, or the
\* staleness guard is gone.
EvaluateAfterPrior(c) == EvaluateAgainst(c, prior[c] + 1)
EvaluateWhatever(c) ==
    \E v \in Versions(Learner(c)) : EvaluateAgainst(c, v)

Evaluate(c) == EvaluateAgainst(c, returned[c])

\* The read of evaluateStateAsync throws: that too is only logged.
EvaluateThrows(c) ==
    /\ Faults
    /\ At(c, "apply")
    /\ pc[c] \in {"applied", "unchanged"}
    /\ evaluation' = [evaluation EXCEPT ![c] = "threw"]
    /\ Settle(c, "accepted")
    /\ UNCHANGED <<applyVars, idempotency, decisions, snapshot>>

\* Both ends of saveDecision: the decision gets a fresh UUID, so the put is
\* never in conflict; if it throws the failure is only logged.
SaveDecision(c) ==
    /\ At(c, "saveDecision")
    /\ \/ decisions' = decisions \cup
             {[by |-> c, learner |-> Learner(c), version |-> returned[c], snapshot |-> snapshot[c]]}
       \/ Faults /\ UNCHANGED decisions
    /\ Settle(c, "accepted")
    /\ UNCHANGED <<applyVars, idempotency, evaluation, snapshot>>

\* The outcome has been logged, or logging it failed: the client is answered.
Respond(c) ==
    /\ At(c, "logOutcome")
    /\ Goto(c, "responded")
    /\ UNCHANGED <<applyVars, idempotency, decisions, outcome, evaluation, snapshot>>

(***************************************************************************)
(* Faults.  checkAndStore and appendSignal are outside every try: if they  *)
(* throw, the invocation fails, the write done or not.  The SDK may also   *)
(* repeat a put whose answer was lost: the condition then fails on the     *)
(* item the first attempt wrote.                                           *)
(***************************************************************************)
StoreThrows(c) ==
    /\ Faults
    /\ At(c, "checkAndStore")
    /\ idempotency' \in {idempotency, idempotency \cup {signal[c]}}
    /\ Settle(c, "error")
    /\ UNCHANGED <<applyVars, decisions, evaluation, snapshot>>

StoreRepeated(c) ==
    /\ Faults
    /\ At(c, "checkAndStore")
    /\ idempotency' = idempotency \cup {signal[c]}
    /\ Settle(c, "duplicate")
    /\ UNCHANGED <<applyVars, decisions, evaluation, snapshot>>

AppendThrows(c) ==
    /\ Faults
    /\ At(c, "appendSignal")
    /\ \/ AppendSignal(signal[c])
       \/ UNCHANGED applyVars
    /\ Settle(c, "error")
    /\ UNCHANGED <<idempotency, decisions, evaluation, snapshot>>

\* The Lambda instance dies, or the invocation times out.
Crash(c) ==
    /\ Faults
    /\ stage[c] \notin {"idle", "responded", "crashed"}
    /\ Goto(c, "crashed")
    /\ UNCHANGED <<applyVars, idempotency, decisions, outcome, evaluation, snapshot>>

Handle(c) ==
    \/ Normalize(c) \/ CheckAndStore(c) \/ AppendSignalOf(c)
    \/ ApplySignals(c) \/ ApplyFailed(c) \/ Evaluate(c)
    \/ EvaluateThrows(c) \/ SaveDecision(c) \/ Respond(c)
    \/ StoreThrows(c) \/ StoreRepeated(c) \/ AppendThrows(c)

IngestNext == \E c \in Calls : Receive(c) \/ Handle(c) \/ Crash(c)

\* The runtime resumes an invocation until it answers or dies.
Fairness == \A c \in Calls : WF_vars(Handle(c))

IngestSpec == IngestInit /\ [][IngestNext]_vars
FairSpec == IngestSpec /\ Fairness
-------------------------------------------------------------------------------
\* The tables of the pipeline and the state of each invocation keep their types.
IngestTypeOK ==
    /\ TypeOK
    /\ idempotency \subseteq Signals
    /\ \A d \in decisions :
          /\ d.by \in Calls /\ d.learner \in Learners
          /\ d.version \in Nat \ {0} /\ d.snapshot \in Seq(Signals)
    /\ stage \in [Calls -> Stages]
    /\ outcome \in [Calls -> {"none", "accepted", "duplicate", "rejected", "error"}]
    /\ evaluation \in [Calls -> Evaluations]
    /\ snapshot \in [Calls -> Seq(Signals)]

Answered(c, result) == At(c, "responded") /\ outcome[c] = result

\* "The same signal is never accepted twice" (docs/specs/signal-ingestion.md,
\* Idempotency), however many submissions of it run at the same time, and an
\* accepted signal can be found in the signal log.
AcceptedOnce ==
    \A c \in Calls : Answered(c, "accepted") =>
        /\ signal[c] \in signalLog
        /\ \A d \in Calls : Answered(d, "accepted") /\ signal[d] = signal[c] => d = c

\* A state version leads to one decision at most, even though nothing in the
\* decision table is keyed by version: only the invocation that saved the
\* version evaluates it.
OneDecisionPerVersion ==
    \A d, e \in decisions :
        d.learner = e.learner /\ d.version = e.version => d = e

\* Nothing is done twice, whatever is submitted again after whatever fault: neither is a
\* signal accepted twice nor a version decided on twice.
NothingTwice == AcceptedOnce /\ OneDecisionPerVersion

\* The trace of a decision names a stored version, and its snapshot is what
\* that version holds, whatever was saved since; the version is the one the
\* decision's own signal produced.
DecisionsTraceable ==
    \A d \in decisions :
        /\ d.version \in Versions(d.learner)
        /\ d.snapshot = stateTable[d.learner][d.version]
        /\ appliedTable[signal[d.by]] = d.version

\* With consistent reads the guard on TRACE_STATE_MISMATCH drops evaluations
\* of superseded versions only: once nothing is in progress, the current
\* version of every learner has been evaluated.
CurrentStateEvaluated ==
    ConsistentReads /\ ~Faults /\ (\A c \in Calls : stage[c] \in {"idle", "responded"}) =>
        \A c \in Calls :
            pc[c] = "applied" /\ IsLatest(Learner(c), returned[c]) =>
                evaluation[c] \in Verdicts

\* "After a signal is accepted, immediately apply it" (docs/specs/
\* state-engine.md, Triggering State Updates): an accepted answer means that
\* the signal is in the learner's history.
AcceptedIsApplied ==
    \A c \in Calls : Answered(c, "accepted") => appliedTable[signal[c]] # 0

\* "First submission: accepted; duplicate submission: duplicate" (docs/specs/
\* signal-ingestion.md, Idempotency): a duplicate answer means that some
\* submission of the signal is in progress or has appended it to the log.
DuplicateHasOriginal ==
    \A c \in Calls : Answered(c, "duplicate") =>
        \/ signal[c] \in signalLog
        \/ \E d \in Calls : signal[d] = signal[c] /\ At(d, "appendSignal")

\* Every submission received is answered unless its instance dies: the retry
\* loop ends although every read may be stale and every save may fail.
Answers ==
    \A c \in Calls : ~At(c, "idle") ~> stage[c] \in {"responded", "crashed"}

\* The pipeline does nothing to the tables of the STATE engine that concurrent
\* calls of applySignalsAsync could not do.
ImplementsApply == Spec
===============================================================================
