---------------------------- MODULE IngestedTables ----------------------------
(***************************************************************************)
(* The tables that the read API pages through, and the ingestion requests  *)
(* that fill them, at the grain the readers can tell apart: which row is   *)
(* appended when, and which time it carries.  A request is suspended twice *)
(* (normalisation, explanation), so rows are not always appended in the    *)
(* order of their times.  SqliteIngestion and SignalIngestion model the    *)
(* pipelines themselves; here a failed step of theirs is left out.         *)
(***************************************************************************)
EXTENDS Integers, Sequences, FiniteSets

CONSTANTS
  Requests,     \* submissions, each handled once
  Signals,      \* signal ids; numbers, because DynamoDB orders by them
  Learners,     \* learner references; numbers, because listings order by them
  LearnerOf,    \* the learner a signal is about
  Deployments,  \* which of "sqlite" (the server) and "dynamodb" (the Lambdas)
  MaxTime       \* bound on the clock

ASSUME TablesAssumption ==
  /\ Signals \subseteq Nat \ {0} /\ Learners \subseteq Nat \ {0}
  /\ LearnerOf \in [Signals -> Learners]
  /\ Deployments \subseteq {"sqlite", "dynamodb"} /\ MaxTime \in Nat \ {0}

VARIABLES
  store,      \* the deployment
  now,        \* the clock of every process
  received,   \* received[s]: when the idempotency record of s was written, or 0
  signals,    \* the signal log, in the order of its rows
  decisions,  \* the decisions, in the order of their rows
  states,     \* states[l]: updated_at of each state version of the learner
  outcomes,   \* the ingestion log, in the order of its puts
  request     \* request[r]: where the request is, its signal, when it arrived

tables == <<received, signals, decisions, states, outcomes>>
tableVars == <<store, now, tables, request>>

Times == 1..MaxTime
Outcomes == {"accepted", "rejected", "duplicate"}
Row == [signal : Signals, at : Times]
Idle == [stage |-> "idle", signal |-> 0, at |-> 0]

TablesTypeOK ==
  /\ store \in Deployments /\ now \in Times
  /\ received \in [Signals -> 0..MaxTime]
  /\ signals \in Seq(Row) /\ decisions \in Seq(Row)
  /\ states \in [Learners -> Seq(Times)]
  /\ outcomes \in Seq([signal : Signals, outcome : Outcomes, at : Times])
  /\ request \in [Requests -> {Idle} \cup
       [stage : {"normalizing", "deciding", "done"}, signal : Signals, at : Times]]

TablesInit ==
  /\ store \in Deployments /\ now = 1
  /\ received = [s \in Signals |-> 0]
  /\ signals = <<>> /\ decisions = <<>> /\ outcomes = <<>>
  /\ states = [l \in Learners |-> <<>>]
  /\ request = [r \in Requests |-> Idle]

Tick == now < MaxTime /\ now' = now + 1 /\ UNCHANGED <<store, tables, request>>

\* receivedAt is the first thing the handler takes.
Arrive(r, s) ==
  /\ request[r] = Idle
  /\ request' = [request EXCEPT ![r] = [stage |-> "normalizing", signal |-> s, at |-> now]]
  /\ UNCHANGED <<store, now, tables>>

Finish(r) == request' = [request EXCEPT ![r].stage = "done"]

LogOutcome(s, outcome, at) ==
  outcomes' = Append(outcomes, [signal |-> s, outcome |-> outcome, at |-> at])

\* A payload that fails: the entry carries the time the request arrived.
Reject(r) ==
  /\ request[r].stage = "normalizing"
  /\ LogOutcome(request[r].signal, "rejected", request[r].at)
  /\ Finish(r)
  /\ UNCHANGED <<store, now, received, signals, decisions, states>>

\* checkAndStore dates the signal anew, then log and state are written.
Accept(r) ==
  LET s == request[r].signal IN
  /\ request[r].stage = "normalizing" /\ received[s] = 0
  /\ received' = [received EXCEPT ![s] = now]
  /\ signals' = Append(signals, [signal |-> s, at |-> now])
  /\ states' = [states EXCEPT ![LearnerOf[s]] = Append(@, now)]
  /\ request' = [request EXCEPT ![r].stage = "deciding"]
  /\ UNCHANGED <<store, now, decisions, outcomes>>

\* A duplicate is logged with the time of the signal it repeats.
Duplicate(r) ==
  LET s == request[r].signal IN
  /\ request[r].stage = "normalizing" /\ received[s] # 0
  /\ LogOutcome(s, "duplicate", received[s])
  /\ Finish(r)
  /\ UNCHANGED <<store, now, received, signals, decisions, states>>

\* The explanation is there: the decision, if a rule matched, is dated and
\* saved, and the outcome is logged with the time of acceptance.
Decide(r) ==
  LET s == request[r].signal IN
  /\ request[r].stage = "deciding"
  /\ \/ decisions' = Append(decisions, [signal |-> s, at |-> now])
     \/ UNCHANGED decisions
  /\ LogOutcome(s, "accepted", received[s])
  /\ Finish(r)
  /\ UNCHANGED <<store, now, received, signals, states>>

TablesNext ==
  \/ Tick
  \/ \E r \in Requests :
       \/ \E s \in Signals : Arrive(r, s)
       \/ Reject(r) \/ Accept(r) \/ Duplicate(r) \/ Decide(r)

\* The entries DynamoDB still has: the item of an entry is keyed by its time
\* and signal, so a later entry of the same key has replaced it.
OutcomeKey(i) == <<outcomes[i].at, outcomes[i].signal>>
Replaced(i) ==
  /\ store = "dynamodb"
  /\ \E j \in DOMAIN outcomes : j > i /\ OutcomeKey(j) = OutcomeKey(i)
KeptOutcomes == {i \in DOMAIN outcomes : ~ Replaced(i)}
===============================================================================
