---------------------------- MODULE LearnerHistory ----------------------------
(***************************************************************************)
(* What the STATE engine promises its callers, whatever the storage.       *)
(*                                                                         *)
(* Every learner has an append-only history of state versions 1, 2, 3...   *)
(* (version 0 is "no signals applied").  A version is produced by one      *)
(* signal, is never changed afterwards, and a signal produces at most one  *)
(* version.  What a version holds is represented by the sequence of the    *)
(* signals merged into it, oldest first: the merge is a function of the    *)
(* base state and the signal, so this sequence determines the state.       *)
(*                                                                         *)
(* Linear tells the two promises apart.  With Linear each version is built *)
(* on its predecessor (docs/specs/state-engine.md, Concurrency Control);   *)
(* without it a version may be built on any earlier one.                   *)
(***************************************************************************)
EXTENDS Naturals, Sequences

CONSTANTS Learners,      \* learner references of one organisation
          Signals,       \* signal ids
          LearnerOf,     \* the learner each signal is about
          Linear         \* is every version built on its predecessor?

VARIABLES history,       \* history[l][v]: the signals merged into version v
          appliedAt      \* the version a signal produced, 0 when none yet

historyVars == <<history, appliedAt>>

Init ==
    /\ history = [l \in Learners |-> <<>>]
    /\ appliedAt = [s \in Signals |-> 0]

\* The contents of version v of learner l; version 0 has merged nothing.
Content(l, v) == IF v = 0 THEN <<>> ELSE history[l][v]

Bases(l) == IF Linear THEN {Len(history[l])} ELSE 0..Len(history[l])

\* Signal s produces the next version of its learner, built on version base.
Produce(s, base) ==
    LET l == LearnerOf[s]
        next == Len(history[l]) + 1
    IN  /\ appliedAt[s] = 0
        /\ base \in Bases(l)
        /\ history' = [history EXCEPT ![l] = Append(@, Append(Content(l, base), s))]
        /\ appliedAt' = [appliedAt EXCEPT ![s] = next]

Next == \E s \in Signals : \E base \in Bases(LearnerOf[s]) : Produce(s, base)

Spec == Init /\ [][Next]_historyVars
===============================================================================
