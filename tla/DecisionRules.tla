------------------------------ MODULE DecisionRules ------------------------------
(***************************************************************************)
(* How a state becomes a decision: the policy documents that operators     *)
(* put, the evaluation of their rules on the current state of one learner, *)
(* the receipt that is kept of it, and the explanation that a language     *)
(* model adds.  Between the start of an evaluation and its end, where the  *)
(* explanation is awaited, states, policies and other evaluations go on.   *)
(* The state is an object as in module DotPaths; texts are numbered, and   *)
(* texts of the kind "short" have less than four letters.                  *)
(***************************************************************************)
EXTENDS DotPaths, FiniteSets

CONSTANTS
  Conditions,      \* the nodes that conditions are made of
  RuleDocuments,   \* what operators put
  RuleStates,      \* what the STATE engine saves
  ContextSkills,   \* the text of signal_context.skill, 0 when it has none
  MaxStates        \* bound on the versions

VARIABLES
  policy,       \* the document in force
  learner,      \* the states of the learner by version
  evaluations,  \* the evaluations under way
  receipts      \* the decisions in the order they were saved

ruleVars == <<policy, learner, evaluations, receipts>>

DecisionTypes == {"reinforce", "advance", "intervene", "pause"}
ValidOperators == {"eq", "neq", "gt", "gte", "lt", "lte"}

--------------------------------------------------------------------------------
Children(node) == IF node.node \in {"all", "any"} THEN Range(node.of) ELSE {}

\* Documents are finite: of any nodes there is one with none of them right below it.
ASSUME RuleAssumption ==
  /\ \A c \in Conditions :
       /\ c.node = "leaf" => c.field \in Seq(Range(c.field))
       /\ c.node \in {"all", "any"} => c.of \in Seq(Conditions)
  /\ \A some \in SUBSET Conditions : some # {} => \E c \in some : Children(c) \cap some = {}
  /\ \A doc \in RuleDocuments :
       doc.rules \in Seq(Range(doc.rules)) /\ \A i \in DOMAIN doc.rules : doc.rules[i].condition \in Conditions
  /\ MaxStates \in Nat

\* A node and all below it.
Parts[node \in Conditions] == {node} \cup UNION {Parts[c] : c \in Children(node)}

\* validateConditionNode: a leaf, or all or any of at least two nodes.
ValidNode(c) ==
  \/ c.node = "leaf" /\ c.operator \in ValidOperators /\ c.threshold.kind \notin {"null", "list", "object"}
  \/ c.node \in {"all", "any"} /\ Len(c.of) >= 2
ValidCondition(node) == \A c \in Parts[node] : ValidNode(c)

\* validatePolicyStructure: the version is a semantic version, no rule id comes twice.
ValidPolicy(doc) ==
  /\ doc.version.kind = "semver"
  /\ \A i, j \in DOMAIN doc.rules : doc.rules[i].id = doc.rules[j].id => i = j
  /\ \A i \in DOMAIN doc.rules : doc.rules[i].type \in DecisionTypes /\ ValidCondition(doc.rules[i].condition)

--------------------------------------------------------------------------------
Ordered(operator, a, b) ==
  CASE operator = "gt" -> a > b
    [] operator = "gte" -> a >= b
    [] operator = "lt" -> a < b
    [] operator = "lte" -> a <= b

\* A leaf: eq and neq are strict, the others convert both sides to numbers, and
\* nothing holds of a field that is absent.
Holds(raw, operator, threshold) ==
  LET a == ToNumber(raw)  b == ToNumber(threshold) IN
  CASE raw.kind = "absent" -> FALSE
    [] raw.kind # "absent" /\ operator = "eq" -> raw = threshold
    [] raw.kind # "absent" /\ operator = "neq" -> raw # threshold
    [] OTHER -> NaN \notin {a, b} /\ Ordered(operator, a.value, b.value)

\* evaluateThresholdPass: the verdict that the trace page gives on a leaf.  It compares
\* like the engine, but two texts letter by letter, and it has none on an empty value.
BothTexts(l) ==
  LET texts == {"text", "short", "digits", "blank"}
  IN l.actual.kind \in texts \cup {"list", "object"} /\ l.threshold.kind \in texts
TraceVerdicts(l) ==
  LET a == ToNumber(l.actual)  b == ToNumber(l.threshold) IN
  CASE l.actual.kind \in {"absent", "null"} -> {"unknown"}
    [] l.operator = "eq" -> {IF l.actual = l.threshold THEN "pass" ELSE "fail"}
    [] l.operator = "neq" -> {IF l.actual # l.threshold THEN "pass" ELSE "fail"}
    [] l.operator \notin {"eq", "neq"} /\ BothTexts(l) -> {"pass", "fail"}
    [] OTHER -> {IF NaN \notin {a, b} /\ Ordered(l.operator, a.value, b.value) THEN "pass" ELSE "fail"}

\* evaluateConditionCollecting: does the node hold, and the leaves that were looked at,
\* in their order; all stops at a node that does not hold, any at one that does.
LookAt(state, leaf) ==
  LET raw == At(state, leaf.field) IN
  [holds |-> Holds(raw, leaf.operator, leaf.threshold),
   leaves |-> <<[field |-> leaf.field, operator |-> leaf.operator, threshold |-> leaf.threshold, actual |-> raw]>>]
Combine(stop, results) ==
  LET stopping == {i \in DOMAIN results : results[i].holds = stop}
      last == IF stopping = {} THEN Len(results) ELSE Min(stopping)
  IN [holds |-> (stopping # {}) = stop, leaves |-> FlattenSeq([i \in 1..last |-> results[i].leaves])]
OutcomeOf(state, c, outcome) ==
  CASE c.node = "leaf" -> LookAt(state, c)
    [] c.node \in {"all", "any"} -> Combine(c.node = "any", [i \in 1..Len(c.of) |-> outcome[c.of[i]]])
    [] OTHER -> [holds |-> FALSE, leaves |-> <<>>]
Collect(state, node) ==
  LET outcome[c \in Conditions] == OutcomeOf(state, c, outcome) IN outcome[node]

\* evaluatePolicy: the rules that hold; the first of them decides.
Matching(state, doc) == {i \in DOMAIN doc.rules : Collect(state, doc.rules[i].condition).holds}
FirstMatch(state, doc) == Min(Matching(state, doc))

\* collectPolicyFields
FieldsOf(node) == {c.field : c \in {d \in Parts[node] : d.node = "leaf"}}

\* extractCanonicalSnapshot: what the state holds at the fields of all the rules; of
\* a field that is an object, the whole object.
Snapshot(state, doc) ==
  LET fields == UNION {FieldsOf(doc.rules[i].condition) : i \in DOMAIN doc.rules}
      kept == {q \in DOMAIN state : \E f \in fields : IsPrefix(f, q)}
  IN [q \in kept |-> state[q]]

--------------------------------------------------------------------------------
\* The texts of an object, and those that the guard looks for in an answer.
TextsOf(p) == {p[q].value : q \in {r \in DOMAIN p : p[r].kind \in {"text", "short"}}}
LongTextsOf(p) == {p[q].value : q \in {r \in DOMAIN p : p[r].kind = "text"}}

\* buildUserPrompt: the snapshot without learner_reference, and the values of the
\* fields that were evaluated, whichever they are.
PromptTexts(r) ==
  TextsOf([q \in DOMAIN r.snapshot \ {<<"learner_reference">>} |-> r.snapshot[q]])
    \cup {l.actual.value : l \in {k \in Range(r.leaves) : k.actual.kind \in {"text", "short"}}}
    \cup ({r.skill} \ {0})

Unexplained == [kind |-> "none"]

\* postProcessExplanation: an answer that repeats a text of the snapshot is dropped.
Guarded(texts, r) ==
  IF texts \cap LongTextsOf(r.snapshot) # {} THEN Unexplained ELSE [kind |-> "some", texts |-> texts]

\* generate: what the model makes of the prompt, or nothing when explanations are not
\* enabled, the call timed out or the retries failed.
Explanations(r) == {Unexplained} \cup {Guarded(texts, r) : texts \in SUBSET PromptTexts(r)}

--------------------------------------------------------------------------------
RuleInit ==
  /\ policy \in {doc \in RuleDocuments : ValidPolicy(doc)}
  /\ learner = <<>> /\ evaluations = {} /\ receipts = <<>>

\* An operator puts a document; one that is not valid is refused.
PutRules(doc) ==
  /\ ValidPolicy(doc) /\ doc # policy
  /\ policy' = doc
  /\ UNCHANGED <<learner, evaluations, receipts>>

\* A signal makes a version, and its evaluation is asked for.
SaveVersion(state, skill) ==
  /\ Len(learner) < MaxStates
  /\ learner' = Append(learner, state)
  /\ evaluations' = evaluations \cup {[stage |-> "asked", version |-> Len(learner) + 1, skill |-> skill]}
  /\ UNCHANGED <<policy, receipts>>

Begin(e, state) ==
  LET first == FirstMatch(state, policy)
      rule == policy.rules[first]
      id == CHOOSE i \in DOMAIN policy.rules :
              /\ policy.rules[i].id = rule.id /\ \A j \in 1..(i - 1) : policy.rules[j].id # rule.id
      begun == [stage |-> "explaining", version |-> e.version, skill |-> e.skill, policy |-> policy, rule |-> rule.id,
                type |-> rule.type, leaves |-> Collect(state, rule.condition).leaves, priority |-> id,
                snapshot |-> Snapshot(state, policy), since |-> Len(receipts), explanation |-> Unexplained]
  IN evaluations' = (evaluations \ {e}) \cup (IF Matching(state, policy) = {} THEN {} ELSE {begun})

\* Mutant: the version asked about is not compared with the current one.
StartEvaluationOfAny(e) ==
  /\ e.stage = "asked" /\ Begin(e, learner[e.version])
  /\ UNCHANGED <<policy, learner, receipts>>

\* evaluateState up to the explanation: an evaluation of a version that is no longer the
\* current one is refused, one that no rule matches makes no decision.
StartEvaluation(e) ==
  /\ e.stage = "asked"
  /\ IF e.version # Len(learner) THEN evaluations' = evaluations \ {e} ELSE Begin(e, learner[Len(learner)])
  /\ UNCHANGED <<policy, learner, receipts>>

\* The explanation is there, or there is none; the decision is saved.
FinishEvaluation(e) ==
  /\ e.stage = "explaining"
  /\ \E x \in Explanations(e) : receipts' = Append(receipts, [e EXCEPT !.explanation = x])
  /\ evaluations' = evaluations \ {e}
  /\ UNCHANGED <<policy, learner>>

RuleNext ==
  \/ \E doc \in RuleDocuments : PutRules(doc)
  \/ \E state \in RuleStates, skill \in ContextSkills : SaveVersion(state, skill)
  \/ \E e \in evaluations : StartEvaluation(e) \/ FinishEvaluation(e)

RuleSpec == RuleInit /\ [][RuleNext]_ruleVars

--------------------------------------------------------------------------------
\* Only a valid document is in force, and the evaluations and receipts keep their types.
RuleTypeOK ==
  /\ policy \in RuleDocuments /\ ValidPolicy(policy)
  /\ learner \in Seq(RuleStates) /\ Len(learner) <= MaxStates
  /\ \A e \in evaluations : e.version \in DOMAIN learner /\ e.stage \in {"asked", "explaining"}
  /\ \A i \in DOMAIN receipts : LET r == receipts[i] IN
       /\ r.version \in DOMAIN learner /\ r.type \in DecisionTypes /\ r.explanation.kind \in {"none", "some"}

\* A receipt is enough to check the decision: its policy on its snapshot, which
\* holds the fields of the policy only, decides by the same rule on the same
\* values as it did on the whole state.
SnapshotReplays ==
  \A i \in DOMAIN receipts : LET r == receipts[i]  m == Matching(r.snapshot, r.policy) IN
    /\ m # {} /\ r.policy.rules[FirstMatch(r.snapshot, r.policy)].id = r.rule
    /\ r.leaves = Collect(r.snapshot, r.policy.rules[FirstMatch(r.snapshot, r.policy)].condition).leaves

\* The priority of a decision is the place of a rule that held of its version, and
\* no rule before it did.
PriorityIsFirst ==
  \A i \in DOMAIN receipts : LET r == receipts[i]  m == Matching(learner[r.version], r.policy) IN
    r.priority \in m /\ \A j \in m : r.priority <= j

HasAny(node) == \E c \in Parts[node] : c.node = "any"

\* The rationale joins the values that were looked at with AND: its last one holds, of
\* a field that the state has, and one that does not hold is in the rationale only
\* of a rule with an "any".
RationaleHolds ==
  \A i \in DOMAIN receipts : LET r == receipts[i]  n == Len(r.leaves) IN
    /\ r.leaves[n].actual.kind # "absent"
    /\ \A k \in 1..n : LET l == r.leaves[k] IN
         Holds(l.actual, l.operator, l.threshold) \/ (k < n /\ HasAny(r.policy.rules[r.priority].condition))

\* The trace page computes anew, from the receipt and with its own comparison, which
\* leaves passed: on a value that is there it says what the engine found, unless two
\* texts were ordered, and a leaf that decided is never said to have failed.
TraceAgrees ==
  \A i \in DOMAIN receipts : \A k \in DOMAIN receipts[i].leaves : LET l == receipts[i].leaves[k] IN
    l.actual.kind \in {"absent", "null"} \/ (BothTexts(l) /\ l.operator \notin {"eq", "neq"})
      \/ TraceVerdicts(l) = {IF Holds(l.actual, l.operator, l.threshold) THEN "pass" ELSE "fail"}

\* A decision on an older version is saved after one on a newer version only when
\* its evaluation had begun before: no request decides on a version that was
\* replaced before it looked.
OvertakenInFlight ==
  \A j \in DOMAIN receipts : \A i \in 1..(j - 1) :
    receipts[i].version > receipts[j].version => receipts[j].since < i

\* An explanation that is kept repeats no text of the learner's state of four letters
\* or more that the receipt holds, nor a value that the rule was evaluated on.
ExplanationRepeatsNothing ==
  \A i \in DOMAIN receipts : LET r == receipts[i] IN
    r.explanation.kind = "some" =>
      \A q \in DOMAIN r.snapshot : r.snapshot[q].kind = "text" => r.snapshot[q].value \notin r.explanation.texts

\* A receipt explains its decision: it can be replayed, its rationale holds, the trace page says
\* the same, it was not made on a version known to be replaced, and it tells nobody's texts.
ReceiptsExplain ==
  /\ RuleTypeOK /\ SnapshotReplays /\ PriorityIsFirst /\ RationaleHolds /\ TraceAgrees
  /\ OvertakenInFlight /\ ExplanationRepeatsNothing
===============================================================================
