------------------------------ MODULE SignalChecks ------------------------------
(***************************************************************************)
(* What is asked of a payload before it becomes state: the preflight that  *)
(* an operator runs on a sample, the checks and the mapping of ingestion,  *)
(* and the check of the state that comes out.  Mappings are kept in memory *)
(* (no FIELD_MAPPINGS_TABLE) and an operator may put one at any time.      *)
(* Payloads are as in module DotPaths.                                     *)
(***************************************************************************)
EXTENDS DotPaths, FiniteSets

CONSTANTS
  KeyClass,   \* of each key: "plain", "pii" or "semantic"
  Samples,   \* the samples
  Orgs,
  MappingBodies,     \* the mappings that operators put
  OldFile     \* the mappings of a file of version 1, by organisation

NoMapping == [aliases |-> <<>>, transforms |-> <<>>, strict |-> FALSE, required |-> {}, types |-> <<>>,
              none |-> TRUE]

Paths == Seq(DOMAIN KeyClass) \ {<<>>}

\* No leaf lies above another.
IsObject(p) == DOMAIN p \subseteq Paths /\ \A q, r \in DOMAIN p : q # r => ~IsPrefix(q, r)

\* What is written, and what is read, has a path; an operand is one of two kinds.
IsMapping(m) ==
  /\ m.aliases \in Seq([canonical : Paths, candidates : Seq(Paths)])
  /\ m.transforms \in Seq(Range(m.transforms)) /\ m.strict \in BOOLEAN
  /\ \A i \in DOMAIN m.transforms : LET t == m.transforms[i] IN
       /\ t.target \in Paths /\ \A n \in DOMAIN t.sources : t.sources[n] \in Paths
       /\ \A term \in {t.expression.left, t.expression.right} : {term.plus.kind, term.minus.kind} \subseteq {"const", "var"}

ASSUME SignalChecksAssumption ==
  /\ \A k \in DOMAIN KeyClass : KeyClass[k] \in {"plain", "pii", "semantic"}
  /\ \A p \in Samples : IsObject(p)
  /\ \A m \in MappingBodies : IsMapping(m)
  /\ OldFile \in [Orgs -> MappingBodies \cup {NoMapping}]

VARIABLES
  mappings,  \* tenantConfig: its version and the mapping of each organisation
  signal,    \* the payload of the signal at hand, its organisation and what was said of it
  preflight  \* the last answer of the preflight, with the mapping that it used

checkVars == <<mappings, signal, preflight>>

Throws == [kind |-> "failed"]

--------------------------------------------------------------------------------
\* An expression in two levels: an operator on two differences of operands, each
\* a constant or the variable of a source.
Operand(o, vars) == IF o.kind = "const" THEN Numeral(o.value) ELSE vars[o.name]
Difference(term, vars) ==
  LET plus == Operand(term.plus, vars)  minus == Operand(term.minus, vars) IN
  IF NaN \in {plus, minus} THEN NaN ELSE Numeral(plus.value - minus.value)

Calculate(op, a, b) ==
  CASE op = "min" -> IF a < b THEN a ELSE b
    [] op = "times" -> a * b
    [] op = "over" -> a \div b

Operands(e) == {e.left.plus, e.left.minus, e.right.plus, e.right.minus}
VariablesOf(e) == {o.name : o \in {a \in Operands(e) : a.kind = "var"}}

\* evaluateTransform: an unknown variable, a division by zero and a result that is
\* not finite throw.
Evaluate(e, vars) ==
  IF ~(VariablesOf(e) \subseteq DOMAIN vars) THEN Throws
  ELSE LET left == Difference(e.left, vars)  right == Difference(e.right, vars) IN
       IF NaN \in {left, right} \/ (e.op = "over" /\ right = Numeral(0)) THEN Throws
       ELSE Numeral(Calculate(e.op, left.value, right.value))

\* validateMappingBody: with 1 for each of its sources the expression of every
\* transform can be evaluated.
ValidMapping(m) ==
  \A i \in DOMAIN m.transforms : LET t == m.transforms[i] IN
    /\ DOMAIN t.sources # {}
    /\ Evaluate(t.expression, [n \in DOMAIN t.sources |-> Numeral(1)]) # Throws

--------------------------------------------------------------------------------
\* normalizeAndValidateTenantPayload, on [payload, errors].
ApplyAlias(acc, alias) ==
  LET found == SelectSeq(alias.candidates, LAMBDA c : IsPresent(acc.payload, c)) IN
  CASE IsPresent(acc.payload, alias.canonical) \/ found = <<>> -> acc
    [] ~IsPresent(acc.payload, alias.canonical) /\ Len(found) = 1 ->
         [acc EXCEPT !.payload = SetAt(@, alias.canonical, At(@, Head(found)))]
    [] OTHER -> [acc EXCEPT !.errors = @ \cup {"invalid_format"}]

ApplyTransform(acc, t, strict) ==
  LET missing == {n \in DOMAIN t.sources : ~IsPresent(acc.payload, t.sources[n])}
      vars == [n \in DOMAIN t.sources |-> ToNumber(At(acc.payload, t.sources[n]))]
      result == Evaluate(t.expression, vars)
  IN CASE missing # {} /\ strict -> [acc EXCEPT !.errors = @ \cup {"missing_required_field"}]
       [] missing # {} /\ ~strict -> acc
       [] missing = {} /\ result = Throws -> [acc EXCEPT !.errors = @ \cup {"invalid_mapping_expression"}]
       [] OTHER -> [acc EXCEPT !.payload = SetAt(@, t.target, result)]

\* One alias after the other, then one transform after the other.
Steps(p, m) ==
  LET step[n \in 0..(Len(m.aliases) + Len(m.transforms))] ==
        CASE n = 0 -> [payload |-> p, errors |-> {}]
          [] n \in 1..Len(m.aliases) -> ApplyAlias(step[n - 1], m.aliases[n])
          [] OTHER -> ApplyTransform(step[n - 1], m.transforms[n - Len(m.aliases)], m.strict)
  IN step

Normalize(p, m) ==
  LET transformed == Steps(p, m)[Len(m.aliases) + Len(m.transforms)]
      filled == transformed.payload
      missing == {q \in m.required : ~IsPresent(filled, q) \/ At(filled, q).kind = "blank"}
      wrong == {q \in DOMAIN m.types : IsPresent(filled, q) /\ At(filled, q).kind # m.types[q]}
  IN [payload |-> filled,
      errors |-> transformed.errors \cup (IF missing = {} THEN {} ELSE {"missing_required_field"})
                                    \cup (IF wrong = {} THEN {} ELSE {"invalid_type"})]

--------------------------------------------------------------------------------
\* Every forbidden key of an object and its objects, by its path; lists are not
\* looked into.
Hits(p) == {q \in UNION {{SubSeq(r, 1, n) : n \in 1..Len(r)} : r \in DOMAIN p} : KeyClass[Last(q)] # "plain"}
OfClass(hits, class) == {q \in hits : KeyClass[Last(q)] = class}

\* detectForbiddenKeys stops at the first in the order of the keys, which is the
\* sender's: any that lies in no other; <<>> when there is none.
Detect(p) ==
  IF Hits(p) = {} THEN {<<>>} ELSE {q \in Hits(p) : \A r \in Hits(p) : ~IsStrictPrefix(r, q)}

\* resolveVerdict
PreflightVerdict(raw, after) ==
  CASE OfClass(raw, "pii") # {} -> "pii_blocking"
    [] OfClass(raw, "pii") = {} /\ OfClass(raw, "semantic") = {} -> "clean"
    [] OTHER -> IF after.known /\ OfClass(after.hits, "semantic") = {} THEN "semantic_resolvable_by_mapping"
                ELSE "semantic_blocking"

--------------------------------------------------------------------------------
NoSignal == [stage |-> "none"]
NoPreflight == [verdict |-> "none"]

\* Only mappings that validateMappingBody accepts, or the old file's, are in force.
CheckTypeOK ==
  /\ mappings.version \in {1, 2} /\ DOMAIN mappings.of = Orgs
  /\ signal.stage \in {"none", "sent", "refused", "invalid", "accepted", "applied", "unapplied"}
  /\ preflight.verdict \in {"none", "clean", "pii_blocking", "semantic_blocking", "semantic_resolvable_by_mapping"}
  /\ \A o \in Orgs : LET m == mappings.of[o] IN
       m = NoMapping \/ (m \in MappingBodies /\ (m # OldFile[o] => ValidMapping(m)))

CheckInit ==
  /\ \/ mappings = [version |-> 1, of |-> OldFile]
     \/ mappings = [version |-> 2, of |-> [o \in Orgs |-> NoMapping]]
  /\ signal = NoSignal /\ preflight = NoPreflight

\* upsertTenantPayloadMappingInMemory: unless the configuration is of version 2
\* it begins a new one.
PutMapping(o, m) ==
  /\ ValidMapping(m) /\ mappings.of[o] # m
  /\ LET base == IF mappings.version = 2 THEN mappings.of ELSE [r \in Orgs |-> NoMapping]
     IN mappings' = [version |-> 2, of |-> [base EXCEPT ![o] = m]]
  /\ UNCHANGED <<signal, preflight>>

\* What the preflight says of a payload under a mapping.
Examined(p, m) ==
  LET n == Normalize(p, m)
      known == m # NoMapping /\ n.errors = {}
  IN [hits |-> Hits(p), unmapped |-> m # NoMapping /\ n.errors # {},
      verdict |-> PreflightVerdict(Hits(p), [known |-> known, hits |-> Hits(n.payload)])]

\* handlePreflightCore, with or without the organisation the sample is of.
Preflight(p, o, scoped) ==
  /\ signal.stage = "none" /\ preflight = NoPreflight
  /\ LET m == IF scoped THEN mappings.of[o] ELSE NoMapping  e == Examined(p, m) IN
     preflight' = [payload |-> p, org |-> o, scoped |-> scoped, used |-> m,
                   hits |-> e.hits, unmapped |-> e.unmapped, verdict |-> e.verdict]
  /\ UNCHANGED <<mappings, signal>>

\* A signal of an organisation arrives.
SendSample(p, o) ==
  /\ signal.stage = "none"
  /\ signal' = [stage |-> "sent", payload |-> p, org |-> o]
  /\ UNCHANGED <<mappings, preflight>>

\* Mutant: the keys are looked for in what the mapping made of the payload.
IngestMapped ==
  /\ signal.stage = "sent"
  /\ LET n == Normalize(signal.payload, mappings.of[signal.org]) IN
     \E key \in Detect(n.payload) :
       signal' = [stage |-> CASE key # <<>> -> "refused"
                              [] key = <<>> /\ n.errors # {} -> "invalid"
                              [] OTHER -> "accepted",
                  payload |-> signal.payload, org |-> signal.org, key |-> key, used |-> mappings.of[signal.org],
                  version |-> mappings.version, stored |-> n.payload, errors |-> n.errors]
  /\ UNCHANGED <<mappings, preflight>>

\* handleSignalIngestionCore: the keys are looked for before the mapping is made.
Ingest ==
  /\ signal.stage = "sent"
  /\ LET n == Normalize(signal.payload, mappings.of[signal.org]) IN
     \E key \in Detect(signal.payload) :
       signal' = [stage |-> CASE key # <<>> -> "refused"
                              [] key = <<>> /\ n.errors # {} -> "invalid"
                              [] OTHER -> "accepted",
                  payload |-> signal.payload, org |-> signal.org, key |-> key, used |-> mappings.of[signal.org],
                  version |-> mappings.version, stored |-> n.payload, errors |-> n.errors]
  /\ UNCHANGED <<mappings, preflight>>

\* applySignals: the state that the stored payload makes is looked through as
\* the payload was.
ApplyStored ==
  /\ signal.stage = "accepted"
  /\ signal' = [signal EXCEPT !.stage = IF Detect(signal.stored) = {<<>>} THEN "applied" ELSE "unapplied"]
  /\ UNCHANGED <<mappings, preflight>>

CheckNext ==
  \/ \E o \in Orgs, m \in MappingBodies : PutMapping(o, m)
  \/ \E p \in Samples, o \in Orgs : (\E scoped \in BOOLEAN : Preflight(p, o, scoped)) \/ SendSample(p, o)
  \/ Ingest \/ ApplyStored

CheckSpec == CheckInit /\ [][CheckNext]_checkVars

--------------------------------------------------------------------------------
Ingested == signal.stage \notin {"none", "sent"}
Foretold == Ingested /\ preflight # NoPreflight /\ preflight.payload = signal.payload

\* A sample that the preflight finds clean is not refused for a key when it is
\* sent, and one that it does not always is, the verdict that says a mapping
\* resolves it included; the key named is one that the preflight listed.
VerdictForetells ==
  Foretold =>
    /\ signal.stage = "refused" <=> preflight.verdict # "clean"
    /\ signal.stage = "refused" => signal.key \in preflight.hits

\* A sample that its organisation's mapping could make a payload of is refused
\* for the mapping only when another mapping came in between, and the reverse.
MappingForetells ==
  Foretold /\ preflight.scoped /\ preflight.org = signal.org /\ signal.used = preflight.used
           /\ preflight.verdict = "clean" =>
    (signal.stage = "invalid" <=> preflight.unmapped)

\* A mapping adds fields and takes none away: a semantic key is only gone after
\* it when a target of the mapping lies above the key.
ResolvedByOverwriting ==
  preflight.verdict = "semantic_resolvable_by_mapping" =>
    \A q \in OfClass(preflight.hits, "semantic") :
      \E i \in DOMAIN preflight.used.transforms : IsPrefix(preflight.used.transforms[i].target, Front(q))

\* No forbidden key becomes state: where the mapping wrote one, the signal that
\* was accepted stays without effect, and only there.
ForbiddenStaysOut ==
  /\ signal.stage = "applied" => Hits(signal.stored) = {}
  /\ signal.stage = "unapplied" =>
       \E q \in Hits(signal.stored) \ Hits(signal.payload) :
         \/ \E i \in DOMAIN signal.used.aliases : IsPrefix(q, signal.used.aliases[i].canonical)
         \/ \E i \in DOMAIN signal.used.transforms : IsPrefix(q, signal.used.transforms[i].target)

\* What is stored has every field that the mapping requires, and the fields that
\* it types hold such values.
StoredIsMapped ==
  signal.stage \in {"accepted", "applied", "unapplied"} =>
    /\ \A q \in signal.used.required : At(signal.stored, q).kind \notin {"absent", "null", "blank"}
    /\ \A q \in DOMAIN signal.used.types : At(signal.stored, q).kind \in {signal.used.types[q], "absent", "null"}

\* What a transform reads is written by a later one.
Overwritten(m, i, path) ==
  \E j \in DOMAIN m.transforms :
    j > i /\ (IsPrefix(m.transforms[j].target, path) \/ IsPrefix(path, m.transforms[j].target))

\* An expression that was checked when its mapping was put fails at ingestion only on a value that is
\* no number or on a division by zero; the value can be seen unless another transform wrote over it.
ExpressionFailsOnData ==
  Ingested /\ signal.version = 2 /\ "invalid_mapping_expression" \in signal.errors =>
    \E i \in DOMAIN signal.used.transforms : LET t == signal.used.transforms[i] IN
      \/ t.expression.op = "over"
      \/ \E n \in DOMAIN t.sources : \/ ToNumber(At(signal.stored, t.sources[n])) = NaN
                                    \/ Overwritten(signal.used, i, t.sources[n])

\* docs/specs/ingestion-preflight.md:22 calls the mapping layer the escape hatch for payloads with
\* semantic keys, and a mapping is to resolve them (:99): a sample found resolvable by the mapping of its
\* organisation is not refused for a key while that mapping stays.  It is, in every case, for
\* ingestion looks for the keys before it maps; VerdictForetells states that.
ResolvableIsIngested ==
  Foretold /\ preflight.verdict = "semantic_resolvable_by_mapping"
           /\ preflight.org = signal.org /\ signal.used = preflight.used =>
    signal.stage # "refused"

\* The preflight of a sample foretells what ingestion makes of it, unless a mapping was put in
\* between, and no forbidden key gets into the state by way of a mapping.
ChecksForetell ==
  /\ CheckTypeOK /\ VerdictForetells /\ MappingForetells /\ ResolvedByOverwriting
  /\ ForbiddenStaysOut /\ StoredIsMapped /\ ExpressionFailsOnData
===============================================================================
