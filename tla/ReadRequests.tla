------------------------------ MODULE ReadRequests ------------------------------
(***************************************************************************)
(* The parameters of the read API.  The server and the Lambda functions    *)
(* check them apart: for some endpoints with the same function, for others *)
(* with code written twice.  A client sends a request to either, reads     *)
(* which parameter the answer finds fault with, corrects that one and asks *)
(* again.  A parameter is one of the kinds below; a request for which more *)
(* than one is at fault is answered with the first.                        *)
(***************************************************************************)
EXTENDS Integers, Sequences, FiniteSets, SequencesExt

CONSTANTS
  Endpoints,   \* those that a client asks
  MaxFaults    \* bound on the faults of the first request

\* The endpoints are those whose parameters are below.
ASSUME RequestAssumption ==
  Endpoints \subseteq {"signals", "decisions", "state", "list", "ingestion", "trajectory", "summary"}

VARIABLES asked, corrected
requestVars == <<asked, corrected>>

Hosts == {"server", "lambda"}

\* The kinds of each parameter: "blank" is the empty text, "lead" is a number followed by other characters,
\* "repeated" a parameter that is given twice, both times well.
Texts == {"missing", "blank", "ok", "long", "repeated"}
Numbers == {"missing", "blank", "text", "zero", "one", "two", "lead", "over", "repeated"}
Moments == {"missing", "blank", "bad", "one", "two", "repeated"}
FieldLists == {"missing", "blank", "hole", "long", "dotted", "many", "ok", "repeated"}
Tokens == {"missing", "blank", "bad", "row", "repeated"}
OutcomeFilters == {"missing", "blank", "bad", "ok", "repeated"}

KindsOf(field) ==
  CASE field \in {"org_id", "learner_reference"} -> Texts
    [] field \in {"version", "from_version", "to_version", "limit", "page_size", "recent_decisions_limit"} -> Numbers
    [] field \in {"from_time", "to_time"} -> Moments
    [] field \in {"fields", "trajectory_fields"} -> FieldLists
    [] field = "page_token" -> Tokens
    [] field = "outcome" -> OutcomeFilters
WellFormed == {"ok", "one", "two", "row"}

\* The parameters of an endpoint in the order in which they are checked.
ParametersOf ==
  [signals |-> <<"org_id", "learner_reference", "from_time", "to_time", "page_size", "page_token">>,
   decisions |-> <<"org_id", "learner_reference", "from_time", "to_time", "page_size", "page_token">>,
   state |-> <<"org_id", "learner_reference", "version">>,
   list |-> <<"org_id", "limit">>,
   ingestion |-> <<"org_id", "limit", "outcome">>,
   trajectory |-> <<"org_id", "learner_reference", "fields", "from_version", "to_version", "page_size", "page_token">>,
   summary |-> <<"learner_reference", "org_id", "recent_decisions_limit", "trajectory_fields">>]

\* Of a parameter given twice fastify makes a list, the API gateway keeps the last.
Received(host, kind, field) ==
  IF host = "lambda" /\ kind = "repeated" THEN CHOOSE k \in KindsOf(field) \cap WellFormed : k # "two" ELSE kind

--------------------------------------------------------------------------------
Fault(field, bad, code) == [field |-> field, code |-> IF bad THEN code ELSE "none"]
NotText(kind) == kind \in {"missing", "blank", "repeated"}
NotNumber(kind) == kind \in {"blank", "text", "repeated"}
Fine == [field |-> "none", code |-> "none"]
FirstFault(faults) ==
  LET found == {i \in DOMAIN faults : faults[i].code # "none"} IN
  IF found = {} THEN Fine ELSE faults[CHOOSE i \in found : \A j \in found : i <= j]

\* org_id and learner_reference where their length is checked.
OrgFaults(p) == <<Fault("org_id", NotText(p.org_id), "org_scope_required"),
                  Fault("org_id", p.org_id = "long", "invalid_length")>>
LearnerFaults(p) == <<Fault("learner_reference", NotText(p.learner_reference), "missing_required_field"),
                      Fault("learner_reference", p.learner_reference = "long", "invalid_length")>>

MomentFaults(p, field) ==
  <<Fault(field, NotText(p[field]), "missing_required_field"), Fault(field, p[field] = "bad", "invalid_timestamp")>>

\* validateSignalLogQuery.
SignalsFaults(p) ==
  <<Fault("org_id", NotText(p.org_id), "org_scope_required"),
    Fault("learner_reference", NotText(p.learner_reference), "missing_required_field")>>
  \o MomentFaults(p, "from_time") \o MomentFaults(p, "to_time")
  \o <<Fault("from_time", p.from_time = "two" /\ p.to_time = "one", "invalid_time_range"),
       Fault("page_size", NotNumber(p.page_size), "invalid_type"),
       Fault("page_size", p.page_size \in {"zero", "over"}, "page_size_out_of_range"),
       Fault("page_token", p.page_token = "repeated", "invalid_type"),
       Fault("page_token", p.page_token = "bad", "invalid_page_token")>>

\* validateGetDecisionsRequest, written after the one above.
DecisionsFaults(p) == SignalsFaults(p)

\* validateStateParams and handleGetState.
StateFaults(p) ==
  OrgFaults(p) \o LearnerFaults(p)
  \o <<Fault("version", p.version \in {"text", "repeated", "zero"}, "invalid_type")>>
LambdaStateFaults(p) ==
  <<Fault("none", NotText(p.org_id), "org_scope_required"),
    Fault("none", NotText(p.learner_reference), "missing_required_field"),
    Fault("none", p.version \in {"text", "zero"}, "invalid_type")>>

\* validateStateListParams and handleGetStateList.
ListFaults(p) ==
  OrgFaults(p) \o <<Fault("limit", NotNumber(p.limit) \/ p.limit \in {"zero", "over"}, "limit_out_of_range")>>
LambdaListFaults(p) ==
  <<Fault("none", NotText(p.org_id), "org_scope_required"),
    Fault("none", p.limit \in {"text", "zero", "over"}, "limit_out_of_range")>>

\* validateParams of the ingestion log and handleGetIngestionLog.
IngestionFaults(p) ==
  OrgFaults(p)
  \o <<Fault("limit", NotNumber(p.limit), "invalid_type"),
       Fault("limit", p.limit \in {"zero", "over"}, "limit_out_of_range"),
       Fault("outcome", p.outcome \in {"bad", "repeated"}, "invalid_outcome_filter")>>
LambdaIngestionFaults(p) ==
  LambdaListFaults(p) \o <<Fault("none", p.outcome = "bad", "invalid_outcome_filter")>>

\* The names of fields, separated by commas.
FieldsFault(p, field) == Fault(field, p[field] \in {"hole", "long", "dotted", "many"}, "invalid_format")

\* validateTrajectoryParams, and where the versions are compared: without to_version the
\* end is the current version, here the second.
VersionOf(kind, without) ==
  CASE kind \in {"missing", "blank"} -> without [] kind \in {"one", "lead"} -> 1 [] kind = "two" -> 2 [] kind = "over" -> 101
    [] OTHER -> 0
TrajectoryFaults(p) ==
  OrgFaults(p) \o LearnerFaults(p)
  \o <<Fault("fields", NotText(p.fields), "missing_required_field"), FieldsFault(p, "fields"),
       Fault("from_version", p.from_version \in {"text", "repeated", "zero"}, "invalid_type"),
       Fault("to_version", p.to_version \in {"text", "repeated", "zero"}, "invalid_type"),
       Fault("page_size", p.page_size \in {"text", "repeated", "zero", "over"}, "page_size_out_of_range"),
       Fault("page_token", p.page_token \in {"bad", "repeated"}, "invalid_page_token"),
       Fault("from_version", VersionOf(p.from_version, 1) > VersionOf(p.to_version, 2), "invalid_format")>>

\* Mutant: the copy bounds the page as the listings do.
LambdaTrajectoryFaultsWide(p) == TrajectoryFaults([p EXCEPT !.page_size = IF @ = "over" THEN "two" ELSE @])

\* handleGetStateTrajectory, the copy.
LambdaTrajectoryFaults(p) == TrajectoryFaults(p)

\* validateSummaryParams, whose numbers have digits only.
SummaryFaults(p) ==
  LearnerFaults(p) \o OrgFaults(p)
  \o <<Fault("recent_decisions_limit", p.recent_decisions_limit \in {"text", "lead", "repeated"}, "invalid_type"),
       Fault("recent_decisions_limit", p.recent_decisions_limit \in {"zero", "over"}, "invalid_format"),
       Fault("trajectory_fields", p.trajectory_fields = "repeated", "invalid_type"),
       FieldsFault(p, "trajectory_fields")>>

\* handleGetLearnerSummary, the copy.
LambdaSummaryFaults(p) == SummaryFaults(p)

FaultsOf(host, endpoint, p) ==
  CASE endpoint = "signals" -> SignalsFaults(p)
    [] endpoint = "decisions" -> DecisionsFaults(p)
    [] endpoint = "state" -> IF host = "server" THEN StateFaults(p) ELSE LambdaStateFaults(p)
    [] endpoint = "list" -> IF host = "server" THEN ListFaults(p) ELSE LambdaListFaults(p)
    [] endpoint = "ingestion" -> IF host = "server" THEN IngestionFaults(p) ELSE LambdaIngestionFaults(p)
    [] endpoint = "trajectory" -> IF host = "server" THEN TrajectoryFaults(p) ELSE LambdaTrajectoryFaults(p)
    [] endpoint = "summary" -> IF host = "server" THEN SummaryFaults(p) ELSE LambdaSummaryFaults(p)

AnswerOf(host, endpoint, p) ==
  FirstFault(FaultsOf(host, endpoint, [f \in DOMAIN p |-> Received(host, p[f], f)]))

--------------------------------------------------------------------------------
NotAsked == [endpoint |-> "none"]
RequestInit == asked = NotAsked /\ corrected = <<>>

\* A first request has at most MaxFaults parameters that are not well-formed; the learner
\* of a summary is part of the path.
AskFirst(host, endpoint) ==
  /\ asked = NotAsked
  /\ LET names == ToSet(ParametersOf[endpoint]) IN
     \E wrong \in {S \in SUBSET names : Cardinality(S) <= MaxFaults} :
     \E w \in {g \in [wrong -> UNION {KindsOf(f) : f \in names}] :
                 \A f \in wrong : g[f] \in KindsOf(f) \ (WellFormed \ {"two"})} :
       /\ endpoint = "summary" /\ "learner_reference" \in wrong => w["learner_reference"] \in {"blank", "long"}
       /\ asked' = [host |-> host, endpoint |-> endpoint,
                    params |-> [f \in names |-> IF f \in wrong THEN w[f]
                                                ELSE CHOOSE k \in KindsOf(f) \cap WellFormed : k # "two"]]
  /\ UNCHANGED corrected

\* The client gives the parameter that was named another value; told that a range is
\* empty it begins the range earlier.
CorrectNamed(kind) ==
  LET fault == AnswerOf(asked.host, asked.endpoint, asked.params) IN
  /\ fault.field # "none" /\ kind \in KindsOf(fault.field) \cap WellFormed
  /\ fault.code \in {"invalid_time_range", "invalid_format"} => kind # "two"
  /\ asked' = [asked EXCEPT !.params[fault.field] = kind]
  /\ corrected' = Append(corrected, fault)

RequestNext ==
  \/ \E host \in Hosts, e \in Endpoints : AskFirst(host, e)
  \/ asked # NotAsked /\ \E kind \in WellFormed : CorrectNamed(kind)

RequestSpec == RequestInit /\ [][RequestNext]_requestVars

--------------------------------------------------------------------------------
\* The server and the Lambda functions find the same fault with a request, and differ
\* only where a parameter is repeated, an identifier too long for the three endpoints
\* whose copy does not ask, or a limit is not a number; the same three copies do not name
\* the parameter.
HostsAgree ==
  asked # NotAsked =>
    LET p == asked.params  e == asked.endpoint
        server == AnswerOf("server", e, p)  lambda == AnswerOf("lambda", e, p)
        loose == e \in {"state", "list", "ingestion"} IN
    /\ (\A f \in DOMAIN p : p[f] # "repeated") /\ server.code # lambda.code =>
         \/ loose /\ \E f \in {"org_id", "learner_reference"} \cap DOMAIN p : p[f] = "long"
         \/ e = "list" /\ p.limit = "blank"
         \/ e = "ingestion" /\ p.limit \in {"blank", "text"}
    /\ (\A f \in DOMAIN p : p[f] # "repeated") /\ ~loose => server = lambda
    /\ lambda.code # "none" => (lambda.field = "none" <=> loose)

\* A client that corrects what is named comes to an end: no parameter is named again
\* once it was corrected, except the beginning of a range, once, for being beyond the end.
CorrectionsEnd ==
  asked # NotAsked =>
    LET fault == AnswerOf(asked.host, asked.endpoint, asked.params)
        before == {i \in DOMAIN corrected : corrected[i].field = fault.field} IN
    fault.code # "none" /\ before # {} =>
      /\ fault.field \in {"from_time", "from_version"} /\ fault.code \in {"invalid_time_range", "invalid_format"}
      /\ \A i \in before : corrected[i].code # fault.code

\* A client can rely on the answers to its parameters on either host: they find the same fault, and
\* correcting what they name comes to an end.
RequestsAnswered ==
  /\ HostsAgree /\ CorrectionsEnd
===============================================================================
