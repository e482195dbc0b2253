------------------------------- MODULE MCParts -------------------------------
\* Small instances of the parts that share no state with the ingestion pipeline,
\* checked in one run: of each behaviour one part moves, the others stay as they
\* began.
EXTENDS ReviewDesk, LearnerViews, SignalChecks, SignalUpload, DecisionRules, Sessions, ReadRequests, Routing, Overview, Connectors, ReviewLog

\* The desk: the views of one session without reviews up to the end of the clock,
\* or reviews without views; the bar reviews one of the two decisions, and the
\* second review in the sheet is the one that may be a rejection; one of two reviews
\* is made in the sheet, and on DynamoDB, where only ties differ, both are of one decision;
\* the first review is the one that may be undone or fail; where one is undone the page
\* is not left; the server is asked of the first decision.
DeskBounds ==
  /\ \/ Count("submit")' = 0 /\ \A i \in DOMAIN requests' : requests'[i].decision = 1 /\ sheet' # 2
     \/ Count("view")' = 0 /\ now' <= 2 /\ known'[2] = "none"
  /\ \A k \in DOMAIN reviews' : LET r == reviews'[k] IN
       /\ r.origin = "bar" => r.decision = 1
       /\ r.action = "reject" => k = 2 /\ r.origin = "sheet"
       /\ store = "dynamodb" => r.decision = 1 /\ sheet' # 2
       /\ r.undone \/ r.page = "failed" => k = 1
       /\ r.undone => \A j \in DOMAIN reviews' : reviews'[j].page # "left"
  /\ Len(reviews') = 2 => \E k \in {1, 2} : reviews'[k].origin = "sheet"
  /\ sheet = 0 => sheet' \in {0, 1}

Field(kind) == [kind |-> kind]
Scored(n) == [kind |-> "number", value |-> n]
Payload(skill, score, a, b) == [skill |-> skill, score |-> score, skills |-> <<a, b>>]
MCPayloads ==
  LET no == Field("absent") IN
  {Payload(0, no, Scored(1), no), Payload(0, no, Scored(3), no), Payload(0, no, no, Scored(2)),
   Payload(0, no, Scored(3), Scored(0)), Payload(1, Scored(2), no, no), Payload(2, Scored(1), no, no),
   Payload(2, no, no, no), Payload(1, no, no, no), Payload(0, Field("null"), no, no),
   Payload(0, no, Field("null"), no), Payload(0, no, Field("null_score"), no),
   Payload(1, Scored(2), Field("null"), no)}
MCConfigs ==
  {[explicit |-> <<"none", "none">>, prefixed |-> <<>>, default |-> "General"],
   [explicit |-> <<"math", "none">>, prefixed |-> <<[skills |-> {1, 2}, subject |-> "General"]>>, default |-> "math"]}
MCOwnSubject == <<"none", "none">>
\* Beside mastery: nothing; a stability that is low, declining from high, or back after it was
\* removed; a risk that is elevated or more, a falling one; a practice gap.  Of the skills
\* either none has a stability or all have that of the state.
Seen(score, direction, overall) == [score |-> score, direction |-> direction, overall |-> overall]
Unseen == Seen(None, "none", "none")
Fields(stability, risk, unpractised, ofSkills) ==
  [stability |-> stability, risk |-> risk, unpractised |-> unpractised, skills |-> <<ofSkills, ofSkills>>]
MCOthers ==
  LET low == Seen(0, "declining", "declining")  high == Seen(3, "improving", "improving") IN
  {Fields(Unseen, Unseen, FALSE, Unseen), Fields(low, Unseen, FALSE, low), Fields(low, Unseen, FALSE, Unseen),
   Fields(Seen(2, "declining", "improving"), Unseen, FALSE, Unseen), Fields(Seen(2, "none", "declining"), Unseen, FALSE, Unseen),
   Fields(high, Seen(3, "stable", "stable"), FALSE, high), Fields(Unseen, Seen(1, "declining", "declining"), TRUE, Unseen)}
\* Of three signals one at most meets a conflict, and the third goes on from another one.
StateBounds ==
  Len(versions') = 3 =>
    /\ merged'[3].base # 0
    /\ \/ merged'[3].first = merged'[3].base
       \/ merged'[2].first = merged'[2].base /\ merged'[3].payload.skill = 0

\* The checks: one organisation sends what it had examined, or examined nothing; of the
\* other one's mappings two will do.
Kind(k) == [kind |-> k]
MCKeyClass == [k \in {"a", "b", "c", "x", "score", "email"} |->
                 CASE k = "score" -> "semantic" [] k = "email" -> "pii" [] OTHER -> "plain"]
MCSamples ==
  {<<"a">> :> Numeral(2) @@ <<"b">> :> Numeral(1), <<"a">> :> Numeral(2) @@ <<"b">> :> Kind("blank"),
   <<"a">> :> Kind("text"), <<"a">> :> Kind("list"), <<"a">> :> Kind("null") @@ <<"b">> :> Kind("boolean"),
   <<"score">> :> Numeral(3) @@ <<"a">> :> Numeral(1), <<"x", "score">> :> Numeral(3) @@ <<"b">> :> Numeral(0),
   <<"x", "email">> :> Kind("text") @@ <<"x", "score">> :> Numeral(3)}
Var(n) == [kind |-> "var", name |-> n]
Const(n) == [kind |-> "const", value |-> n]
Term(plus, minus) == [plus |-> plus, minus |-> minus]
Formula(op, left, right) == [op |-> op, left |-> left, right |-> right]
Rule(target, sources, e) == [target |-> target, sources |-> sources, expression |-> e]
Plain == [aliases |-> <<>>, transforms |-> <<>>, strict |-> FALSE, required |-> {}, types |-> <<>>, none |-> FALSE]
Zero == Const(0)
Unbound == [Plain EXCEPT !.transforms =
  <<Rule(<<"c">>, "v" :> <<"a">>, Formula("min", Term(Var("w"), Zero), Term(Const(1), Zero)))>>]
Typed == [Plain EXCEPT !.aliases = <<[canonical |-> <<"a">>, candidates |-> <<<<"b">>, <<"x", "score">>>>]>>,
                       !.required = {<<"a">>}, !.types = (<<"a">> :> "number")]
MCMappingBodies ==
  {Unbound, Typed,
   [Plain EXCEPT !.transforms =
     <<Rule(<<"x">>, "v" :> <<"x", "score">>, Formula("min", Term(Var("v"), Zero), Term(Const(2), Zero)))>>],
   [Plain EXCEPT !.aliases = <<[canonical |-> <<"score">>, candidates |-> <<<<"a">>>>]>>],
   [Plain EXCEPT !.strict = TRUE, !.transforms =
     <<Rule(<<"c">>, ("v" :> <<"a">>) @@ ("w" :> <<"b">>), Formula("over", Term(Var("v"), Zero), Term(Var("w"), Zero)))>>],
   [Plain EXCEPT !.transforms =
     <<Rule(<<"c">>, "v" :> <<"b">>, Formula("over", Term(Var("v"), Zero), Term(Var("v"), Const(1))))>>],
   [Plain EXCEPT !.transforms =
     <<Rule(<<"x", "score">>, "v" :> <<"a">>, Formula("times", Term(Var("v"), Const(1)), Term(Const(2), Zero)))>>],
   [Plain EXCEPT !.transforms =
     <<Rule(<<"c">>, "v" :> <<"a">>, Formula("min", Term(Var("v"), Zero), Term(Const(1), Zero))),
       Rule(<<"a">>, "v" :> <<"a">>, Formula("min", Term(Const(2), Zero), Term(Const(1), Zero)))>>]}
MCOldFile == <<Unbound, Typed>>
CheckBounds ==
  /\ mappings'.of[2] \in {NoMapping, Unbound, Typed}
  /\ preflight' # NoPreflight => preflight'.org = 1
  /\ signal' # NoSignal => signal'.org = 1 /\ (preflight' # NoPreflight => preflight'.payload = signal'.payload)

\* The wizard: a file without a source column and with a row of columns of its own, one
\* with two columns for the id, one whose first row holds personal data.
Text(n) == Cell("ok", n, "plain")
Object(hit) == Cell("object", 1, hit)
MCHeaderField == [c \in {"id", "signal_id", "student", "time", "lms", "extra", "email"} |->
  CASE c \in {"id", "signal_id"} -> "signal_id" [] c = "student" -> "learner_reference" [] c = "time" -> "timestamp"
    [] c = "lms" -> "source_system" [] OTHER -> "none"]
MCColumnKind == [c \in DOMAIN MCHeaderField |-> IF c = "email" THEN "pii" ELSE "plain"]
UploadRow(id, student, lms, extra) ==
  "id" :> id @@ "student" :> student @@ "time" :> Text(1) @@ "lms" :> lms @@ "extra" :> extra
MCFiles ==
  {[header |-> <<"id", "student", "time">>,
    rows |-> <<"id" :> Text(1) @@ "student" :> Text(1) @@ "time" :> Text(1),
               UploadRow(Text(1), Cell("long", 2, "plain"), Text(1), Object("pii"))>>],
   [header |-> <<"id", "student", "time", "lms", "extra">>,
    rows |-> <<UploadRow(Text(1), Text(1), Cell("empty", 0, "plain"), Object("plain")),
               UploadRow(Cell("bad", 1, "plain"), Text(1), Text(1), Object("plain")),
               UploadRow(Text(1), Text(2), Text(1), Object("pii")),
               UploadRow(Text(2), Text(1), Text(1), Cell("empty", 0, "plain"))>>],
   [header |-> <<"signal_id", "id", "student", "time", "lms", "email">>,
    rows |-> <<UploadRow(Text(3), Text(1), Text(1), Text(1)) @@ "signal_id" :> Text(2) @@ "email" :> Text(1)>>]}
MCSourceDefault == {Absent, Text(2)}
\* Of the columns only those for the id, and those without a field, get another place;
\* the second upload leaves the mapping and the defaults alone.
UploadBounds ==
  /\ step = 1 /\ mapping' # mapping /\ step' = 1 =>
       \A c \in Range(file.header) : HeaderField[c] \notin {"signal_id", "none"} => \A f \in EnvelopeFields :
         (f \in DOMAIN mapping'.of /\ mapping'.of[f] = c) <=> (f \in DOMAIN mapping.of /\ mapping.of[f] = c)
  /\ step = 1 => DOMAIN mapping'.of \subseteq {HeaderField[c] : c \in DOMAIN HeaderField}
  /\ commits = 1 /\ step \in {0, 1} => mapping' \in {NoMap, AutoMap(file'.header)} /\ defaults' = defaults
  /\ commits = 1 /\ step = 0 => Cardinality(flying) < 2
  /\ commits' = 2 => step' # 0 /\ Cardinality(Good) < 3 /\ (step = 2 /\ step' = 3 => verdict' = "disabled")

\* The rules: a policy with conditions in conditions, one that compares texts and looks at
\* an object, one that looks for a field that may be absent; five that are refused.
Score == <<"skills", "score">>
Direction == <<"skills", "direction">>
Leaf(field, op, threshold) == [node |-> "leaf", field |-> field, operator |-> op, threshold |-> threshold]
AllOf(nodes) == [node |-> "all", of |-> nodes]
AnyOf(nodes) == [node |-> "any", of |-> nodes]
Word(n) == [kind |-> "text", value |-> n]
Document(rules) == [version |-> Kind("semver"), rules |-> rules]
DecisionRule(id, type, condition) == [id |-> id, type |-> type, condition |-> condition]
LowOrOther == AllOf(<<Leaf(Score, "lt", Numeral(3)), Leaf(<<"skill">>, "neq", Word(4))>>)
LowOrDeclining == AnyOf(<<LowOrOther, Leaf(Direction, "eq", Word(1))>>)
High == Leaf(Score, "gte", Numeral(3))
ObjectAndHigh == AllOf(<<Leaf(<<"skills">>, "neq", Word(1)), Leaf(Score, "gt", Numeral(3))>>)
Low == Leaf(Score, "lte", Numeral(2))
Neither == [node |-> "neither"]
MCConditions ==
  LET compound == {LowOrOther, LowOrDeclining, ObjectAndHigh, AllOf(<<High>>)}
  IN compound \cup UNION {Children(c) : c \in compound} \cup {High, Low, Leaf(<<"skill">>, "neq", Word(4)), Neither}
MCRuleDocuments ==
  {Document(<<DecisionRule(1, "reinforce", LowOrDeclining), DecisionRule(2, "advance", High)>>),
   Document(<<DecisionRule(1, "pause", ObjectAndHigh),
              DecisionRule(2, "intervene", Leaf(<<"skill">>, "neq", Word(4))),
              DecisionRule(3, "reinforce", Low)>>),
   Document(<<DecisionRule(1, "advance", High), DecisionRule(1, "reinforce", LowOrDeclining)>>),
   Document(<<DecisionRule(1, "reinforce", AllOf(<<High>>))>>),
   Document(<<DecisionRule(1, "retry", High)>>), Document(<<DecisionRule(1, "pause", Neither)>>),
   [Document(<<DecisionRule(1, "reinforce", High)>>) EXCEPT !.version = Kind("text")]}
MCRuleStates ==
  {Score :> Numeral(1) @@ Direction :> Word(1), Score :> Numeral(4) @@ Direction :> Word(1),
   Score :> Kind("blank") @@ Direction :> Word(2) @@ <<"skill">> :> Word(3),
   Score :> Numeral(5) @@ <<"skills", "note">> :> [kind |-> "short", value |-> 5] @@ <<"other">> :> Word(6),
   Score :> [kind |-> "digits", value |-> 2] @@ <<"skill">> :> Word(4)}

\* Of the second version the dominant skill is left out.
RuleBounds == \A e \in evaluations' : e.version = 2 => e.skill = 0

\* The sessions: two educators behind one address; a configuration that works and seven
\* that differ from it.  Either one write is sent, for writes share nothing but what is
\* configured, or passphrases fail.  Of two configurations one after the other one works.
MCAddressOf == [b \in {1, 2} |-> "nat"]
MCDeployments ==
  LET sound == [gate |-> TRUE, dash |-> "a", api |-> "a", keys |-> TRUE, secure |-> TRUE] IN
  {sound, [sound EXCEPT !.gate = FALSE], [sound EXCEPT !.dash = "short"], [sound EXCEPT !.api = "b"],
   [sound EXCEPT !.dash = "b"], [sound EXCEPT !.api = "short"], [sound EXCEPT !.keys = FALSE],
   [sound EXCEPT !.secure = FALSE]}
AccessBounds ==
  LET sound == [gate |-> TRUE, dash |-> "a", api |-> "a", keys |-> TRUE, secure |-> TRUE]
      failing == \E k \in DOMAIN attempts' : attempts'[k].answer \in {"wrong", "blocked"} IN
  /\ failing => calls' = <<>> /\ deployment'.conf.keys /\ visits'[1] # "out"
                /\ deployment'.conf.secure /\ deployment'.conf.dash = deployment'.conf.api
  /\ ~failing => Cardinality(logins') < 3 /\ Len(attempts') < 4 /\ clock' < 3
  /\ failing /\ Len(attempts') = 5 => attempts'[1].answer # "restart" /\ visits'[1] = "never"
  /\ deployment' # deployment => sound \in {conf, deployment'.conf}
  /\ visits'[2] \in {"never", "in"} /\ (failing => visits'[2] = "never")
  /\ \A i \in DOMAIN calls' : calls'[i].browser = 1
  /\ calls # <<>> => logins' = logins

\* The routing: two systems, of which one stands for staff, and no default for them.
MCRoutingConfigs ==
  {[kind |-> "config", map |-> "a" :> "learner" @@ "b" :> "staff", default |-> "learner"],
   [kind |-> "config", map |-> "a" :> "staff", default |-> "coach"]}
MCRoutingFiles == {NoConfig} \cup {c \in MCRoutingConfigs : c.default = "learner"}

\* The overview: clocks go forward on the second of three days.  One decision may
\* be made once the page is open; one thing at a time differs from the defaults, and then
\* the browser kept no toggle and the page was opened or refreshed yesterday or today, on
\* the short day or later.  The first decision is of the first learner, the second differs.
MCOvNeedles == {{2}}
OverviewBounds ==
  LET filtered == {x \in {"type", "learner", "range"} : ovFilter'[x] # DefaultFilter[x]}
      charted == {x \in {"type", "view", "range"} : ovLocal'[x] # DefaultLocal[x]}
  IN
  /\ \A k \in DOMAIN ovHistory' : (ovHistory'[k].score = 1) <=> (ovHistory'[k].type = "intervene")
  /\ ovPage # NoFetch => Len(ovHistory') < ovPage.states + 2
  /\ \A k \in DOMAIN ovHistory' : ovHistory'[1].learner = 1
  /\ Len(ovHistory') = 2 => \/ ovHistory'[1].type # ovHistory'[2].type
                            \/ ovHistory'[1].learner # ovHistory'[2].learner
  /\ filtered \cup charted # {} => ovToday' <= ovPage'.day + 1 /\ ovPage'.day > 1
  /\ ovSaved' => ovSync' /\ filtered \cup charted = {}
  /\ ovDeferred' \in {DefaultFilter, ovFilter'} \/ ovFilter' = DefaultFilter
  /\ ~ovSync' \/ charted \subseteq {"view"}
  /\ Cardinality(filtered) + Cardinality(charted) < 2
  /\ ovFilter'.type \in {AnyType, "advance"} /\ ovLocal'.type \in {AnyType, "intervene"}

\* The connectors: a template whose transform reads a forbidden field, with a second file for
\* its source system and a stub for the other; the next release has a transform
\* that cannot be evaluated.  Deliveries are made once the mappings stay.
ConnMapping == [envelope |-> TRUE, byId |-> TRUE, typed |-> TRUE, allowed |-> {"created", "graded"}, required |-> TRUE, sound |-> TRUE]
ConnTemplate(id, source, stub, m) == [id |-> id, source |-> source, stub |-> stub, defaults |-> {"created"}, mapping |-> m]
MCDirectories ==
  LET first == ConnTemplate("t1", "canvas", FALSE, ConnMapping)
      second == ConnTemplate("t2", "canvas", FALSE, [ConnMapping EXCEPT !.allowed = {"created"}])
      stub == ConnTemplate("t3", "iready", TRUE, ConnMapping)
  IN << <<first, second, stub>>,
        <<[first EXCEPT !.mapping.sound = FALSE, !.mapping.allowed = {}], [stub EXCEPT !.stub = FALSE]>> >>
MCPutBodies ==
  {[ConnMapping EXCEPT !.allowed = {}], [ConnMapping EXCEPT !.byId = FALSE, !.typed = FALSE, !.allowed = NoList],
   [ConnMapping EXCEPT !.envelope = FALSE, !.byId = FALSE, !.typed = FALSE, !.allowed = NoList], [ConnMapping EXCEPT !.allowed = {"graded"}, !.required = FALSE]}
MCDeliveries ==
  LET e == [object |-> 1, type |-> "created", learner |-> TRUE, field |-> "source"] IN
  {e, [e EXCEPT !.type = "graded"], [e EXCEPT !.field = "forbidden"], [e EXCEPT !.type = NoType, !.field = "absent"],
   [e EXCEPT !.type = "graded", !.field = "absent"], [e EXCEPT !.learner = FALSE]}
ConnBounds ==
  LET written == Len(connWrites')  plain(k) == connWrites'[k].mapping.required /\ connWrites'[k].template # "t2" IN
  /\ connEvents' # <<>> =>
       /\ written < 3 /\ connPending' = [a \in ConnAdmins |-> NotActivating]
       /\ \A k \in DOMAIN connEvents' : k < Len(connEvents') => connEvents'[k].answer = "accepted"
       /\ Len(connEvents') = 2 \/ written = 2 => plain(1) /\ connEvents'[1].event.learner /\ Last(connEvents').event.learner
       /\ written = 2 => connWrites'[2].kind = "put" /\ plain(2)
  /\ connEvents # <<>> => connRelease' = connRelease
  /\ ~connTable => written < 2
  /\ written > 1 => connWrites'[1].template # "t2" /\ connWrites'[1].mapping.required
  /\ written = 3 =>
       /\ connWrites'[2].template # "t2" /\ connWrites'[3].kind = "activation"
       /\ connRelease' = connRelease /\ \A a \in ConnAdmins : connPending'[a] \in {connPending[a], NotActivating}
  /\ \A k \in DOMAIN connWrites' : connWrites'[k].source = "iready" => k = written /\ (k = 1 \/ connEvents' # <<>>)
  /\ connPending'[2] # NotActivating => connPending[1] # NotActivating
  /\ \A a \in ConnAdmins : connPending'[a] # NotActivating => connPending'[a].source = "canvas" \/ connWrites' = <<>>

deskAll == <<feedbackVars, deskVars>>

\* One of the initial states of each part, in which the others move.
DeskAtFirst == DeskInit /\ store = "sqlite"
StateAtFirst == StateInit /\ config.default = "General"
CheckAtFirst == CheckInit /\ mappings.version = 2
RuleAtFirst == RuleInit /\ Len(policy.rules) = 2
AccessAtFirst == AccessInit /\ conf.gate /\ conf.keys /\ conf.secure /\ conf.dash = "a" /\ conf.api = "a"
ConnAtFirst == ConnInit /\ ~connTable /\ connRelease = 1
LogAtFirst == LogInit /\ done = {}
RouteAtFirst == RouteInit /\ routeFile = NoConfig /\ routeWrites = <<Gone>>

VARIABLE moving  \* the part that moves in this behaviour

\* The others stay as they are at first.
Init ==
  /\ UploadInit /\ RequestInit /\ OverviewInit
  /\ \/ moving = "Desk" /\ DeskInit /\ StateAtFirst /\ CheckAtFirst /\ RuleAtFirst /\ AccessAtFirst
          /\ RouteAtFirst /\ ConnAtFirst /\ LogAtFirst
     \/ moving = "State" /\ DeskAtFirst /\ StateInit /\ CheckAtFirst /\ RuleAtFirst /\ AccessAtFirst
          /\ RouteAtFirst /\ ConnAtFirst /\ LogAtFirst
     \/ moving = "Check" /\ DeskAtFirst /\ StateAtFirst /\ CheckInit /\ RuleAtFirst /\ AccessAtFirst
          /\ RouteAtFirst /\ ConnAtFirst /\ LogAtFirst
     \/ moving = "Rule" /\ DeskAtFirst /\ StateAtFirst /\ CheckAtFirst /\ RuleInit /\ AccessAtFirst
          /\ RouteAtFirst /\ ConnAtFirst /\ LogAtFirst
     \/ moving = "Access" /\ DeskAtFirst /\ StateAtFirst /\ CheckAtFirst /\ RuleAtFirst /\ AccessInit
          /\ RouteAtFirst /\ ConnAtFirst /\ LogAtFirst
     \/ moving = "Route" /\ DeskAtFirst /\ StateAtFirst /\ CheckAtFirst /\ RuleAtFirst /\ AccessAtFirst
          /\ RouteInit /\ ConnAtFirst /\ LogAtFirst
     \/ moving = "Conn" /\ DeskAtFirst /\ StateAtFirst /\ CheckAtFirst /\ RuleAtFirst /\ AccessAtFirst
          /\ RouteAtFirst /\ ConnInit /\ LogAtFirst
     \/ moving = "Log" /\ DeskAtFirst /\ StateAtFirst /\ CheckAtFirst /\ RuleAtFirst /\ AccessAtFirst /\ RouteAtFirst /\ ConnAtFirst /\ LogInit
     \/ moving \in {"Upload", "Request", "Overview"} /\ DeskAtFirst /\ StateAtFirst /\ CheckAtFirst /\ RuleAtFirst
          /\ AccessAtFirst /\ RouteAtFirst /\ ConnAtFirst /\ LogAtFirst
Next ==
  /\ UNCHANGED moving
  /\ \/ /\ moving = "Desk" /\ DeskNext /\ DeskBounds
        /\ UNCHANGED <<stateVars, checkVars, uploadVars, ruleVars, accessVars, requestVars, routeVars, ovVars, connVars, logVars>>
     \/ /\ moving = "State" /\ StateNext /\ StateBounds
        /\ UNCHANGED <<deskAll, checkVars, uploadVars, ruleVars, accessVars, requestVars, routeVars, ovVars, connVars, logVars>>
     \/ /\ moving = "Check" /\ CheckNext /\ CheckBounds
        /\ UNCHANGED <<deskAll, stateVars, uploadVars, ruleVars, accessVars, requestVars, routeVars, ovVars, connVars, logVars>>
     \/ /\ moving = "Upload" /\ UploadNext /\ UploadBounds
        /\ UNCHANGED <<deskAll, stateVars, checkVars, ruleVars, accessVars, requestVars, routeVars, ovVars, connVars, logVars>>
     \/ /\ moving = "Rule" /\ RuleNext /\ RuleBounds
        /\ UNCHANGED <<deskAll, stateVars, checkVars, uploadVars, accessVars, requestVars, routeVars, ovVars, connVars, logVars>>
     \/ /\ moving = "Access" /\ AccessNext /\ AccessBounds
        /\ UNCHANGED <<deskAll, stateVars, checkVars, uploadVars, ruleVars, requestVars, routeVars, ovVars, connVars, logVars>>
     \/ /\ moving = "Request" /\ RequestNext
        /\ UNCHANGED <<deskAll, stateVars, checkVars, uploadVars, ruleVars, accessVars, routeVars, ovVars, connVars, logVars>>
     \/ /\ moving = "Route" /\ RouteNext
        /\ UNCHANGED <<deskAll, stateVars, checkVars, uploadVars, ruleVars, accessVars, requestVars, ovVars, connVars, logVars>>
     \/ /\ moving = "Overview" /\ OverviewNext /\ OverviewBounds
        /\ UNCHANGED <<deskAll, stateVars, checkVars, uploadVars, ruleVars, accessVars, requestVars, routeVars, connVars, logVars>>
     \/ /\ moving = "Conn" /\ ConnNext /\ ConnBounds
        /\ UNCHANGED <<deskAll, stateVars, checkVars, uploadVars, ruleVars, accessVars, requestVars, routeVars, ovVars, logVars>>
     \/ /\ moving = "Log" /\ LogNext
        /\ UNCHANGED <<deskAll, stateVars, checkVars, uploadVars, ruleVars, accessVars, requestVars, routeVars, ovVars, connVars>>
\* What tells two states apart: the variables of the part that moves.
View ==
  <<moving, CASE moving = "Desk" -> deskAll [] moving = "State" -> stateVars [] moving = "Check" -> checkVars
              [] moving = "Upload" -> uploadVars [] moving = "Rule" -> ruleVars [] moving = "Access" -> accessVars
              [] moving = "Request" -> requestVars [] moving = "Route" -> routeVars [] moving = "Overview" -> ovVars
              [] moving = "Conn" -> connVars [] moving = "Log" -> logVars>>
Spec == Init /\ [][Next]_<<moving, deskAll, stateVars, checkVars, uploadVars, ruleVars, accessVars, requestVars, routeVars, ovVars, connVars, logVars>>
===============================================================================
