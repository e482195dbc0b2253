------------------------------ MODULE SignalUpload ------------------------------
(***************************************************************************)
(* The upload wizard of the dashboard: a file is read, its columns are     *)
(* mapped to the fields of a signal, the rows are checked in the page, the *)
(* first good one is sent to the preflight, and each good row is posted by *)
(* one of a few workers through the dashboard's proxy, which gives up on   *)
(* an answer while the control layer still works on the request.           *)
(***************************************************************************)
EXTENDS Integers, Sequences, FiniteSets, SequencesExt

CONSTANTS
  Files,        \* [header |-> the columns of the first row, rows |-> each row's cell by column]
  HeaderField,  \* the field that the name of a column is like, or "none"
  ColumnKind,   \* of each column name: "plain", "pii" or "semantic"
  SourceDefault,\* what may be typed as the default source system
  Workers,
  MaxCommits

\* A table has a sequence of columns and of rows, and a cell of a row is there.
ASSUME UploadAssumption ==
  /\ Workers \in Nat /\ MaxCommits \in Nat
  /\ \A f \in Files :
       /\ f.header \in Seq(Range(f.header)) /\ f.rows \in Seq(Range(f.rows))
       /\ \A i \in DOMAIN f.rows : \A c \in DOMAIN f.rows[i] : f.rows[i][c].class # "absent"

\* A cell is [class, value, hit]: an "empty" text, "space", an "object", a text that is "ok"
\* for its field, "long" or otherwise "bad", and the forbidden key that an object holds.
Cell(class, value, hit) == [class |-> class, value |-> value, hit |-> hit]
Absent == Cell("absent", 0, "plain")
V1 == Cell("ok", 1, "plain")

FieldOrder == <<"signal_id", "source_system", "learner_reference", "timestamp", "schema_version">>
EnvelopeFields == Range(FieldOrder)
NoFile == [header |-> <<>>, rows |-> <<>>]
NoMap == [of |-> <<>>, payload |-> {}]

VARIABLES
  step,      \* 0 Upload, 1 Map, 2 Validate, 3 Review, 4 Done
  file, mapping, defaults,
  results,   \* of each row its envelope and whether the page finds it good
  check,     \* of the step Validate: its phase and the answer of the preflight
  verdict,   \* the answer that Review shows
  posts,     \* of the last commit: each request, and what its row is reported as
  flying,    \* requests that the control layer has not dealt with
  stored,    \* signals it has accepted
  commits    \* how many commits there were

uploadVars == <<step, file, mapping, defaults, results, check, verdict, posts, flying, stored, commits>>
mapVars == <<file, mapping, defaults>>
sendVars == <<posts, flying, stored, commits>>

--------------------------------------------------------------------------------
\* autoMap: each field takes the first column that is named like it; no column is like two.
AutoMap(header) ==
  LET Like(f) == {i \in DOMAIN header : HeaderField[header[i]] = f}
      of == [f \in {g \in EnvelopeFields : Like(g) # {}} |-> header[CHOOSE i \in Like(f) : \A j \in Like(f) : i <= j]]
  IN [of |-> of, payload |-> Range(header) \ Range(of)]

\* applyMapping; a default takes the place of an empty or absent text.
FieldCell(row, f) ==
  LET cell == IF f \in DOMAIN mapping.of /\ mapping.of[f] \in DOMAIN row THEN row[mapping.of[f]] ELSE Absent
  IN IF cell.class \in {"empty", "absent"} /\ f \in DOMAIN defaults THEN defaults[f] ELSE cell

Mapped(row) ==
  [of |-> [f \in EnvelopeFields |-> FieldCell(row, f)],
   payload |-> [c \in mapping.payload \cap DOMAIN row |-> row[c]]]

Unassigned == Range(file.header) \ (Range(mapping.of) \cup mapping.payload)
MappingComplete ==
  /\ Unassigned = {}
  /\ \A f \in EnvelopeFields :
       f \in DOMAIN mapping.of \/ (f \in DOMAIN defaults /\ defaults[f] # Absent)

\* validateEnvelope of the page: every field a text, three of them of their form.
PageFinds(e) ==
  \A f \in EnvelopeFields :
    IF f \in {"signal_id", "timestamp", "schema_version"} THEN e.of[f].class = "ok"
    ELSE e.of[f].class \in {"ok", "long", "bad"}

PayloadHits(e) == {ColumnKind[c] : c \in DOMAIN e.payload} \cup {e.payload[c].hit : c \in DOMAIN e.payload}

\* What the control layer finds wrong: the schema of the envelope, then the keys.
BadText(e) ==
  \/ \E f \in {"signal_id", "timestamp", "schema_version"} : e.of[f].class # "ok"
  \/ \E f \in {"source_system", "learner_reference"} : e.of[f].class \notin {"ok", "bad"}
Refusal(e) ==
  CASE BadText(e) -> "envelope"
    [] ~BadText(e) /\ PayloadHits(e) \cap {"pii", "semantic"} # {} -> "key"
    [] OTHER -> "none"

VerdictOn(e) ==
  CASE "pii" \in PayloadHits(e) -> "pii_blocking"
    [] "semantic" \in PayloadHits(e) /\ "pii" \notin PayloadHits(e) -> "semantic_blocking"
    [] OTHER -> "clean"

Good == {i \in DOMAIN results : results[i].valid}
FirstGood == CHOOSE i \in Good : \A j \in Good : i <= j
GoodAt(k) == CHOOSE i \in Good : Cardinality({j \in Good : j < i}) = k - 1

--------------------------------------------------------------------------------
UploadInit ==
  /\ step = 0 /\ file = NoFile /\ mapping = NoMap
  /\ defaults = [source_system |-> Absent, schema_version |-> V1]
  /\ results = <<>> /\ check = [phase |-> "none", answer |-> "none"] /\ verdict = "none"
  /\ posts = <<>> /\ flying = {} /\ stored = {} /\ commits = 0

\* handleParsed; parseFile refuses a file without rows or columns.
ChooseFile(f) ==
  /\ step = 0 /\ file = NoFile /\ f.rows # <<>> /\ f.header # <<>>
  /\ file' = f /\ mapping' = AutoMap(f.header)
  /\ step' = 1 /\ results' = <<>> /\ verdict' = "none"
  /\ UNCHANGED <<defaults, check, sendVars>>

Continue == step = 0 /\ file # NoFile /\ step' = 1 /\ UNCHANGED <<mapVars, results, check, verdict, sendVars>>

ClearUpload ==
  /\ step = 0 /\ file # NoFile
  /\ file' = NoFile /\ mapping' = NoMap
  /\ UNCHANGED <<step, defaults, results, check, verdict, sendVars>>

Without(m, c) == [of |-> [f \in {g \in DOMAIN m.of : m.of[g] # c} |-> m.of[f]], payload |-> m.payload \ {c}]

\* assignColumn: the column that had the field before is left without a place.
AssignColumn(c, target) ==
  /\ step = 1
  /\ LET m == Without(mapping, c) IN
     mapping' = CASE target = "payload" -> [m EXCEPT !.payload = @ \cup {c}]
                  [] target = "none" -> m
                  [] OTHER -> [m EXCEPT !.of = [f \in DOMAIN @ \cup {target} |-> IF f = target THEN c ELSE @[f]]]
  /\ UNCHANGED <<step, file, defaults, results, check, verdict, sendVars>>

SetDefault(cell) ==
  /\ step = 1 /\ defaults.source_system # cell
  /\ defaults' = [defaults EXCEPT !.source_system = cell]
  /\ UNCHANGED <<step, file, mapping, results, check, verdict, sendVars>>

\* goBack, which Validate offers once its rows are checked and Review until it commits.
\* Returning to Validate checks the rows again.
Back ==
  /\ step = 1 \/ (step = 2 /\ check.phase # "rows") \/ (step = 3 /\ posts = <<>>)
  /\ step' = step - 1
  /\ check' = IF step = 3 THEN [phase |-> "rows", answer |-> "none"] ELSE [phase |-> "none", answer |-> "none"]
  /\ UNCHANGED <<mapVars, results, verdict, sendVars>>

MapNext ==
  /\ step = 1 /\ MappingComplete
  /\ results' = <<>> /\ verdict' = "none" /\ step' = 2
  /\ check' = [phase |-> "rows", answer |-> "none"]
  /\ UNCHANGED <<mapVars, sendVars>>

\* validateAll: every row, and then the preflight of the first good one.
CheckRows ==
  /\ step = 2 /\ check.phase = "rows"
  /\ results' = [i \in DOMAIN file.rows |-> LET e == Mapped(file.rows[i]) IN [envelope |-> e, valid |-> PageFinds(e)]]
  /\ check' = IF Good' = {} THEN [phase |-> "done", answer |-> "disabled"] ELSE [check EXCEPT !.phase = "asking"]
  /\ UNCHANGED <<step, mapVars, verdict, sendVars>>

\* The answer on the sample, none without an admin key, or a failure.
PreflightAnswers ==
  /\ step = 2 /\ check.phase = "asking"
  /\ \E answer \in {VerdictOn(results[FirstGood].envelope), "disabled", "failed"} :
       check' = [phase |-> "done", answer |-> answer]
  /\ UNCHANGED <<step, mapVars, results, verdict, sendVars>>

ValidateNext ==
  /\ step = 2 /\ check.phase = "done" /\ check.answer # "pii_blocking" /\ Good # {}
  /\ step' = 3 /\ verdict' = check.answer
  /\ UNCHANGED <<mapVars, results, check, sendVars>>

--------------------------------------------------------------------------------
InFlight == {i \in DOMAIN posts : posts[i].sent /\ posts[i].outcome = "none"}

\* handleCommit: the good rows wait for a worker.
Commit ==
  /\ step = 3 /\ posts = <<>> /\ commits < MaxCommits
  /\ commits' = commits + 1
  /\ posts' = [k \in 1..Cardinality(Good) |->
                 [row |-> GoodAt(k), envelope |-> results[GoodAt(k)].envelope, sent |-> FALSE, status |-> "none", outcome |-> "none",
                  lost |-> FALSE]]
  /\ UNCHANGED <<step, mapVars, results, check, verdict, flying, stored>>

\* A free worker takes the next row.
SendRow ==
  /\ step = 3 /\ Cardinality(InFlight) < Workers
  /\ \E k \in DOMAIN posts :
       /\ ~posts[k].sent /\ \A j \in 1..k - 1 : posts[j].sent
       /\ posts' = [posts EXCEPT ![k].sent = TRUE]
       /\ flying' = flying \cup {[commit |-> commits, post |-> k, envelope |-> posts[k].envelope]}
  /\ UNCHANGED <<step, mapVars, results, check, verdict, stored, commits>>

IdOf(e) == e.of.signal_id.value

StatusOf(e) ==
  CASE Refusal(e) # "none" -> "rejected"
    [] Refusal(e) = "none" /\ \E s \in stored : IdOf(s.envelope) = IdOf(e) -> "duplicate"
    [] OTHER -> "accepted"

\* The control layer deals with a request, whether its answer is waited for or not.
Deliver(r) ==
  /\ flying' = flying \ {r}
  /\ stored' = IF StatusOf(r.envelope) = "accepted" THEN stored \cup {r} ELSE stored
  /\ posts' = IF r.commit = commits /\ r.post \in DOMAIN posts
              THEN [posts EXCEPT ![r.post].status = StatusOf(r.envelope)] ELSE posts
  /\ UNCHANGED <<step, mapVars, results, check, verdict, commits>>

\* Mutant: the worker reports the row after the ones that are reported.
RowAnsweredInOrder(k) ==
  /\ step = 3 /\ posts[k].status # "none" /\ posts[k].outcome = "none"
  /\ LET at == CHOOSE j \in DOMAIN posts : posts[j].outcome = "none" /\ \A l \in 1..j - 1 : posts[l].outcome # "none"
     IN posts' = [posts EXCEPT ![at].outcome = posts[k].status]
  /\ UNCHANGED <<step, mapVars, results, check, verdict, flying, stored, commits>>

RowAnswered(k) ==
  /\ step = 3 /\ posts[k].status # "none" /\ posts[k].outcome = "none"
  /\ posts' = [posts EXCEPT ![k].outcome = posts[k].status]
  /\ UNCHANGED <<step, mapVars, results, check, verdict, flying, stored, commits>>

\* The proxy times out or the connection breaks: parseIngestError.
RowTimesOut(k) ==
  /\ step = 3 /\ k \in InFlight
  /\ posts' = [posts EXCEPT ![k].outcome = "rejected", ![k].lost = TRUE]
  /\ UNCHANGED <<step, mapVars, results, check, verdict, flying, stored, commits>>

Committed ==
  /\ step = 3 /\ posts # <<>> /\ \A k \in DOMAIN posts : posts[k].outcome # "none"
  /\ step' = 4
  /\ UNCHANGED <<mapVars, results, check, verdict, sendVars>>

\* The defaults stay as they were typed.
Restart ==
  /\ step = 4
  /\ step' = 0 /\ file' = NoFile /\ mapping' = NoMap /\ results' = <<>> /\ verdict' = "none" /\ posts' = <<>>
  /\ UNCHANGED <<defaults, check, flying, stored, commits>>

UploadNext ==
  \/ \E f \in Files : ChooseFile(f)
  \/ Continue \/ ClearUpload \/ Back \/ MapNext \/ CheckRows \/ PreflightAnswers \/ ValidateNext
  \/ \E c \in Range(file.header), target \in EnvelopeFields \cup {"payload", "none"} : AssignColumn(c, target)
  \/ \E cell \in SourceDefault : SetDefault(cell)
  \/ Commit \/ SendRow \/ Committed \/ Restart
  \/ \E r \in flying : Deliver(r)
  \/ \E k \in DOMAIN posts : RowAnswered(k) \/ RowTimesOut(k)

UploadSpec == UploadInit /\ [][UploadNext]_uploadVars

--------------------------------------------------------------------------------
\* The mapping assigns columns of the header only, and at most Workers posts are under way.
UploadTypeOK ==
  /\ step \in 0..4 /\ (file = NoFile \/ file \in Files)
  /\ DOMAIN mapping.of \subseteq EnvelopeFields /\ Range(mapping.of) \cup mapping.payload \subseteq Range(file.header)
  /\ (step >= 2 => Len(results) \in {0, Len(file.rows)}) /\ commits \in 0..MaxCommits
  /\ check.phase \in {"none", "rows", "asking", "done"}
  /\ \A k \in DOMAIN posts : posts[k].outcome \in {"none", "accepted", "rejected", "duplicate"}
  /\ Cardinality(InFlight) <= Workers

\* What Review shows and Commit sends was checked under the mapping and the defaults
\* as they are then, also after going back and changing them.
ReviewIsOfMapping ==
  step = 3 => /\ Len(results) = Len(file.rows)
              /\ \A i \in DOMAIN results : results[i].envelope = Mapped(file.rows[i])

\* Past the step Map each column of the header is one field or part of the payload,
\* not both, and no field has two.
EveryColumnOnce ==
  step \in {2, 3} =>
    \A c \in Range(file.header) :
      Cardinality({f \in DOMAIN mapping.of : mapping.of[f] = c}) + (IF c \in mapping.payload THEN 1 ELSE 0) = 1

\* A cell of a row that is posted is in its envelope, unless the first row has no
\* such column; a default replaces only an empty text.
CellsArrive ==
  \A k \in DOMAIN posts : step = 3 =>
    LET row == file.rows[posts[k].row]  e == posts[k].envelope IN
    \A c \in DOMAIN row \cap Range(file.header) :
      \/ c \in DOMAIN e.payload /\ e.payload[c] = row[c]
      \/ \E f \in DOMAIN mapping.of : mapping.of[f] = c /\ (e.of[f] = row[c] \/ row[c].class = "empty")

\* What a row is reported as agrees with what the control layer did with it, unless
\* no answer came: then the report says rejected and the signal may be there, at
\* once or later.
ReportAgrees ==
  \A k \in DOMAIN posts :
    LET mine == {s \in stored : s.commit = commits /\ s.post = k} IN
    /\ posts[k].outcome = "accepted" => mine # {}
    /\ posts[k].outcome = "duplicate" => mine = {} /\ \E s \in stored : IdOf(s.envelope) = IdOf(posts[k].envelope)
    /\ posts[k].outcome = "rejected" /\ ~posts[k].lost => mine = {}

\* A row that the page found good is refused for its envelope only because of the
\* length of a text, which the page does not look at.
DriftIsLength ==
  \A k \in DOMAIN posts : Refusal(posts[k].envelope) = "envelope" =>
    \E f \in {"source_system", "learner_reference"} : posts[k].envelope.of[f].class = "long"

\* Personal data is sent off only by rows that the preflight has not seen: those after
\* the first good one, or any when it is disabled or failed.
PersonalDataUnseen ==
  \A k \in DOMAIN posts : posts[k].sent /\ "pii" \in PayloadHits(posts[k].envelope) =>
    k > 1 \/ verdict \in {"disabled", "failed"}

\* Nothing is accepted twice, whether rows repeat an id, a file is uploaded again or
\* a request outlives the page's patience.
StoredOnce == \A s, t \in stored : IdOf(s.envelope) = IdOf(t.envelope) => s = t

\* From the file to the report every row is the one that was reviewed, and the report says what
\* became of it: nothing is stored twice, and only an answer that was lost is misreported.
UploadKeepsRows ==
  /\ UploadTypeOK /\ ReviewIsOfMapping /\ EveryColumnOnce /\ CellsArrive /\ ReportAgrees
  /\ DriftIsLength /\ PersonalDataUnseen /\ StoredOnce
===============================================================================
