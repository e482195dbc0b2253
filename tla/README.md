# The control layer in TLA+

TLA+ modules of the 8P3P control layer: the service that ingests learning
signals, folds them into versioned learner states and decides what to do about
each state. The models are translated from `src/src/` (TypeScript); `PROJECT.json`
maps every definition to the lines it stands for, lists the runs with the mutants
that show each property can fail, and names the hazards the properties are for.

Paths below are relative to `src/src/` unless they say otherwise.

## 1. The system

### Two deployments of one pipeline

A signal enters by `POST /v1/signals` (or by a webhook, or row by row from the
dashboard's upload) and goes through one pipeline:

    envelope and forbidden-key checks -> tenant normalisation -> idempotency
      -> signal log -> STATE engine -> decision engine -> ingestion log -> answer

The repository has it twice. The **server** (`server.ts`, `ingestion/handler-core.ts`)
runs it in one Node process over SQLite, where every store is its own database and
all store calls are synchronous. The **Lambda** deployment (`lambda/*.ts`,
`ingestion/handler-core-async.ts`) runs it in any number of instances over
DynamoDB, where every store call is an await. In the first, requests interleave at
two awaits only and the danger is a crash between commits. In the second, they
interleave at every port call, reads may lag, a put may succeed and still throw,
and an instance may die anywhere.

### Components

| Component | State it keeps | Operations | Talks to | What must hold of it |
|---|---|---|---|---|
| Ingestion, Lambda (`ingestion/handler-core-async.ts`) | none | one handler | all stores | accepted once; one decision per version; every submission answered |
| Ingestion, server (`ingestion/handler-core.ts`) | none | one handler | all stores | state = replay of the log, across crashes |
| Idempotency (`ingestion/idempotency.ts`, `dynamodb-idempotency-repository.ts`) | the signal ids seen | `checkAndStore` | the pipelines | a duplicate has an original |
| Signal log (`signalLog/`) | accepted signals | append, get by ids, paged query | the pipelines, the STATE engine | append-only, unique ids |
| STATE engine (`state/apply-signals-async.ts`, `state/engine.ts`, repositories) | state versions per learner, applied signals | apply signals, get state, range query | signal log, decision engine | immutable, gapless, linear history; a signal merged once |
| Decision engine and store (`decision/engine*.ts`, `decision/store.ts`, `dynamodb-repository.ts`) | decisions | evaluate, save, paged query | STATE engine, policy loader, explanation service | the trace names the state decided on |
| Policy loader (`decision/policy-loader.ts`) | cache per organisation and user type, routing cache | load, background refresh | PoliciesTable | the policy in force comes to be served |
| Policy rules (`decision/policy-loader.ts`, `condition-*.ts`) | none | validate, evaluate, collect the receipt | decision engine, the trace page | the receipt is enough to replay the decision |
| Routing configuration (`decision/policy-loader.ts`) | cache per process | load, background refresh | PoliciesTable | a signal's user type is that of a configuration that was in force |
| Policy inspection (`policies/`) | none | list, detail | PoliciesTable, bundled files | what is shown is what decides |
| Policy administration (`admin/`) | PoliciesTable | put, patch, delete, list | the loader, through the table | versions increase, locking works |
| Field mappings (`config/field-mappings-dynamo.ts`, `routes/admin-field-mappings.ts`, `connectors/`) | FieldMappingsTable, cache per process | get, put, activate, list | normaliser, webhook adapter, preflight | what is used is at most a time to live old |
| Webhook adapter (`ingestion/webhook-*.ts`) | none | extract an envelope | mappings, ingestion | a redelivery is a duplicate |
| Normaliser and preflight (`config/tenant-field-mappings.ts`, `transform-expression.ts`, `ingestion/preflight-handler-core.ts`, `forbidden-keys.ts`) | none | pure | mappings | preflight agrees with ingestion |
| Feedback (`feedback/`) | views and feedback of educators | record, query | decisions | one view per session and window |
| Reads (`state/trajectory-handler-core.ts`, `learners/`, query handlers, `lambda/query.ts`, `inspect.ts`) | none | paged queries, projections | stores | a listing is complete and repeats nothing |
| Ingestion log | outcomes | append, paged query | pipelines | a listing followed to its end is complete |
| Explanation service (`src/services/explanation`) | none | generate a text | decision engine | it repeats nothing of the learner |
| Authentication (`auth/`, `dashboard/lib/session*`, `login-rate-limiter.ts`, middleware, proxy) | cookies, failures per address | login, logout, gate, check | everything the dashboard writes | a write is of a session that was open |
| Upload wizard (`src/dashboard/lib/upload`) | the wizard, in the page | map, validate, preflight, commit | preflight, ingestion | the report is what happened |
| Review desk and review log (`src/dashboard`, attention) | localStorage, the page | review, undo, post | feedback | what is hidden was answered |
| Overview and learner screens (`src/dashboard`) | filters, fetched data | filter, refetch | reads | nothing is hidden silently; screens agree |
| Infrastructure, scripts, layout of the pages | - | - | - | - |

### What is hard about it

* `applySignalsAsync` is optimistic: it reads, computes, reads again for the number
  to save, and saves conditionally, with one retry.
* The pipeline writes four tables one after another with no transaction over them,
  and treats everything after the append as best effort: failures are logged and the
  client is told `accepted`.
* The idempotency record is written first, so whatever fails later cannot be
  repaired by the client submitting again.
* Reads of DynamoDB are not consistent reads, the one right after the append included.
* Policies and mappings are cached per process with a time to live, filled from
  reads in the background or concurrent with writes; only the writer's own process is
  ever invalidated.
* Admin writes that look first and write later (`putPolicy`, activation).
* Readers page through tables that are being written, by cursors whose order is not
  always the order shown.
* The state an update computes is full of numbers derived from other numbers, some of
  an earlier version, some of a first computation that a conflict discarded.
* The dashboard is optimistic: it shows a review before it is stored, can take it back
  only locally, and does so by itself when the post fails.

## 2. The modules

| Module | Models | Extends or composes |
|---|---|---|
| `LearnerHistory` | what the STATE engine promises: an append-only history per learner, a signal produces one version at most; with `Linear`, each version is built on its predecessor | abstract |
| `ApplySignals` | `applySignalsAsync` on DynamoDB, an action per await | implements `LearnerHistory`, not linear |
| `SignalIngestion` | `handleSignalIngestionAsync`, a submission per call | extends `ApplySignals`: takes its actions, and implements its specification |
| `SqliteIngestion` | `handleSignalIngestionCore` on one thread, with crashes | implements `LearnerHistory`, linear |
| `PolicyAdmin` | the admin API over PoliciesTable | - |
| `PolicyLoader` | the policy cache of the Lambda instances | extends `PolicyAdmin`, whose operators write the table it reads |
| `FieldMappings` | put and activation of a mapping, its caches, and the deliveries and preflights that resolve it, up to idempotency | - |
| `IngestedTables` | the tables the read API pages through, filled by requests that overlap | - |
| `Listings` | a client that follows one paged listing, over SQLite and over DynamoDB | extends `IngestedTables` |
| `LearnerSummary` | the summary of a learner, in one stretch on the server, in six queries on Lambda | extends `IngestedTables` |
| `LearnerState` | what the STATE engine makes of one learner's signals: merge, evidence, promotion, aggregation, differences | - |
| `LearnerReport` | trajectory, summary fields, learning gaps, gifted interest | extends `LearnerState` |
| `LearnerViews` | what three screens of the dashboard say of the same state | extends `LearnerReport` |
| `DotPaths` | objects as functions from paths to leaves | - |
| `SignalChecks` | preflight, checks, mapping and transforms of a payload; validation and storage of mappings | extends `DotPaths` |
| `DecisionRules` | validation and evaluation of policies, the receipt, the rationale, the trace page, the explanation | extends `DotPaths` |
| `Routing` | the routing configuration in the table, in the cache and bundled | - |
| `Connectors` | templates, activation, put, the list, and the deliveries of a webhook | - |
| `Feedback` | feedback and views, over both repositories | - |
| `ReviewDesk` | the educator's reviews, undos and late answers | extends `Feedback`, whose requests it sends |
| `ReviewLog` | the log in localStorage and the pages that subscribe to it | - |
| `SignalUpload` | the upload wizard from the file to the report | - |
| `Sessions` | login, limiter, cookies, gate, proxy and the API's check | - |
| `ReadRequests` | the parameters of the read API, checked by the server and by the Lambda | - |
| `Overview` | filters and figures of the overview page | - |
| `MC*` | small instances for TLC; `MCReading` holds the two readers and the mappings, `MCParts` eleven parts that share no state, `MCSignalChecks` the sample of the preflight's specification | extend the modules they instantiate |
| `SqliteIngestionProofs`, `FieldMappingsProofs` | theorems and proofs | extend the module of their name |
| `SignalIngestionProofs` | theorems and proofs, of the STATE engine and of the pipeline that drives it | extends `SignalIngestion`, which extends `ApplySignals` |
| `PolicyProofs` | theorems and proofs of the administration, of the loader and of what a policy decides | extends `PolicyLoader`, which extends `PolicyAdmin`, and `DecisionRules` |
| `AccessProofs` | theorems and proofs of what operators set and what a session gives access to | extends `Routing`, `Connectors` and `Sessions` |
| `DashboardProofs` | theorems and proofs of the review desk, the review log, the overview and the upload | extends `ReviewDesk`, `ReviewLog`, `Overview` and `SignalUpload` |
| `LearnerProofs` | theorems and proofs of the STATE engine's computation, of the reports on it, and of the checks of a payload before it | extends `LearnerViews` and `SignalChecks` |
| `ReadingProofs` | theorems and proofs of the paged listings, of the summary of a learner and of the parameters of the read API | extends `Listings` and `LearnerSummary`, which both extend `IngestedTables`, and `ReadRequests` |

### How the state and the actions correspond to the code

**States are sequences of signals.** `computeNewState` and `computeStateDeltas` are
functions of the base state and the signals, so a stored state is represented by the
sequence of signals merged into it. This is all that `BuiltOnPredecessor`,
`MergedAtMostOnce` or `ReplayReconstructsState` need to know of it, and it tells
apart states that were computed from different bases, which the version number
does not.

**`ApplySignals`.** `signalLog`, `stateTable` and `appliedTable` are the tables;
`pc[c]` is the await at which the invocation `c` is suspended, `prior`,
`stateToSave`, `forSave` and `attempt` are its locals. A step runs the code from one
await to the next: `CheckApplied` (`isSignalApplied`), `GetSignals`
(`getSignalsByIds`), `GetState` (line 113, computes), `GetStateForSave` (line 148,
numbers), `Save` / `SaveConflicts` (the transaction, and the end of the loop),
`Refresh` (line 185, computes again). `Readable` is what an eventually consistent
query may return: any version up to the latest, or none. `Faults` turns on failing
ports: any await may throw, the transaction may commit and throw, and it may be
cancelled for contention, which the repository reports as a version conflict.

**`SignalIngestion`.** It adds its steps to those of `ApplySignals`, of which `AppendSignalOf` and the others of
a call are taken one by one; its own specification is `IngestSpec`. `stage[c]` is the await of the pipeline, `outcome[c]` what will be
answered. `ApplyFailed` is the code that logs and goes on; `Evaluate` is
`evaluateStateAsync`, which reads the state once more and refuses any version other
than the one its request names. `StoreThrows`, `StoreRepeated`, `AppendThrows` and
`Crash` are the faults outside every `try`. A client that submits again is another
call with the same signal. Which rule of the policy matches is an arbitrary choice.

**`SqliteIngestion`.** `running` is the request that holds the thread. A request keeps it from
one await to the next, so only `normalize` and `generate` (the explanation generator)
let others in; each commit is a step of its own so that `CrashAndRestart` can fall
between two. A restart runs no recovery: the code has none. `ApplyFails` is the merged state
refused, or a read or the transaction throwing: the handler logs it, evaluates nothing and
answers `accepted`, with `version` 0 (`AcceptedInVain`).

**`PolicyAdmin` and `PolicyLoader`.** A policy is its place in the order in which the
PUTs took effect, so "older" and "newer" make sense whatever `policy_version` says.
`GetExisting` and `PutItem` are the two calls of `putPolicy`; `ConditionHolds` is its
ConditionExpression; `fetched` is what the operator saw last, the source of If-Match.
`Disciplined` names the keys whose operators always send If-Match and never delete:
the code allows both kinds of use. In the loader, `LoadPolicyForContext` is the
synchronous call that answers from the cache however old, `Warmup` what it starts
in the background, and a refresh reads the candidates one step each.
`ListActivePolicies` and `PolicyDetail` are what inspection answers at any moment, when the items
of the keys in `bad` are no valid policies and when the read of DynamoDB fails or is answered.

**`FieldMappings`.** The same representation: mapping `m` is the `m`-th written. A
resolution is `GetMapping` (up to the await), `GetItem`, `FillCache`, where the
entry is dated by `began`, the time taken before the await, as the code does. A webhook delivery
resolves the mapping twice, for its envelope and for its payload. Admin requests run in a
process of their own or in one that serves requests.
`Activate` is the look of an activation without force, and `PutItem` its put, which is an operator's too.
One history variable, `settled`: the deliveries accepted of those that arrived a time
to live or more after the last write.

**`IngestedTables`, `Listings`, `LearnerSummary`.** A request appends its signal, its state
and its decision in steps of their own and carries the time of its arrival; two
requests may append in the order opposite to their times. A page is one query with the
cursor the page before handed on: a row id on SQLite, the key of the last item on
DynamoDB. The four DynamoDB listings whose token the validator refuses end with that
refusal, as they do in the code.

**`LearnerState`.** Here the contents are what matters. `versions` is the sequence of stored
states; a state has the score of each skill, with the count of its evidence and its
companions, the scores promoted to the top level and the aggregation by subject.
`ApplyOne(p, base)` computes on version `base`, which need not be the last
(`ApplySignals` has the reads that lead to it), and `ApplyAgain` computes twice on
payload objects that the first computation has written to. The score is `masteryScore`;
companions of companions are kept as levels. **`LearnerViews`** adds what the screens read beside
it: `stabilityScore` and `riskSignal`, each with the direction saved with it and that of its
trajectory, the time since reinforcement, and the stability of each skill. They take a course of their
own, so at every version they may be any of `Others`, which are all that can be reported when proved about, and seven
in the run.

**`SignalChecks` and `DecisionRules`** write a payload or a state as a function from paths to
kinds of leaves (`DotPaths`), evaluate expressions and conditions as trees, and
keep the code's conversions: `Number()` of a text, of a blank one and of a boolean.
`Preflight` is the preflight, `SendSample` and `Ingest` bring in a payload, and an
operator may put a mapping in between (`PutMapping`). The aliases and transforms of a
mapping are one function of their number (`Steps`), so that it can be proved about; what an
alias copies is taken to be a leaf. In `DecisionRules` an evaluation is begun on
one version and saved later, the explanation being awaited in between. The nodes of
conditions are a constant, `Conditions`, so that what the code does by recursion is a
recursive function on them: the parts of a node (`Parts`, from which validity and the fields
of a policy are read) and its outcome (`Collect`, by `Combine` of the children's).

**`Routing`, `Connectors`.** The item in the table, what is bundled or loaded at the start, and
the writes of operators. An activation reads in one step and puts in another, as the
route does. A delivery is one step: the cache it goes through is `FieldMappings`'.

**`Feedback`, `ReviewDesk`, `ReviewLog`.** `requests[i]` is a request of the browser with its
stage; over DynamoDB a view is looked for and put in two steps. A review is made
(`Review`), posted, undone within its eight seconds, answered or failed, in every order
the page allows. `ReviewLog` looks closer at the browser: `localStorage`, the module's
variables, the subscribers and what they rendered.

**`SignalUpload`.** The wizard's steps are its actions; `Workers` post rows, and an
answer may arrive, be late or be lost. **`Sessions`** has the dashboard and the
API configured apart and restarted under way; `attempts` and `logins` are history.
**`ReadRequests`** abstracts each parameter to its kind, and a client that corrects what
an answer names. **`Overview`** counts decisions by day, with one day of 23 hours.

## 3. The runs

| Run | Instance | Distinct states | What it shows |
|---|---|---|---|
| `apply_stale` | 3 calls, 2 signals of a learner, stale reads, faults | 119 144 | Histories are gapless, the two tables agree and a signal is merged once (`HistoryConsistent`); versions are immutable, one call is told it applied a signal, and the tables implement `LearnerHistory` |
| `apply_lost_update` (violation) | 3 calls, 3 signals, consistent reads, no faults | - | `BuiltOnPredecessor` fails: a version overwrites what its predecessor merged |
| `ingest_consistent` | 3 submissions, 3 signals, consistent reads, no faults | 197 973 | The current version is evaluated, a give-up only after being overtaken twice, a duplicate has an original |
| `ingest_faults` | 2 submissions, 3 signals of 2 learners, stale reads, faults, crashes; fair | 184 953 | Accepted once and one decision per version (`NothingTwice`), and decisions that can be traced, in spite of the faults; everything is answered; the pipeline uses `ApplySignals` as specified |
| `ingest_lost_signal` (violation) | 3 submissions, no faults | - | `AcceptedIsApplied` fails: accepted and never applied |
| `sqlite` | 3 requests, 3 signals of 2 learners, 2 crashes; fair | 189 525 | Nothing twice, decisions name their version, and an accepted signal is in its version or applied nowhere (`StoresAgree`); state is the replay of the log less what a crash cut off or failed to apply; history is linear; everything is answered |
| `policies` | 2 operators, 2 keys, 1 instance, 2 PUTs, 1 fault; fair | 198 880 | Locking works where it is used; the cache never goes back; the policy in force comes to be served; inspection shows what decides unless its reads fail (`LoaderConsistent`) |
| `policy_degraded` (violation) | 1 operator, 3 candidates, 1 fault | - | `DegradedRefreshKeepsPolicy` fails |
| `preflight_resolvable` (violation) | the specification's sample, two mappings of it | - | `ResolvableIsIngested` fails: a sample found resolvable by mapping is refused |
| `reading` | 3 requests, 3 signals of 2 learners, both stores, 5 listings, one summary; or 2 deliveries and an admin in one process, an admin in another, 2 writes, time to live 2 | 1 231 225 | On the server a listing is complete and in order; no listing repeats an item, and what one misses has a cause that is named (`ListingsHold`); a Lambda summary covers the state it shows (`SummaryHolds`); a resolution of a mapping is at most a time to live old; redeliveries become duplicates |
| `listing_incomplete` (violation) | the decisions on DynamoDB, pages of 1 | - | `ListingComplete` fails: the second page is refused |
| `parts` | eleven parts, one of which moves in a behaviour | 208 544 | Twelve properties, listed below |

A behaviour of `reading` is one of a reader or one of the mappings, which share nothing.
Of `parts` a state is identified by the variables of the part that moves (`VIEW View`):
the others never change in that behaviour. Each part has one property, the
conjunction of its type invariant and of the statements that its module defines and
comments one by one (when it fails, the name of the statement that does can be had by
checking its conjuncts apart):

* `DeskAgrees` (`ReviewDesk`, over `Feedback`): one view per session and window on the server,
  and on DynamoDB two only if their requests overlapped; what asks for a review is shown as
  pending; a decision reviewed twice was undone, failed or seen stale; what the log calls
  saved is stored; the latest action is the last one.
* `StateIsOfSignals` (`LearnerState`): evidence counts every signal merged into the version computed
  on, twice after a conflict and not otherwise; a difference is to the version computed on;
  companions only grow; the aggregation lags one version behind and has one subject for every skill with a
  score; the top level has the score of the dominant skill.
* `ReportsFollowState` (`LearnerViews`, over `LearnerReport`): an overall direction needs a step in
  that direction; orphaned companions come of a removal; the gap shown is of the weakest;
  the flag has its evidence; means lie between the scores of the weakest and the strongest skill
  they are of; the screens agree but for the cases they name. Of these one is worth naming here: a
  learner whose mastery alone declines, from high to not yet low, "needs attention" on the roster and
  has no problem area in the queue, since the roster goes by the direction and the queue by the level.
* `ChecksForetell` (`SignalChecks`): the preflight's verdict foretells ingestion while nobody puts a
  mapping, in that a sample is refused for a key exactly when its verdict is not `clean`, as the code
  has it (section 4 has what its specification says of that); a signal stopped at the state for a forbidden key had it written by the mapping; a
  transform that validation accepted fails on a division or on a value that is no number,
  which can still be seen in the payload unless a later transform wrote over it.
* `UploadKeepsRows` (`SignalUpload`): what is reviewed is of the mapping shown; every column is used
  once; the report agrees with what is stored but for answers lost; a row is stored once.
* `ReceiptsExplain` (`DecisionRules`): the snapshot in a receipt replays the decision; the first rule
  that matches is taken; the rationale holds; the trace page agrees with the engine where
  it can; the explanation repeats nothing of the learner.
* `AccessIsOfLogin` (`Sessions`): a stored review is of a login; a failure has its cause; who passes
  the gate has logged in; wrong answers per window are bounded; `Retry-After` is kept.
* `RequestsAnswered` (`ReadRequests`): server and Lambda answer alike but for the listed differences;
  correcting what an answer names comes to an end.
* `RoutesHaveCause` (`Routing`): the bundled configuration is used for a reason; resolution throws
  only on a policy stored under the key.
* `OverviewAgrees` (`Overview`): a decision within the range is plotted except across the short day;
  figures count learners; no filter narrows without showing.
* `ConnectorsAsShown` (`Connectors`): versions repeat only by the two causes named; a connector listed
  as activated is; what passes the filter is shown; an object is ingested once.
* `LogIsShown` (`ReviewLog`): the log remembers every review that stands; the queue shows what is
  not in it; the list hides only what was undone; the card is one change behind.

The runs take from a few seconds to two or three minutes with two workers.
`CHECK_DEADLOCK FALSE` is set throughout: every model comes to rest when its calls
have been answered or its bounds are reached.

### The bounds, and why they are enough

* **Three calls** on one learner: two writers suffice to lose an update, three to use up
  both attempts of the third (`MaxRetries` is the code's own 2). With
  stale reads and faults two submissions suffice, because a stale read plays the part of
  the third writer. Two signals for three calls force a repeated submission; two
  learners show that nothing leaks from one to the other.
* **Two crashes** of the server: one to leave a half-done request, one to interrupt the
  work on what it left.
* **Two PUTs and one fault** for the policies: an older and a newer policy in the same
  key, an older read that could overtake, and one failed read or cold start. Three
  candidates are needed only where the order of the chain matters (`policy_degraded`).
* **Two writes, a time to live of 2 and a clock to 2** for the mappings: an entry can be
  fresh, about to expire and expired, a read can span the write that replaces what it
  read, and its late fill can still be fresh. Requests return to idle when answered, so
  two slots give any number of deliveries, and redeliveries among them. One of the two
  mappings has a `signal_id_path`, and only the admin request of the serving process activates.
* **Listings**: pages of one item, three items, so that there are two turns; requests that
  overlap; two learners for the roster. Refused requests and duplicates happen only under the
  listing that shows them, decisions fail to be made only under theirs. The summary is
  asked about one learner, of whom the requests then are.
* **State**: 3 versions, two skills and a score of four steps: a version can be computed on its
  predecessor or on the one before that, evidence can be counted twice, a skill
  removed after it had companions. One signal at most meets a conflict.
* **Desk**: two decisions, two reviews, of which the first may be undone or fail, a clock of one
  window and one tick for three views; on DynamoDB, where the table's order matters only for ties, one decision.
* **Access**: two browsers behind one address, one restart with another configuration, one
  write, five attempts in a window of one tick.
* **Conn**: three writes by two operators over two releases of the templates; two deliveries.
* **Overview**: three days around the short one, two learners, two decisions that differ.
* **Check**: seven mappings for the organisation that sends, two for the other.
* **Rule**: two versions of a state out of five, the documents replaced at any time.
* **Log**: two decisions, two reviews, which may be of one decision, two loads of a page.
* Symmetry is used on calls and on requests, in runs without liveness properties.

### Fairness

* `SignalIngestion`: weak fairness of each invocation's steps. The runtime resumes an
  invocation whose promise has settled, and a port call settles or times out (the
  client's time-out is the fault). Nothing forces a submission to arrive or an instance
  to die.
* `SqliteIngestion`: weak fairness of each request: the thread runs on, and the event
  loop resumes a settled promise. The number of requests is finite.
* `PolicyLoader`: weak fairness of requests, expiry and the refresh's own steps. The
  refresh needs a request to start it and, on Lambda, a later one to thaw the
  instance; requests that keep coming are therefore an assumption of
  `PolicyInForceIsServed`, and it says nothing of an instance nobody calls. Failing
  reads and cold starts are bounded by `MaxFaults`, not fair: a table that can
  never be read serves nothing in force.
* The other specifications state no fairness, and only safety is checked of them.

### Mutants

Every property of every passing run comes with one mutated definition that a slip in
that code could produce (a condition left out of the transaction, an entry dated after
the await instead of before it, a guard on the version dropped), under which TLC finds
the property violated; a conjunction of several statements has one for one of them. They
stand before the definition they replace and are named `Mutant` in its comment; no
specification uses them.

## 4. What the code does otherwise than it says

1. **Lost update** (`apply_lost_update`; `state/apply-signals-async.ts:148`). The state
   is computed from the `getState` of line 113 and numbered from a second `getState`.
   A version saved in between is passed over in number and lost in content; the
   conditional put cannot notice. `docs/specs/state-engine.md:169` asks for the version
   read to be the version checked. The server has the same two reads with no await
   between them, and `sqlite` shows its history is linear.
2. **Accepted and never applied** (`ingest_lost_signal`;
   `ingestion/handler-core-async.ts:192`). With three writers of a learner one may lose
   both attempts; the failure is logged, the client is told `accepted`, and
   submitting again is a duplicate. `docs/specs/state-engine.md:485` has an accepted
   signal applied immediately. `ConflictMeansOvertaken` bounds when it can happen
   without faults. Five upload workers posting rows of one learner are such writers.
3. **A degraded refresh drops the policy** (`policy_degraded`;
   `decision/policy-loader.ts:281`). `docs/specs/policy-storage.md:245` has the previous
   cached policy used.
4. **The second page is refused** (`listing_incomplete`; `decision/validator.ts:281`). The
   token that the DynamoDB repository hands out is not of the form the validator of
   the same endpoint accepts.
   `docs/guides/customers/get-all-learner-decisions-from-org.md:27` has clients loop until
   there is no token.
5. **Resolvable by mapping, and refused** (`preflight_resolvable`; `ingestion/handler-core.ts:91`). Ingestion
   looks for forbidden keys before it maps, so a sample that the preflight calls
   `semantic_resolvable_by_mapping` is refused under the very mapping that resolves it.
   `docs/specs/ingestion-preflight.md:22` calls the mapping layer the escape hatch for such payloads,
   line 99 has nothing left to resolve when the mapping is right, and
   `docs/guides/operators/pilot-readiness-gates.md:51` passes a feed on that verdict. The
   specification keeps the order of the two checks as well (line 37), so it disagrees with itself.

The properties of the passing runs state, as conditions, what else we met that a
reader may not expect. The first three contradict a document of the repository; they have
no run of their own, since the condition named in the property is what a counterexample
would show.

* The log is not the state. An apply that refuses the merged state (`state/engine.ts:326`, when a mapping
  wrote a forbidden key) or throws is only logged (`ingestion/handler-core.ts:174`): the signal is
  answered `accepted`, stays in the log, is a duplicate when submitted again, and later states are merged
  without it. `docs/specs/state-engine.md:551` has the state reconstructable from the log;
  `ReplayReconstructsState` names the signals that have to be left out of that replay.
* An activation without force looks for a mapping (`connectors/connector-routes.ts:181`) and puts its own
  (line 194) without a condition: a mapping put in between is replaced.
  `docs/specs/integration-templates.md:515` has the activation rejected when a custom mapping exists.
  `VersionsBehind` names such a put as one of the two causes of a version number given twice.
* A mapping adds fields and takes none away (`config/tenant-field-mappings.ts:302`), so the semantic key it reads
  is still found after it unless a target lies above the key (`ResolvedByOverwriting`).
  `docs/specs/ingestion-preflight.md:99` expects nothing to be found when the mapping is right;
  `tests/contracts/ingestion-preflight.test.ts:213` expects what the code does.
* A failed append leaves the idempotency record behind, so `DuplicateHasOriginal` is
  checked without faults only. PUTs without If-Match can number one version twice; the
  properties of versions are of operators who lock.
* DynamoDB pages of signals and decisions, were their tokens accepted, would skip the item that
  decided there is a next page; the ingestion log does skip it (`LogLosesOnePerPage`).
* On the server the ingestion log is shown by time and continued by row id
  (`OrderedLogIsComplete` is of rows in one order); a learner updated while the roster is
  read moves past the reader (`MissedLearnerWasUpdated`).
* A mapping may write a forbidden key, whereupon the signal is accepted and has no effect
  (`ForbiddenStaysOut`), which is one way to the first point.
* A second event about an object is a duplicate whatever its type, because
  `signal_id_path` names the object; and the Canvas template's own test payload holds a key
  that ingestion refuses.
* A policy stored under the key `routing` makes the resolution of the user type throw: the
  signal is then accepted without a decision.
* Undo on the desk is local: the feedback stays posted. A post that fails removes the
  record of a later review of the same decision.
* `getSessionReviewedIdSet` returns the same `Set`, so what depends on it is not
  rendered again; subscribers are told before the log is written.
* Fixed windows of the login limiter let nearly twice the failures through around a
  boundary, and two logins within one second have one session id.
* Around the day the clocks go forward the overview's range begins a day early and
  leaves that day out.

## 5. What is proved

TLAPS checks the proofs for all values of the constants, under the assumptions the
modules name (`ApplyAssumption`, `SqliteAssumption`, `AdminAssumption`, `LoaderAssumption`,
`MappingsAssumption`, `ReviewLogAssumption`, `RoutingAssumption`, `ConnectorsAssumption`,
`SessionsAssumption`, `FeedbackAssumption`, `OverviewAssumption`, `LearnerStateAssumption`,
`LearnerReportAssumption`, `LearnerViewsAssumption`, `SignalChecksAssumption`, `UploadAssumption`,
`RequestAssumption`, `RuleAssumption`,
`TablesAssumption`, `ListingsAssumption`, `SummaryAssumption`).
They say what sets the constants belong to, and the little more that the code ensures:
the least specific candidate of a policy context is not also an earlier one; a
configuration is not the error value; a mapping filters types only by its envelope,
as `parseMappingFromItem` keeps it; no leaf of an object lies above another, and what a mapping reads and
writes has a path; conditions are finite trees, as JSON documents are; a cell that a row of a file has is not absent; one wrong passphrase is not yet one too many. TLC evaluates them on every run.

| Theorem | Statement |
|---|---|
| `SignalIngestionProofs!TypeCorrect` | `Spec => []TypeOK` |
| `HistoryCorrect` | `Spec => []HistoryConsistent`, which is `VersionsContiguous`, `TablesAgree` and `MergedAtMostOnce` |
| `AppliedByOneCall` | `Spec => []OneCallApplies` |
| `GivesUpWhenOvertaken` | `Spec => []ConflictMeansOvertaken` |
| `HistoryNeverChanges` | `Spec => HistoryImmutable` |
| `RefinesHistory` | `Spec => ImplementsHistory` |
| `IngestTypeCorrect` | `IngestSpec => []IngestTypeOK` |
| `NothingIsDoneTwice` | `IngestSpec => []NothingTwice` |
| `DecisionsAlwaysTraceable` | `IngestSpec => []DecisionsTraceable` |
| `CurrentStateIsEvaluated` | `IngestSpec => []CurrentStateEvaluated` |
| `DuplicatesHaveOriginals` | `IngestSpec => []DuplicateHasOriginal` |
| `PipelineImplementsApply` | `IngestSpec => ImplementsApply` |
| `PipelineGivesUpWhenOvertaken` | `IngestSpec => []ConflictMeansOvertaken` |
| `SqliteIngestionProofs!StoresAlwaysAgree` | `Spec => []StoresAgree` |
| `ReplayAlwaysReconstructs` | `Spec => []ReplayReconstructsState` |
| `RefinesLinearHistory` | `Spec => ImplementsHistory`, the linear one |
| `PolicyProofs!AdminTypeCorrect` | `Spec => []AdminTypeOK` |
| `LockedVersionsAdvance` | `Spec => LockedVersionsIncrease` |
| `LockedPutReplacesFetched` | `Spec => LockedPutSeesWhatItReplaces` |
| `LoaderAlwaysConsistent` | `LoaderSpec => []LoaderConsistent` |
| `CacheOnlyAdvances` | `LoaderSpec => CacheNeverGoesBack` |
| `ReceiptsAlwaysExplain` | `RuleSpec => []ReceiptsExplain` |
| `FieldMappingsProofs!MappingsTypeCorrect` | `MappingsSpec => []MappingsTypeOK` |
| `ResolutionsAreRecent` | `MappingsSpec => []ResolvedIsRecent` |
| `RedeliveriesAreDuplicates` | `MappingsSpec => []RedeliveryIsDuplicate` |
| `DashboardProofs!DeskAlwaysAgrees` | `DeskSpec => []DeskAgrees` |
| `LogAlwaysShown` | `LogSpec => []LogIsShown` |
| `OverviewAlwaysAgrees` | `OverviewSpec => []OverviewAgrees` |
| `UploadAlwaysKeepsRows` | `UploadSpec => []UploadKeepsRows` |
| `LearnerProofs!StateAlwaysOfSignals` | `StateSpec => []StateIsOfSignals` |
| `ReportsAlwaysFollow` | `StateSpec => []ReportsFollowState` |
| `ChecksAlwaysForetell` | `CheckSpec => []ChecksForetell` |
| `ReadingProofs!SummaryAlwaysHolds` | `SummarySpec => []SummaryHolds` |
| `RequestsAlwaysAnswered` | `RequestSpec => []RequestsAnswered` |
| `ListingsAlwaysHold` | `Spec => []ListingsHold`, over both stores |
| `AccessProofs!RoutesAlwaysHaveCause` | `RouteSpec => []RoutesHaveCause` |
| `ConnectorsAlwaysAsShown` | `ConnSpec => []ConnectorsAsShown` |
| `AccessAlwaysOfLogin` | `AccessSpec => []AccessIsOfLogin` |

**ApplySignals.** None of the properties is inductive: they say nothing of the calls about
to write. The invariant adds, of the tables, that what is merged has been recorded
(`MergedAreApplied`), and of each call that the number it is about to save is one
past a version that exists (`NumberedToSave`), that what it holds was merged on some
version (`ComputedFromAVersion`), and that a call which applied its signal left the
entry behind. The argument: tables only grow (`TablesGrow`), so what a call knows
of them stays true while others write (`UnmovedKeepsInv`); the transaction's two
conditions then leave the next number and a new signal as the only write that can
succeed (`WriteKeepsTables`). The same write is the abstract step of
`LearnerHistory` on the base the call had read (`WriteProduces`). Stale reads need no
separate case: a lagging read returns a version that exists, and the proof uses no more.
`RefinesHistory` has `Linear` false, and has to: the run `apply_lost_update` is the
counterexample to the linear one. `GivesUpWhenOvertaken` has an invariant of its own
(`RaceInv`): with consistent reads and no faults a call has been overtaken once, since it first
read the state, in each round of the loop that it lost.

**SignalIngestion.** It extends `ApplySignals`, and a step of the pipeline is a step of it
or leaves its variables alone (`PipelineImplementsApply`), so the invariant above is
inherited. What is added to it says where a call can be (`StageInv`): `checkAndStore` lets one call
per signal on (`EntryInv`), so that nobody finds its signal applied by another; a
signal that was applied was applied by a call that knows it, or whose transaction
threw (`AppliedByCall`). A decision is then of the one call that made its version.
Faults and stale reads are in all of these; `CurrentStateEvaluated`, `DuplicateHasOriginal` and
`ConflictMeansOvertaken` are of a run without faults, as the properties themselves say.

**SqliteIngestion.** One request runs at a time (`OneThread`), and what the stores say of its signal
is determined by how far it has come: past the idempotency check nobody else works on
the signal (`OneEntry`), before its append the log lacks the signal, before it is applied it is the last of
the log (`LogInv`). Replay is stated as what it yields, the signals of the log less those a crash cut
off or whose apply failed, in the order of the log, and not as a fold over it, so that it can be proved
(`ReplayInv`): a crash between the append and the save, and an apply that
fails, are the only ways into the set left out.

**PolicyAdmin.** `FetchedIsPast` says that what an operator fetched is no newer than
the item and is the item's policy when it has its version; `ReadIsBetween` that the
`GetItem` of a put under way came between the fetch and now. Both need the GetItem
to be consistent, which the code does not ask for: the two theorems carry
`ConsistentReads` as a hypothesis inside the property. That nobody deletes a
disciplined key is needed too: deletion restarts the version at 1 and a stale If-Match
matches again.

**PolicyLoader.** A PUT's policy is numbered above all before it, so the policies of a key only advance until
the item is deleted, and the cache advances with them because the refreshes of a
context follow one another (`OneRefresh`): what was found, or is cached, was stored at its key and has since
been replaced by later policies only (`NotSuperseded`), and what the refresh under way found is not
older than what is cached for the same key (`FoundAreStored`). `CacheNeverGoesBack` carries
`ConsistentReads`, as the locking theorems do. `InspectionAgrees` is of the table alone, for
every set of invalid items and with or without a failed read: the policy in force is one that inspection
lists, or no key of the context has one of its own, or it is hidden by a read that failed (`Hidden`),
which inspection answers with the bundled file and with not found though caches still serve it.

**DecisionRules.** The invariant (`RuleInv`) says of every evaluation under way, and of every receipt, that
it is of the state of its version, which stays while versions are added, and of the policy that
was in force when it began (`DecidedOn`), and that no receipt there was then is of a later version
(`CameLast`), which gives `OvertakenInFlight`. The rest is about conditions. What is true of a
node when it is of its children is true of all nodes, because a set of counterexamples would
have a node with none below it (`RuleAssumption`); by that the recursive functions exist
(`ValuesExist`) and are what their equations say (`PartsAre`, `CollectIs`). Two states with the
same at the fields of a condition are the same to it (`FieldsDecide`), and a snapshot is the same
at the fields of its policy (`SnapshotHolds`), hence `SnapshotReplays`. A valid condition that
holds has looked at a last leaf that holds, and at no other kind without an "any"
(`ConditionTells`); that needs every compound node to have a child, which
`validateConditionNode` sees to. `PriorityIsFirst` needs ids to be distinct (`PlaceOfId`).

**FieldMappings.** `ResolvedIsRecent` says nothing of an expired entry or of
when a mapping was read. The invariant dates both: a mapping that was read, or is
cached, was not replaced before its date (`ReadsAreDated`, `EntriesAreDated`), dates
are past, and the item in force is the last written. The `GetItem` step is where the date taken
before the await is what makes it true; the mutant that dates the entry when it is
cached breaks it. Invalidation plays no part in the proof: the bound holds without it.
`RedeliveriesAreDuplicates` builds on it: what was replaced was replaced by the time the item was
written (`WritesAreDated`), so a delivery that arrives a time to live later is extracted with the item
itself (`ExtractionsAreRecent`), and the first of a body leaves the item's id behind (`SettledAreStored`).

**ReviewDesk.** Two invariants, one above the other. Of the repositories alone (`FeedbackInv`): requests
are dated when they arrive, each submission that is done has one row, and a view about to be put
found none within the window but those put since it was sent (`ViewsAreApart`), from which
`OneViewPerWindow` follows. Of the desk (`DeskInv`): each review has a submission of its own
(`ReviewsAreSent`); what was answered before a review was chosen was stored before it
(`AnsweredFirst`), which gives `LatestIsLast`; a decision without a record had its reviews undone, or
failed (`LogIsOf`), which gives `SecondReviewHasCause`.

**Overview.** The inductive invariant is of types and of the order of what was fetched (`OverviewInv`); the
properties are about the figures of any such state. `DeltaCountsNewLearners` needs
counting: the learners before the day are among those after it, and the difference of the two
counts is the count of those between. `PlottedUnlessShort` needs to know that a day within the range
that is not the short one has a key.

**SignalUpload.** Four invariants, one above the other: every column of the file has at most one place in the
mapping (`MappingInv`); the rows that were checked are those of the file under the mapping and the defaults
still shown, however often one goes back (`ReviewInv`); a commit posts each good row once and in order
(`PostsInv`, `GoodAt` being a bijection as the number of good rows before one is an injection); and each request
is flying, or was dealt with, so that what is reported of a row differs from what became of it
only when its answer was lost (`SendInv`).

**LearnerState.** The six properties are invariants that build on one another: the evidence of a version is
that of the version it was computed on plus its own signal, because the versions that it goes back to
are those of its base and itself (`VersionSound`). What the merge, the count and the promotion keep of a state
is said once (`Kept`, `CountLeft`, `CountGiven`, `Computed`) for any skills that were `Spoiled`
before, so that the first computation and the recomputation after a conflict are two uses
of the same lemmas. `CompanionsGrow` and `DeltaHasBaseline` need that the
levels of a version are at most its number (`LevelsUpTo`).

**LearnerReport, LearnerViews.** The reports are computed from the versions, so their theorem rests on the invariant of
`LearnerState` and on four facts more of every version (`VersionTold`): a state with a skill has a record of
skills, the breakdown is by subject and complete (`BrokenDown`), the difference at the top level is to the
version computed on (`TopFollows`), and a companion without the one below it goes back to a version without a
score. What the screens say is compared by what makes each of them say it, for any fields beside mastery: a
status by the field that raised the alarm or declined (`RiskIs`, `DeclineIs`), which has an area of its own unless the
breakdown has areas first (`AreaOfFields`, hence `StatusFollows`); the score at the top level by its skill
(`SkillIsTop`); the declines in the queue by the version before, as the aggregation is
computed before the differences (`AreasLag`); a struggle of the tab by its row (`RetentionFollows`).
The rest is about the operators: the rounded mean of scores lies between any bounds of
theirs (`MeanBetween`, over the sum as the function of subsets by which the community modules define it); the
first `MaxGaps` of a strict order are `MaxGaps` skills, as the rank is an injection and so a
bijection (`FirstOnes`); a page of versions in which no version rises does not rise (`NoStepUp`). The means being
between their bounds says too that no subject is reported above its strongest skill or below its weakest.

**SignalChecks.** The answer to a signal and the verdict of a preflight are what they were computed
from (`CheckInv`), and both are computed by the same steps. What these steps do is told of each by an
induction over their number (`Told`, `StepsTell`; the least step that would not be as told does not exist): the
payload stays an object, every leaf is of the sample or was written, and a path that led to a leaf still
does unless a transform wrote above it. An alias cannot do that, since what lies above
a leaf is present and an alias then leaves it alone (`AboveIsPresent`); hence `ResolvedByOverwriting`. An
expression over known variables throws on data only (`ThrowsOnData`, `ValidNames`). The proof attempt showed
that the value which made a transform fail need not be in the stored payload any more: a later
transform may have put a number there. `ExpressionFailsOnData` says so since, and
the run has a mapping that does it.

**LearnerSummary.** Between two answers the tables only grow (`TablesGrow`), so a summary under way
stays true of them (`GrowingKeeps`): its version exists, the signal that made it was accepted
no later than it, and its decisions are the learner's (`Assembled`). Of the tables the invariant says that a learner has as many versions as
signals and that the last version is dated as one of them is (`VersionPerSignal`).

**ReadRequests.** Every fault names a parameter that is not well-formed, or the beginning of a range whose end
comes before it (`Named`), and what was corrected has stayed well-formed, the beginning of a range at its
least when that was found at fault (`RequestInv`): so the only parameter named twice is a
beginning, and once. That the hosts agree is a comparison of two lists of faults for each of the three copies
written apart (`StateCodes`, `ListCodes`, `IngestionCodes`), whose first faults have the same code
unless a kind is one of those listed.

**Listings.** `ListingsHold` speaks of listings that have ended; the invariant (`ListingInv`)
says where one is that goes on, by its store and its kind (`PagesFollow`). The server's
signals and decisions have returned exactly the rows up to the cursor (`RowsRead`), a trajectory
the first versions (`VersionsRead`). The server's ingestion log goes by time and
pages by row, so what its cursor has passed was returned only as long as the entries are in
the order of their times, and that is a hypothesis inside `EntriesRead`. The
server's roster has returned every learner it passed that was there at the start, or the learner
was updated since (`LearnersRead`): an update moves a learner to the front, past the cursor.
Over DynamoDB signals and decisions have one page at most, since the validators of the
handlers refuse the tokens of the repositories (`OneRead`), and of the log at most as many keys
have been passed over as pages were turned (`KeysRead`). Two things carry the argument. One is what a
page is of what lay ahead: sorting by a key that orders the rows makes a sequence of each
row once, in the order of the keys (`SortedRows`), a page is a beginning of it (`Taken`,
`SqlitePages`, `DynamoPages`), and so what is joined to what was seen is up to the new cursor
(`AscendingPage`, `PassingPage`). The other is that the tables only grow, at their
end, with entries that are not dated before `until` (`AddingKeeps`), so that what
lies behind a cursor stays as it was (`PagesKept`).

**ReviewLog.** The ids in memory are written by every reader of the log. The invariant (`LogInv`) says that they
never hold more than the log does as long as it can be kept, that a log which has not been written is
empty, so that migrating the log of the release before overwrites nothing, and what each kind
of page shows after which step.

**Routing.** What is cached, or was read and is on its way into the cache, came from an item that
was written, or nothing usable was found for a reason (`HasCause`). **Connectors.** An item
is what the last write of its source system made of it (`ItemsAreWritten`), a copy is of the first
template of its release (`CopiesAreOfTemplates`), and what an activation found is still the item
or has been replaced since (`PendingAreOfTable`); `ListedTruly` and `ShownTypesPass` follow
from these, and the other parts of `ConnectorsAsShown` are inductive beside them.

**Sessions.** Of a write (`CallSound`) the invariant keeps what each that looked at its cookie found: the
gate, the API, and the page that shows the answer; that the cookie is of a login of its
browser (`Issued`), and that a browser which is logged out has none. Of the limiter
(`LimiterSound`): what is remembered of an address is what the last attempt that touched it left
(`RemembersLast`), and of two failures with no login or restart between them the later has a
higher number in the same window or is of a window that began after the earlier's was over
(`FailuresFollow`). A window's length therefore meets two windows at most, and the first of two had
begun before it, so that it has a number less to give: `FewWrong` counts them, by injections of the
failures of each window into its numbers. Each attempt carries the limiter's entry as history
for the sake of this proof.

**Only model-checked:** the liveness properties `Answers` and `PolicyInForceIsServed`:
temporal reasoning with fairness and ENABLED is out of the prover's reach. Every other
property of the passing runs is stated by a theorem above. What a recursive computation
yields is proved as far as the properties need it; the numbers that the expressions of a mapping
or the comparison of a leaf come to are checked on bounded inputs only.

## 6. What is abstracted, and what is left out

* In the pipelines, the contents of payloads, policies and mappings: an envelope either
  passes a check or does not, a rule matches or not. What is in them is `LearnerState`'s,
  `SignalChecks`' and `DecisionRules`', which in turn have no awaits but the one that
  matters to them. The parts meet in what they hand over: a version is computed on an
  earlier one (`ApplySignals` shows when), a mapping is replaced between two uses
  (`FieldMappings` shows for how long).
* One organisation, one context of the policy cache: every key of the
  stores starts with the organisation, and no operation spans two. `SignalChecks` has two,
  because the file of mappings does.
* `LearnerState` computes one metric, mastery: what it computes of another differs in its name, and
  only mastery has evidence and an aggregation. `LearnerViews` takes the other fields as they are
  reported, at every version anew. References and ids are values without text, so neither are prefixes and
  separators; numbers are small and exact.
* Expiry of idempotency records: the table declares a TTL attribute, the writer never
  sets it.
* In `FieldMappings` the file fallback is taken to be unconfigured, as in the Lambda
  deployment. A `GetItem` of a mapping is taken to return the last write; a lagging
  replica adds its lag to the time to live.
* Requests refused before they touch any state change nothing and are not actions, except
  in `ReadRequests`, which is about them.
* Queries of `Listings` and `LearnerSummary` see what has been written; an index lags, and its
  lag would add to what is shown.
* Known and left out, because what would tell them apart is abstracted: the wording of a
  falling `riskSignal` ("trending worse"); the `educator_explanation` that the SQLite store has no column for;
  the prefix `ref#` that `begins_with` matches in longer references; the key of the
  ingestion log, a time and a signal id, under which a duplicate overwrites the original's
  entry within one millisecond (`KeptOutcomes` has the entries that remain); a review log
  that exceeds the quota of `localStorage`.
* Texts, layout, sorting by a chosen column, colours and wording of the dashboard.

Not modelled, and why: the infrastructure (`src/infra`: it declares tables,
functions and alarms; read for keys, time-outs and environment), scripts, seeds and
examples (they drive the API), generated contracts and their Ajv schemas (data), the
calls to a language model (outside; their answers are arbitrary), `src/dashboard/components/ui`
(vendored), pages that only lay out what a modelled function returns, the OpenAPI
documents and tests.

## 7. Plan

What is left are models: the versions of a second metric in `LearnerState`, so that `LearnerViews` need not
take them as they come; the lag of an index in `Listings`; a browser with two tabs in `ReviewLog`; more than one page of versions in the
overall direction of `LearnerReport`.
