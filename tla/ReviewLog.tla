------------------------------- MODULE ReviewLog -------------------------------
(***************************************************************************)
(* The log of an educator's reviews in the browser: the records kept in    *)
(* localStorage, the set of ids kept beside them in memory, and the pages  *)
(* that show them: the attention queue, the list of decisions and the      *)
(* card of the overview, which subscribe to the log and keep what they     *)
(* rendered until React has a reason to render again.  One tab; all        *)
(* reviews are of one day.  ReviewDesk has what is posted meanwhile.       *)
(***************************************************************************)
EXTENDS Integers, FiniteSets

CONSTANTS Ranked,     \* 1..n, the urgent decisions in the order of the queue
          MaxWrites,  \* bound on the reviews
          MaxLoads    \* bound on the loads of a page

ASSUME ReviewLogAssumption ==
  /\ IsFiniteSet(Ranked) /\ Ranked = 1..Cardinality(Ranked)
  /\ MaxWrites \in Nat /\ MaxLoads \in Nat

VARIABLES
  browser,  \* the two keys of localStorage and the variables of the module decision-review
  page,     \* the page shown and what it rendered
  toasts,   \* of each decision: the reviews that may be undone, the posts on their way
  answered, \* the decisions whose feedback the server has, those that the page knows of
  done,     \* history: the decisions whose last review was neither undone nor failed
  counts    \* bounds, and what the log held before its last change

logVars == <<browser, page, toasts, answered, done, counts>>

Filters == {"all", "pending", "session"}
Ids(saved) == {d \in Ranked : saved[d] # "none"}
Subscribed == page.name \in {"overview", "decisions"}

--------------------------------------------------------------------------------
\* setItem, which may throw once the quota is used up: then nothing is kept from here on.
Persisted(b, records, ok) ==
  CASE ~b.persist -> b
    [] b.persist /\ ok -> [b EXCEPT !.saved = records, !.key = TRUE]
    [] b.persist /\ ~ok -> [b EXCEPT !.persist = FALSE]

\* migrateLegacyIfNeeded, once per load and before anything subscribes: the old key
\* is removed whether or not the new one could be written.
Migrated(b, ok) ==
  IF b.migrated \/ b.key \/ b.legacy = {} THEN [b EXCEPT !.migrated = TRUE]
  ELSE [Persisted(b, [d \in Ranked |-> IF d \in b.legacy THEN "legacy" ELSE "none"], ok)
          EXCEPT !.migrated = TRUE, !.legacy = {}]

\* readRecords: the ids in memory become those that are kept.
ReadRecords(b, ok) == LET m == Migrated(b, ok) IN [m EXCEPT !.ids = Ids(m.saved)]

\* writeRecords: the subscribers are told before the log is kept, and what they read
\* is the old log.
WriteRecords(b, records, ok) ==
  Persisted([b EXCEPT !.ids = IF Subscribed THEN Ids(b.saved) ELSE Ids(records)], records, ok)

RecordReview(b, d, source, ok) ==
  LET r == ReadRecords(b, ok)  w == WriteRecords(r, [r.saved EXCEPT ![d] = source], ok) IN
  [w EXCEPT !.ids = @ \cup {d}]

UndoReviewOf(b, d, ok) ==
  LET r == ReadRecords(b, ok)  w == WriteRecords(r, [r.saved EXCEPT ![d] = "none"], ok) IN
  [w EXCEPT !.ids = @ \ {d}]

\* Mutant: a review that was undone comes back with its answer.
UpdateAnyFromApi(b, d, ok) == RecordReview(b, d, "api", ok)

\* updateReviewFromApi
UpdateReviewFromApi(b, d, ok) ==
  IF ReadRecords(b, ok).saved[d] = "none" THEN ReadRecords(b, ok) ELSE RecordReview(b, d, "api", ok)

--------------------------------------------------------------------------------
\* buildPendingAttentionQueue, decision by decision: the ids in memory count until the
\* first that is not among them has the log read.
Queue(b, ok, known) ==
  LET kept == Ids(ReadRecords(b, ok).saved) IN
  {d \in Ranked \ (kept \cup known) : d \in b.ids => \E f \in 1..(d - 1) : f \notin b.ids}

\* filterDecisionsByReviewStatus
StreamRows(filter, ids, known) ==
  CASE filter = "all" -> Ranked [] filter = "session" -> ids [] filter = "pending" -> Ranked \ (ids \cup known)

Page(name, filter, rows, count) == [name |-> name, filter |-> filter, rows |-> rows, count |-> count]

\* A page is rendered: whichever it is, the log is read.
Rendered(name, filter, b, ok, known) ==
  LET r == ReadRecords(b, ok) IN
  /\ browser' = r
  /\ page' = CASE name = "attention" -> Page(name, "all", Queue(b, ok, known), Cardinality(r.ids))
               [] name = "overview" -> Page(name, "all", {}, Cardinality(r.ids))
               [] name = "decisions" -> Page(name, filter, StreamRows(filter, r.ids, known), 0)

\* After a change of the log the attention page renders again.  The card does if it is told
\* and the number that it reads then is another; the list never does, because
\* getSessionReviewedIdSet returns the set it returned before.
RenderedAfter(b, told) ==
  IF page.name = "attention" \/ (page.name = "overview" /\ told /\ Cardinality(Ids(browser.saved)) # page.count)
  THEN Rendered(page.name, "all", b, TRUE, answered.known)
  ELSE browser' = b /\ page' = page

Remembered(told) == counts' = IF told THEN [counts EXCEPT !.before = Cardinality(Ids(browser.saved))] ELSE counts

--------------------------------------------------------------------------------
\* The old key is gone once the new one is written, and the page knows of answered posts only.
RlTypeOK ==
  /\ browser.saved \in [Ranked -> {"none", "local", "api", "legacy"}] /\ browser.ids \subseteq Ranked
  /\ browser.legacy \subseteq Ranked /\ (browser.key => browser.legacy = {})
  /\ page.name \in {"attention", "overview", "decisions"} /\ page.filter \in Filters
  /\ page.rows \subseteq Ranked /\ page.count \in 0..Cardinality(Ranked)
  /\ toasts \in [Ranked -> [undo : 0..MaxWrites, posting : 0..MaxWrites]]
  /\ answered.known \subseteq answered.posted /\ done \subseteq Ranked

Nothing == [d \in Ranked |-> "none"]
Quiet == [undo |-> 0, posting |-> 0]

LogInit ==
  /\ \E old \in SUBSET Ranked :
       /\ browser = [saved |-> Nothing, key |-> FALSE, legacy |-> old, ids |-> {}, persist |-> TRUE, migrated |-> FALSE]
       /\ done = old
  /\ page = Page("overview", "all", {}, 0)
  /\ toasts = [d \in Ranked |-> Quiet]
  /\ answered = [posted |-> {}, known |-> {}]
  /\ counts = [writes |-> 0, loads |-> 0, before |-> 0]

\* A page is chosen in the application.
Visit(name, filter) ==
  /\ name # "decisions" => filter = "all"
  /\ counts.loads > 0 /\ (name # page.name \/ filter # page.filter)
  /\ Rendered(name, filter, browser, TRUE, answered.known)
  /\ UNCHANGED <<toasts, answered, done, counts>>

\* A page is loaded: what was in memory is gone, and with it the toasts and what waited.
Load(name, ok) ==
  /\ counts.loads < MaxLoads
  /\ Rendered(name, "all", [browser EXCEPT !.ids = {}, !.persist = TRUE, !.migrated = FALSE], ok, {})
  /\ counts' = [counts EXCEPT !.loads = @ + 1, !.before = Cardinality(Ids(browser'.saved))]
  /\ done' = IF browser.persist /\ ok THEN done ELSE Ids(browser'.saved) \cup browser'.legacy
  /\ toasts' = [d \in Ranked |-> Quiet]
  /\ answered' = [answered EXCEPT !.known = {}]

\* executeReviewAction up to its await, from the queue.
ReviewFromQueue(d, ok) ==
  /\ counts.writes < MaxWrites /\ page.name = "attention" /\ d \in page.rows
  /\ RenderedAfter(RecordReview(browser, d, "local", ok), TRUE)
  /\ counts' = [counts EXCEPT !.writes = @ + 1, !.before = Cardinality(Ids(browser.saved))]
  /\ done' = done \cup {d}
  /\ toasts' = [toasts EXCEPT ![d] = [undo |-> @.undo + 1, posting |-> @.posting + 1]]
  /\ UNCHANGED answered

\* Undo, from the toast and so on any page.
UndoFromToast(d, ok) ==
  /\ toasts[d].undo > 0
  /\ RenderedAfter(UndoReviewOf(browser, d, ok), TRUE) /\ Remembered(TRUE)
  /\ done' = done \ {d} /\ toasts' = [toasts EXCEPT ![d].undo = @ - 1]
  /\ UNCHANGED answered

PostAnswered(d, ok) ==
  LET existing == ReadRecords(browser, TRUE).saved[d] # "none" IN
  /\ toasts[d].posting > 0
  /\ RenderedAfter(UpdateReviewFromApi(browser, d, ok), existing) /\ Remembered(existing)
  /\ toasts' = [toasts EXCEPT ![d].posting = @ - 1]
  /\ answered' = [answered EXCEPT !.posted = @ \cup {d}]
  /\ UNCHANGED done

\* The review is taken back, if it is that of another call too, and the call's toast, if
\* it is still there, dismissed.
PostFailed(d, ok) ==
  /\ toasts[d].posting > 0
  /\ RenderedAfter(UndoReviewOf(browser, d, ok), TRUE) /\ Remembered(TRUE)
  /\ \E dismissed \in {0, 1} : /\ dismissed <= toasts[d].undo
                              /\ toasts' = [toasts EXCEPT ![d] = [undo |-> @.undo - dismissed, posting |-> @.posting - 1]]
  /\ done' = done \ {d} /\ UNCHANGED answered

\* useFeedbackStatusForDecisionIds: the queue always asks, the list when it shows those that
\* wait or the column of the action; a new set renders the page again.
ServerTells(d) ==
  /\ d \in answered.posted \ answered.known /\ page.name # "overview"
  /\ answered' = [answered EXCEPT !.known = @ \cup {d}]
  /\ Rendered(page.name, page.filter, browser, TRUE, answered'.known)
  /\ UNCHANGED <<toasts, done, counts>>

LogNext ==
  \/ \E name \in {"attention", "overview", "decisions"} :
       (\E ok \in BOOLEAN : Load(name, ok)) \/ \E f \in Filters : Visit(name, f)
  \/ \E d \in Ranked, ok \in BOOLEAN : ReviewFromQueue(d, ok) \/ UndoFromToast(d, ok) \/ PostAnswered(d, ok) \/ PostFailed(d, ok)
  \/ \E d \in Ranked : ServerTells(d)

LogSpec == LogInit /\ [][LogNext]_logVars

--------------------------------------------------------------------------------
\* As long as the browser can keep it, the log holds what the educator did last, whatever order
\* undos, answers and failures come in, and the reviews of the release before: an
\* answer that comes after the undo does not bring the review back.
LogRemembers == browser.persist => Ids(browser.saved) \cup browser.legacy = done

\* As long as the browser can keep the log, the queue shows what is neither reviewed nor known
\* to be, although the memory beside the log is written by whoever reads.
QueueAgrees ==
  browser.persist /\ page.name = "attention" => page.rows = Ranked \ (done \cup answered.known)

\* The list is behind the log in one way only: what was undone, or failed, since it was
\* rendered is still listed as reviewed and not as pending.  It never lists as
\* pending what is reviewed.
ListHidesOnlyUndone ==
  browser.persist /\ page.name = "decisions" =>
    /\ page.filter = "pending" => page.rows \cap done = {}
    /\ page.filter = "session" => done \subseteq page.rows

\* The card is behind the log by one change at most: it shows the number of reviews that there
\* are, or that there were before the last change.
CardBehindByOne ==
  browser.persist /\ page.name = "overview" /\ counts.loads > 0 =>
    page.count \in {Cardinality(Ids(browser.saved)), counts.before}

\* The browser remembers the reviews that stand, and each page is behind the log in its own known
\* way only, whatever order answers, undos, failures and reloads come in.
LogIsShown ==
  /\ RlTypeOK /\ LogRemembers /\ QueueAgrees /\ ListHidesOnlyUndone /\ CardBehindByOne
================================================================================
