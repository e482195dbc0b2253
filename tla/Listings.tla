------------------------------- MODULE Listings -------------------------------
(***************************************************************************)
(* A client follows one listing of the read API, page by page, while       *)
(* signals go on being ingested: GET /v1/signals, /v1/decisions (and       *)
(* /v1/receipts), /v1/ingestion, /v1/state/trajectory and /v1/state/list,  *)
(* over SQLite and over DynamoDB.  A page is one query.  The abstract      *)
(* promise is that of a set: a listing followed to its end returns what    *)
(* was there when it began, each item once.                                *)
(***************************************************************************)
EXTENDS IngestedTables, SequencesExt

CONSTANTS
  Kinds,      \* the listings
  PageSizes,  \* page_size, or limit
  ScanFactor  \* how many items are scanned for a learner: 3

ASSUME ListingsAssumption ==
  /\ ScanFactor \in Nat \ {0}
  /\ Kinds \subseteq {"signals", "decisions", "ingestion", "trajectory", "roster"}
  /\ PageSizes \subseteq Nat \ {0}

VARIABLE
  listing  \* the request of the next page, what was there, what was returned

NoToken == <<0, 0>>
NoListing == [status |-> "none"]

ListingTypeOK ==
  \/ listing = NoListing
  \/ /\ listing.status \in {"more", "ended", "refused"}
     /\ listing.kind \in Kinds /\ listing.learner \in Learners
     /\ listing.size \in PageSizes /\ listing.outcome \in Outcomes \cup {"any"}
     /\ listing.to \in Nat /\ listing.until \in Times
     /\ listing.token \in Nat \X Nat /\ listing.pages \in Nat
     /\ listing.seen \in Seq(Nat) /\ listing.before \subseteq Nat

TypeOK == TablesTypeOK /\ ListingTypeOK

--------------------------------------------------------------------------------
LexLess(p, q) == p[1] < q[1] \/ (p[1] = q[1] /\ p[2] < q[2])
\* The rows that have a key, by their keys: the nth has n - 1 before it.
SortedBy(key) ==
  LET Before(x) == {y \in DOMAIN key : LexLess(key[y], key[x])}
  IN [n \in 1..Cardinality(DOMAIN key) |-> CHOOSE x \in DOMAIN key : Cardinality(Before(x)) = n - 1]
Take(s, n) == SubSeq(s, 1, IF n < Len(s) THEN n ELSE Len(s))

\* What a query of the listing may see, all pages together.
RowsOf(l) ==
  CASE l.kind = "signals" ->
         {i \in DOMAIN signals : LearnerOf[signals[i].signal] = l.learner /\ signals[i].at <= l.until}
    [] l.kind = "decisions" ->
         {i \in DOMAIN decisions : LearnerOf[decisions[i].signal] = l.learner /\ decisions[i].at <= l.until}
    [] l.kind = "ingestion" ->
         {i \in KeptOutcomes : l.outcome \in {"any", outcomes[i].outcome}}
    [] l.kind = "trajectory" -> DOMAIN states[l.learner]
    [] l.kind = "roster" -> {k \in Learners : states[k] # <<>>}

\* Mutant: the cursor is made of the extra row.
SqlitePageExtra(rows, n, cursor) ==
  [items |-> Take(rows, n),
   token |-> IF Len(rows) > n THEN cursor[rows[n + 1]] ELSE NoToken]

\* SQLite: one row more than the page shows whether there is another page,
\* and the cursor is made of the last row returned.
SqlitePage(rows, n, cursor) ==
  [items |-> Take(rows, n),
   token |-> IF Len(rows) > n THEN cursor[rows[n]] ELSE NoToken]

RowIds(S) == [i \in S |-> <<i, 0>>]
Dated(S, log) == [i \in S |-> <<log[i].at, i>>]
\* What a sequence has at some of its places.
Picked(s, places) == LET order == SortedBy(RowIds(places)) IN [n \in DOMAIN order |-> s[order[n]]]

\* querySignals and getDecisions: the cursor is the row id, the order is time.
SqliteSignals(l) ==
  LET later == {i \in RowsOf(l) : i > l.token[1]} IN
  SqlitePage(SortedBy(Dated(later, signals)), l.size, RowIds(later))
SqliteDecisions(l) ==
  LET later == {i \in RowsOf(l) : i > l.token[1]} IN
  SqlitePage(SortedBy(Dated(later, decisions)), l.size, RowIds(later))

\* getIngestionOutcomes: as above, the newest first.
SqliteIngestionLog(l) ==
  LET older == {i \in RowsOf(l) : l.token = NoToken \/ i < l.token[1]} IN
  SqlitePage(Reverse(SortedBy(Dated(older, outcomes))), l.size, RowIds(older))

UpdatedAt(k) == states[k][Len(states[k])]
RosterKey(k) == <<MaxTime - UpdatedAt(k), k>>

\* listLearners: the latest version of each learner, by (updated_at DESC, learner).
SqliteRoster(l) ==
  LET after == {k \in RowsOf(l) : l.token = NoToken \/ LexLess(<<MaxTime - l.token[1], l.token[2]>>, RosterKey(k))}
  IN SqlitePage(SortedBy([k \in after |-> RosterKey(k)]), l.size, [k \in after |-> <<UpdatedAt(k), k>>])

\* DynamoDB evaluates Limit = n + 1 items after the ExclusiveStartKey, keeps
\* those of the filter, and answers with the key of the last item it evaluated.
DynamoPage(rest, n, kept, key) ==
  LET evaluated == Take(rest, n + 1)
      items == Picked(evaluated, {i \in DOMAIN evaluated : evaluated[i] \in kept}) IN
  [items |-> Take(items, n),
   token |-> IF Len(items) > n THEN key[rest[n + 1]] ELSE NoToken]

DynamoSignals(l) ==
  LET rest == {i \in RowsOf(l) : LexLess(l.token, <<signals[i].at, i>>)}
      key == Dated(rest, signals)
  IN DynamoPage(SortedBy(key), l.size, rest, key)

\* The newest first, where SQLite has the oldest first.
DynamoDecisions(l) ==
  LET rest == {i \in RowsOf(l) : l.token = NoToken \/ LexLess(<<decisions[i].at, i>>, l.token)}
      key == Dated(rest, decisions)
  IN DynamoPage(Reverse(SortedBy(key)), l.size, rest, key)

\* The filter on the outcome is applied after the limit.
DynamoIngestionLog(l) ==
  LET rest == {i \in KeptOutcomes : l.token = NoToken \/ LexLess(OutcomeKey(i), l.token)}
      key == [i \in rest |-> OutcomeKey(i)]
  IN DynamoPage(Reverse(SortedBy(key)), l.size, RowsOf(l), key)

\* listLearners scans state versions, ScanFactor times as many as the page has
\* learners and one, and keeps the first version it meets of each learner.
DynamoRoster(l) ==
  LET versions == UNION {{k} \X DOMAIN states[k] : k \in Learners}
      rest == SortedBy([kv \in {w \in versions : LexLess(l.token, w)} |-> kv])
      limit == ScanFactor * (l.size + 1)
      scanned == Take(rest, limit)
      firsts == {i \in DOMAIN scanned : \A j \in 1..(i - 1) : scanned[j][1] # scanned[i][1]}
      learners == Picked([i \in DOMAIN scanned |-> scanned[i][1]], firsts)
  IN [items |-> Take(learners, l.size),
      token |-> IF Len(learners) >= l.size /\ Len(scanned) = limit THEN scanned[limit] ELSE NoToken]

\* getStateVersionRange, the same over both stores.
Trajectory(l, to) ==
  LET rows == SortedBy(RowIds({v \in RowsOf(l) : v <= to /\ v > l.token[1]}))
      page == Take(rows, l.size)
  IN [items |-> page,
      token |-> IF Len(page) = l.size /\ page[l.size] < to THEN <<page[l.size], 0>> ELSE NoToken]

\* to_version, resolved anew for every page when the client leaves it out.
ToVersion(l) == IF l.to = 0 THEN Len(states[l.learner]) ELSE l.to

PageOf(l) ==
  CASE l.kind = "trajectory" -> Trajectory(l, ToVersion(l))
    [] l.kind = "signals" -> IF store = "sqlite" THEN SqliteSignals(l) ELSE DynamoSignals(l)
    [] l.kind = "decisions" -> IF store = "sqlite" THEN SqliteDecisions(l) ELSE DynamoDecisions(l)
    [] l.kind = "ingestion" -> IF store = "sqlite" THEN SqliteIngestionLog(l) ELSE DynamoIngestionLog(l)
    [] l.kind = "roster" -> IF store = "sqlite" THEN SqliteRoster(l) ELSE DynamoRoster(l)

\* A token of DynamoDB is the base64url of a JSON object, every other one of
\* "v1:" and a number; the validators of three endpoints take the second only.
TokenForm(kind) == IF store = "dynamodb" /\ kind # "trajectory" THEN "json" ELSE "v1"
ChecksTokens == {"signals", "decisions", "trajectory"}

Refused(l) ==
  \/ l.token # NoToken /\ l.kind \in ChecksTokens /\ TokenForm(l.kind) # "v1"
  \/ l.kind = "trajectory" /\ ToVersion(l) < 1   \* 404, and from_version 1 > to_version

--------------------------------------------------------------------------------

\* One request and its answer.
Read(l) ==
  IF Refused(l) THEN listing' = [l EXCEPT !.status = "refused"]
  ELSE LET page == PageOf(l) IN
       listing' = [l EXCEPT !.seen = @ \o page.items, !.token = page.token, !.pages = @ + 1,
                            !.status = IF page.token = NoToken THEN "ended" ELSE "more"]

\* The first page.  Filters that a kind does not have are fixed.
FirstPage(kind, learner, size, outcome, to) ==
  LET l == [status |-> "more", kind |-> kind, learner |-> learner, size |-> size,
            outcome |-> outcome, to |-> to, until |-> now, token |-> NoToken,
            seen |-> <<>>, before |-> {}, pages |-> 0]
  IN /\ listing = NoListing
     /\ kind # "ingestion" => outcome = "any"
     /\ kind # "trajectory" => to = 0
     /\ kind \in {"ingestion", "roster"} => learner = CHOOSE k \in Learners : TRUE
     /\ Read([l EXCEPT !.before = RowsOf(l)])
     /\ UNCHANGED tableVars

NextPage ==
  /\ listing.status = "more"
  /\ Read(listing)
  /\ UNCHANGED tableVars

Init == TablesInit /\ listing = NoListing

\* What is ingested after the last page is of no concern to the listing.
Next ==
  \/ listing.status \in {"none", "more"} /\ TablesNext /\ UNCHANGED listing
  \/ \E kind \in Kinds, learner \in Learners, size \in PageSizes,
        outcome \in {"any", "accepted"}, to \in 0..2 : FirstPage(kind, learner, size, outcome, to)
  \/ NextPage

vars == <<tableVars, listing>>
Spec == Init /\ [][Next]_vars

--------------------------------------------------------------------------------
Ended == listing.status = "ended"
Asked == IF listing.kind = "trajectory" /\ listing.to # 0
         THEN {v \in listing.before : v <= listing.to} ELSE listing.before
Complete == Asked \subseteq ToSet(listing.seen)
InTimeOrder(rows) == \A i, j \in DOMAIN rows : i < j => rows[i].at <= rows[j].at

\* A client that follows a listing to its end has been given everything that
\* was there when it began.
ListingComplete == listing.status \in {"ended", "refused"} => Complete

\* On the server that is so of signals and decisions, in the order of their
\* times, and of a trajectory: the row id is a cursor only because every row is
\* dated when it is inserted.
ServerListingComplete ==
  Ended /\ store = "sqlite" /\ listing.kind \in {"signals", "decisions", "trajectory"} =>
    /\ Complete
    /\ listing.kind = "signals" => InTimeOrder([i \in DOMAIN listing.seen |-> signals[listing.seen[i]]])
    /\ listing.kind = "decisions" => InTimeOrder([i \in DOMAIN listing.seen |-> decisions[listing.seen[i]]])

\* The pages of a trajectory join without a gap or an overlap, over both stores,
\* although to_version may be another one on every page.
TrajectoryContiguous ==
  listing # NoListing /\ listing.kind = "trajectory" =>
    listing.seen = [i \in DOMAIN listing.seen |-> i]

\* No listing shows an item twice, whatever is ingested between its pages; the
\* two that do are the server's ingestion log and the roster over DynamoDB.
ListedOnce ==
  listing # NoListing /\ <<store, listing.kind>> \notin {<<"sqlite", "ingestion">>, <<"dynamodb", "roster">>}
    => IsInjective(listing.seen)

\* The server's roster goes by the time of the last update, which moves: the
\* only learners it may miss are those updated while it was paged through.
MissedLearnerWasUpdated ==
  Ended /\ store = "sqlite" /\ listing.kind = "roster" =>
    \A k \in Asked \ ToSet(listing.seen) : UpdatedAt(k) >= listing.until

\* The ingestion log of the server is complete and shows nothing twice as long
\* as the entries were logged in the order of their times.
OrderedLogIsComplete ==
  Ended /\ store = "sqlite" /\ listing.kind = "ingestion" /\ InTimeOrder(outcomes) =>
    Complete /\ IsInjective(listing.seen)

\* Over DynamoDB the log loses an entry at every turn of the page, no more.
LogLosesOnePerPage ==
  Ended /\ store = "dynamodb" /\ listing.kind = "ingestion" /\ listing.outcome = "any" =>
    Cardinality({OutcomeKey(i) : i \in Asked} \ {OutcomeKey(i) : i \in ToSet(listing.seen)})
      < listing.pages

\* A listing followed to its end is complete up to what is named for its store and kind, and repeats
\* nothing, although its tables are written meanwhile.
ListingsHold ==
  /\ TypeOK /\ ServerListingComplete /\ TrajectoryContiguous /\ ListedOnce
  /\ MissedLearnerWasUpdated /\ OrderedLogIsComplete /\ LogLosesOnePerPage
===============================================================================
