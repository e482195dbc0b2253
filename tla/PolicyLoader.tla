----------------------------- MODULE PolicyLoader -----------------------------
(***************************************************************************)
(* The policy cache of decision/policy-loader.ts, over the table that      *)
(* module PolicyAdmin writes.                                              *)
(*                                                                         *)
(* Each Lambda instance keeps, per organisation and user type, a cache     *)
(* entry with a time to live; this module follows one such context.        *)
(* loadPolicyForContext is synchronous: it answers from the cache, however *)
(* old, else from the bundled file, and leaves it to a background refresh, *)
(* warmupPolicyForContext, to read the candidates from DynamoDB, one       *)
(* GetItem after another.                                                  *)
(***************************************************************************)
EXTENDS PolicyAdmin, Sequences, SequencesExt

CONSTANTS Instances,  \* Lambda instances
          Candidates, \* the keys tried, in order
          MaxFaults   \* bound on failed reads and cold starts

\* The last candidate is the key of "global", which is not the organisation's own name.
ASSUME LoaderAssumption ==
    /\ Candidates \in Seq(Keys) \ {<<>>}
    /\ \A n \in 1..Len(Candidates) - 1 : Candidates[n] # Last(Candidates)
    /\ MaxFaults \in Nat

VARIABLES
    cache,      \* dynamoContextCache: the entry of the context, NoEntry when none
    inProgress, \* is the context in policyRefreshInProgress?
    refreshes,  \* the refreshes under way
    served,     \* the policy the last request was evaluated with
    faults      \* failed reads and cold starts so far

loaderVars == <<cache, inProgress, refreshes, served, faults>>
vars == <<adminVars, loaderVars>>

Bundled == 0
NoEntry == [policy |-> Bundled, key |-> "none", fresh |-> FALSE]
Entry == [policy : Nat \ {0}, key : Keys, fresh : BOOLEAN]

\* A refresh is about to read candidate `at`, unless it has found a policy or
\* tried them all; `degraded` if it logged policy_dynamo_degraded.
Start == [at |-> 1, found |-> Bundled, degraded |-> FALSE]
Refresh == [at : 1..Len(Candidates) + 1, found : Nat, degraded : BOOLEAN]
Done(r) == r.found # Bundled \/ r.at > Len(Candidates)

LoaderInit ==
    /\ Init
    /\ cache = [i \in Instances |-> NoEntry]
    /\ inProgress = [i \in Instances |-> FALSE]
    /\ refreshes = [i \in Instances |-> {}]
    /\ served = [i \in Instances |-> Bundled]
    /\ faults = 0

\* Mutant: nothing keeps a second refresh from starting.
WarmupAlways(i) ==
    /\ inProgress' = [inProgress EXCEPT ![i] = TRUE]
    /\ refreshes' = [refreshes EXCEPT ![i] = @ \cup {Start}]

\* void warmupPolicyForContext: no-op while a refresh is in progress.
Warmup(i) ==
    IF inProgress[i]
    THEN UNCHANGED <<inProgress, refreshes>>
    ELSE /\ inProgress' = [inProgress EXCEPT ![i] = TRUE]
         /\ refreshes' = [refreshes EXCEPT ![i] = @ \cup {Start}]

\* A request is evaluated: a fresh entry is served, an expired one is served
\* too and refreshed, and without an entry the bundled policy is.
LoadPolicyForContext(i) ==
    /\ served' = [served EXCEPT ![i] = cache[i].policy]
    /\ IF cache[i].fresh THEN UNCHANGED <<inProgress, refreshes>> ELSE Warmup(i)
    /\ UNCHANGED <<adminVars, cache, faults>>

Expire(i) ==
    /\ cache[i].fresh
    /\ cache' = [cache EXCEPT ![i].fresh = FALSE]
    /\ UNCHANGED <<adminVars, inProgress, refreshes, served, faults>>

Advance(i, r, found, degraded) ==
    refreshes' = [refreshes EXCEPT ![i] =
        (@ \ {r}) \cup {[at       |-> r.at + 1,
                         found    |-> found,
                         degraded |-> r.degraded \/ degraded]}]

\* An active item is the policy; an item that is disabled or missing is passed
\* over.
TryGetPolicyItem(i, r) ==
    /\ ~Done(r)
    /\ \E item \in Readable(Candidates[r.at]) :
          Advance(i, r, IF item.status = "active" THEN item.policy ELSE Bundled, FALSE)
    /\ UNCHANGED <<adminVars, cache, inProgress, served, faults>>

\* The read fails, or the item is no valid policy: it is passed over as well.
TryGetDegraded(i, r) ==
    /\ ~Done(r)
    /\ faults < MaxFaults
    /\ faults' = faults + 1
    /\ Advance(i, r, Bundled, TRUE)
    /\ UNCHANGED <<adminVars, cache, inProgress, served>>

EndRefresh(i, r, marked) ==
    /\ Done(r)
    /\ cache' = [cache EXCEPT ![i] =
          IF r.found = Bundled
          THEN NoEntry
          ELSE [policy |-> r.found, key |-> Candidates[r.at - 1], fresh |-> TRUE]]
    /\ inProgress' = [inProgress EXCEPT ![i] = marked]
    /\ refreshes' = [refreshes EXCEPT ![i] = @ \ {r}]
    /\ UNCHANGED <<adminVars, served, faults>>

\* Mutant: the context stays marked as in progress when nothing was found.
FinishRefreshMarked(i, r) == EndRefresh(i, r, r.found = Bundled)

\* The refresh ends: what it found goes into the cache, and if it found nothing
\* the entry is dropped.
FinishRefresh(i, r) == EndRefresh(i, r, FALSE)

\* The instance is replaced by a new one, whose memory is empty.
ColdStart(i) ==
    /\ faults < MaxFaults
    /\ faults' = faults + 1
    /\ cache' = [cache EXCEPT ![i] = NoEntry]
    /\ inProgress' = [inProgress EXCEPT ![i] = FALSE]
    /\ refreshes' = [refreshes EXCEPT ![i] = {}]
    /\ UNCHANGED <<adminVars, served>>

RefreshStep(i) ==
    \E r \in refreshes[i] : TryGetPolicyItem(i, r) \/ FinishRefresh(i, r)

LoaderStep(i) ==
    \/ LoadPolicyForContext(i) \/ Expire(i) \/ ColdStart(i) \/ RefreshStep(i)
    \/ \E r \in refreshes[i] : TryGetDegraded(i, r)

LoaderNext ==
    \/ Next /\ UNCHANGED loaderVars
    \/ \E i \in Instances : LoaderStep(i)

\* Requests keep coming, so the time to live passes and refreshes go on.
Fairness ==
    \A i \in Instances :
        /\ WF_vars(LoadPolicyForContext(i))
        /\ WF_vars(Expire(i))
        /\ WF_vars(RefreshStep(i))

LoaderSpec == LoaderInit /\ [][LoaderNext]_vars /\ Fairness
-------------------------------------------------------------------------------
\* The table, the caches and the reads under way keep their types.
TypeOK ==
    /\ AdminTypeOK
    /\ cache \in [Instances -> Entry \cup {NoEntry}]
    /\ inProgress \in [Instances -> BOOLEAN]
    /\ \A i \in Instances : \A r \in refreshes[i] : r \in Refresh
    /\ served \in [Instances -> Nat]
    /\ faults \in 0..MaxFaults

\* The keys in bad hold items that validatePolicyStructure refuses.
Loadable(k, bad) == policies[k].status = "active" /\ k \notin bad

\* The policy in force for the context: the first candidate that is active and
\* valid, or the bundled policy.
InForce(p, bad) ==
    \/ \E n \in DOMAIN Candidates :
          /\ Loadable(Candidates[n], bad)
          /\ \A m \in 1..n - 1 : ~Loadable(Candidates[m], bad)
          /\ p = policies[Candidates[n]].policy
    \/ p = Bundled /\ \A n \in DOMAIN Candidates : ~Loadable(Candidates[n], bad)

\* GET /v1/policies/:policy_key answers with the active policy of exactly that
\* key; a GetItem that fails is answered as a key that is not there.
NotFound == -1
PolicyDetail(k, bad, failed) ==
    IF ~failed /\ Loadable(k, bad) THEN policies[k].policy ELSE NotFound

\* Mutant: policies of any status are listed.
ListStoredPolicies(bad, failed) ==
    LET mine == {k \in Keys \ {Last(Candidates)} :
                    ~failed /\ k \notin bad /\ policies[k].policy # Bundled}
    IN  IF mine = {} THEN {Bundled} ELSE {policies[k].policy : k \in mine}

\* GET /v1/policies: the active policies of the organisation, else the bundled
\* file, also when the Query fails; the policy of "global", the last candidate,
\* is nobody's.
ListActivePolicies(bad, failed) ==
    LET mine == {k \in Keys \ {Last(Candidates)} : ~failed /\ Loadable(k, bad)}
    IN  IF mine = {} THEN {Bundled} ELSE {policies[k].policy : k \in mine}

\* The policy in force is the global or the bundled one, no key of the context has
\* a detail, and the list names the bundled file or keys of other contexts only.
NoneOfItsOwn(p, bad) ==
    /\ p \in {Bundled, PolicyDetail(Last(Candidates), bad, FALSE)}
    /\ \A n \in 1..Len(Candidates) - 1 : PolicyDetail(Candidates[n], bad, FALSE) = NotFound
    /\ ListActivePolicies(bad, FALSE) \subseteq
         {Bundled} \cup {PolicyDetail(k, bad, FALSE) : k \in Keys \ Range(Candidates)}

\* A stored policy is in force, and caches may serve it, while the list names the
\* bundled file and no key has a detail.
Hidden(p, bad) ==
    /\ p # Bundled
    /\ ListActivePolicies(bad, TRUE) = {Bundled}
    /\ \A k \in Keys : PolicyDetail(k, bad, TRUE) = NotFound

\* What inspection shows is what decides, whichever stored items are no valid
\* policies: the policy in force is one of the list, or the context has none of its
\* own. Only reads that fail hide it, and they are not told from a policy missing.
\* A detail that is shown of a candidate is in force, unless one before it is.
InspectionAgrees ==
    \A bad \in SUBSET Keys, failed \in BOOLEAN :
        /\ \A p \in 0..MaxPuts : InForce(p, bad) =>
              \/ p \in ListActivePolicies(bad, failed)
              \/ ~failed /\ NoneOfItsOwn(p, bad)
              \/ failed /\ Hidden(p, bad)
        /\ \A n \in DOMAIN Candidates :
              LET detail == PolicyDetail(Candidates[n], bad, failed) IN
              \/ detail = NotFound
              \/ InForce(detail, bad)
              \/ \E m \in 1..n - 1 : Loadable(Candidates[m], bad)

\* The table and the caches are sound, and inspection shows of them what decides.
LoaderConsistent == TypeOK /\ InspectionAgrees

\* The cache of an instance never goes back to a policy that a later PUT of the
\* same key has replaced once it has held the later one: refreshes of one
\* context never overtake each other.
CacheNeverGoesBack ==
    [][ \A i \in Instances :
            /\ ConsistentReads
            /\ cache[i].key = cache'[i].key
            => cache[i].policy <= cache'[i].policy ]_vars

\* Once the policy in force stops changing, every instance that still gets
\* requests comes to serve it and nothing else: a replaced, disabled or
\* deleted policy does not outlive the time to live by more than a refresh.
PolicyInForceIsServed ==
    \A i \in Instances : \A p \in 0..MaxPuts :
        ConsistentReads /\ <>[]InForce(p, {}) => <>[](served[i] = p)

\* "Invalid DynamoDB policy rejected gracefully: previous cached policy used"
\* (docs/specs/policy-storage.md, POL-S3-004): a refresh that was degraded
\* leaves the policy in the cache as it was.
DegradedRefreshKeepsPolicy ==
    [][ \A i \in Instances : \A r \in refreshes[i] :
            /\ cache[i] # NoEntry
            /\ r.degraded /\ Done(r)
            /\ r \notin refreshes'[i]
            /\ faults' = faults
            => cache'[i].policy = cache[i].policy ]_vars
===============================================================================
