----------------------------- MODULE FieldMappings -----------------------------
(***************************************************************************)
(* Tenant field mappings, from the admin who puts one or activates a       *)
(* connector to the webhook deliveries and preflights that resolve it.     *)
(*                                                                         *)
(* One key (org_id, source_system) is followed.  A process, a Lambda       *)
(* instance or the server, caches what it read from FieldMappingsTable for *)
(* a time to live; requests of one process interleave at every await.  A   *)
(* mapping is its place in the order of the writes, 0 stands for no item:  *)
(* no route deletes one, so the item is the last mapping written.  A       *)
(* delivery resolves the mapping twice, for the envelope and then, in the  *)
(* ingestion pipeline, for the payload; no file fallback is configured.    *)
(* GetItem is taken to return the latest write (ConsistentRead is not      *)
(* asked for; a lagging replica adds its lag to every bound below).        *)
(***************************************************************************)
EXTENDS Integers

CONSTANTS Incoming,   \* what the processes handle at a time
          Bodies,     \* webhook bodies
          Identified, \* the bodies with a value at a signal_id_path
          Admins,     \* admin requests
          Processes,  \* processes
          ProcessOf,  \* the process of each request and admin request
          Paths,      \* the values of signal_id_path
          CacheTtl,   \* FIELD_MAPPINGS_CACHE_TTL_MS, in ticks
          MaxClock,   \* bound on the clock
          MaxWrites   \* bound on the writes of the table

ASSUME MappingsAssumption ==
    /\ Bodies # {} /\ Identified \subseteq Bodies
    /\ ProcessOf \in [Incoming \cup Admins -> Processes]
    /\ CacheTtl \in Nat \ {0} /\ MaxClock \in Nat /\ MaxWrites \in Nat

VARIABLES
    clock,       \* Date.now()
    item,        \* the mapping of the item in FieldMappingsTable
    envelope,    \* the envelope of each mapping
    replacedAt,  \* when each mapping ceased to be the item's, -1 before that
    stored,      \* the signal_ids of bodies in the idempotency table
    cache,       \* the cache entry of each process
    pc,          \* the await a request is suspended at
    body,        \* the body it delivers
    arrived,     \* when it arrived
    began,       \* when the resolution under way began
    got,         \* the mapping its GetItem returned
    extractedBy, \* the mapping its envelope was extracted with
    adminPc,     \* the await an admin request is suspended at, or its answer
    settled      \* history: the deliveries of each body accepted among those
                 \* that arrived a time to live or more after the last write

table == <<item, envelope, replacedAt>>
resolution == <<pc, body, arrived, began, got, extractedBy>>
mappingsVars == <<clock, table, stored, cache, resolution, adminPc, settled>>

Mappings == 1..MaxWrites
NoItem == 0
None == -1     \* no mapping: the answer of a GetItem that failed
Envelopes == {"none", "noSignalIdPath"} \cup Paths
NoEntry == [mapping |-> NoItem, loadedAt |-> -CacheTtl]
AnyBody == CHOOSE b \in Bodies : TRUE

MappingsInit ==
    /\ clock = 0
    /\ item = NoItem
    /\ envelope = [m \in Mappings |-> "none"]
    /\ replacedAt = [m \in Mappings \cup {NoItem} |-> -1]
    /\ stored = {}
    /\ cache = [p \in Processes |-> NoEntry]
    /\ pc = [r \in Incoming |-> "idle"]
    /\ body = [r \in Incoming |-> AnyBody]
    /\ arrived = [r \in Incoming |-> 0]
    /\ began = [r \in Incoming |-> 0]
    /\ got = [r \in Incoming |-> NoItem]
    /\ extractedBy = [r \in Incoming |-> None]
    /\ adminPc = [a \in Admins |-> "idle"]
    /\ settled = [b \in Bodies |-> 0]

(***************************************************************************)
(* The requests: a delivery resolves the mapping for its envelope and then *)
(* for its payload, a preflight, or a signal sent to POST /v1/signals,     *)
(* for its payload only.                                                   *)
(***************************************************************************)
Getting == [envelope |-> "getEnvelope", payload |-> "getPayload"]
Got == [envelope |-> "gotEnvelope", payload |-> "gotPayload"]
Purposes == DOMAIN Got

\* The request is answered, and its locals are gone.
Answer(r) ==
    /\ pc' = [pc EXCEPT ![r] = "idle"]
    /\ extractedBy' = [extractedBy EXCEPT ![r] = None]
    /\ arrived' = [arrived EXCEPT ![r] = 0]
    /\ body' = [body EXCEPT ![r] = AnyBody]

\* extractWebhookEnvelope and the checks of the ingestion pipeline that precede
\* normalisation: without an envelope mapping, a 400; with one, the envelope is
\* extracted, or else the body is at fault or its event type is filtered out.
Extract(r, m, start) ==
    \/ Answer(r)
    \/ /\ m \in Mappings /\ envelope[m] # "none"
       /\ extractedBy' = [extractedBy EXCEPT ![r] = m]
       /\ pc' = [pc EXCEPT ![r] = "extracted"]
       /\ \E b \in Bodies : body' = [body EXCEPT ![r] = b]
       /\ arrived' = [arrived EXCEPT ![r] = start]

\* normalizeAndValidateTenantPayload: without a mapping the payload passes as it
\* is.  A preflight only reports.
Normalize(r, m) ==
    \/ (m \in Mappings \/ extractedBy[r] = None) /\ Answer(r)
    \/ /\ extractedBy[r] # None
       /\ pc' = [pc EXCEPT ![r] = "normalized"]
       /\ UNCHANGED <<extractedBy, arrived, body>>

Resolved(r, purpose, m, start) ==
    \/ purpose = "envelope" /\ Extract(r, m, start)
    \/ purpose = "payload" /\ Normalize(r, m)

\* Mutant: an entry never expires.
HitEver(r) == cache[ProcessOf[r]].loadedAt >= 0

\* A fresh entry is in the cache.
Hit(r) == clock - cache[ProcessOf[r]].loadedAt < CacheTtl

\* getMappingFromDynamoDB up to its await.
GetMapping(r, purpose) ==
    /\ \/ pc[r] = "idle"
       \/ pc[r] = "extracted" /\ purpose = "payload"
    /\ \/ Hit(r) /\ Resolved(r, purpose, cache[ProcessOf[r]].mapping, clock) /\ UNCHANGED began
       \/ /\ ~Hit(r)
          /\ began' = [began EXCEPT ![r] = clock]
          /\ pc' = [pc EXCEPT ![r] = Getting[purpose]]
          /\ UNCHANGED <<body, arrived, extractedBy>>
    /\ UNCHANGED <<clock, table, stored, cache, got, adminPc, settled>>

\* DynamoDB serves the GetItem.
GetItem(r, purpose) ==
    /\ pc[r] = Getting[purpose]
    /\ got' = [got EXCEPT ![r] = item]
    /\ pc' = [pc EXCEPT ![r] = Got[purpose]]
    /\ UNCHANGED <<clock, table, stored, cache, body, arrived, began, extractedBy, adminPc, settled>>

\* Mutant: the entry is dated when it is cached, not when the read began.
FillCacheDatedLate(r, purpose) ==
    /\ pc[r] = Got[purpose]
    /\ cache' = [cache EXCEPT ![ProcessOf[r]] = [mapping |-> got[r], loadedAt |-> clock]]
    /\ Resolved(r, purpose, got[r], began[r])
    /\ got' = [got EXCEPT ![r] = NoItem] /\ began' = [began EXCEPT ![r] = 0]
    /\ UNCHANGED <<clock, table, stored, adminPc, settled>>

\* The answer, a missing item too, is cached and is what the resolution returns.
FillCache(r, purpose) ==
    /\ pc[r] = Got[purpose]
    /\ cache' = [cache EXCEPT ![ProcessOf[r]] = [mapping |-> got[r], loadedAt |-> began[r]]]
    /\ Resolved(r, purpose, got[r], began[r])
    /\ got' = [got EXCEPT ![r] = NoItem] /\ began' = [began EXCEPT ![r] = 0]
    /\ UNCHANGED <<clock, table, stored, adminPc, settled>>

\* Mutant: the failure is cached as if it were an answer.
GetItemFailsCached(r, purpose) ==
    /\ pc[r] = Getting[purpose]
    /\ cache' = [cache EXCEPT ![ProcessOf[r]] = [mapping |-> None, loadedAt |-> began[r]]]
    /\ Resolved(r, purpose, None, began[r])
    /\ began' = [began EXCEPT ![r] = 0]
    /\ UNCHANGED <<clock, table, stored, got, adminPc, settled>>

\* GetItem throws: throttled or degraded, no mapping, and nothing is cached.
GetItemFails(r, purpose) ==
    /\ pc[r] = Getting[purpose]
    /\ Resolved(r, purpose, None, began[r])
    /\ began' = [began EXCEPT ![r] = 0]
    /\ UNCHANGED <<clock, table, stored, cache, got, adminPc, settled>>

\* One time to live or more has passed since the last write.
Settled(r) == item # NoItem /\ arrived[r] >= replacedAt[item - 1] + CacheTtl

\* idempotency.checkAndStore: one conditional write of the signal_id, which is
\* the body's if the envelope has a path for it and the body a value there; a
\* fresh UUID, otherwise, is the signal_id of nothing else.
CheckAndStore(r) ==
    LET path == envelope[extractedBy[r]]
        named == path \in Paths /\ body[r] \in Identified
        signalId == <<path, body[r]>>
    IN  /\ pc[r] = "normalized"
        /\ stored' = IF named THEN stored \cup {signalId} ELSE stored
        /\ settled' = IF Settled(r) /\ ~(named /\ signalId \in stored) /\ settled[body[r]] < 2
                      THEN [settled EXCEPT ![body[r]] = @ + 1] ELSE settled
        /\ Answer(r)
        /\ UNCHANGED <<clock, table, cache, began, got, adminPc>>

(***************************************************************************)
(* The admin                                                               *)
(***************************************************************************)
\* POST /connectors/activate, without force and of a template that is not a stub,
\* up to its put: an existing mapping, from a template or not, is a 409, which
\* changes nothing.  With force what it finds decides nothing, and it is a put.
Activate(a) ==
    /\ adminPc[a] = "idle"
    /\ item = NoItem
    /\ adminPc' = [adminPc EXCEPT ![a] = "activate"]
    /\ UNCHANGED <<clock, table, stored, cache, resolution, settled>>

\* putFieldMappingItem, for a PUT of a mapping that validateMappingBody accepts or
\* for an activation: its PutItem replaces the item, whatever it is.  A put whose
\* answer is lost never gets to Invalidate.
PutItem(a) ==
    /\ adminPc[a] \in {"idle", "activate"}
    /\ item < MaxWrites
    /\ item' = item + 1
    /\ \E e \in Envelopes : envelope' = [envelope EXCEPT ![item + 1] = e]
    /\ replacedAt' = [replacedAt EXCEPT ![item] = clock]
    /\ settled' = [b \in Bodies |-> 0]
    /\ adminPc' = [adminPc EXCEPT ![a] = "invalidate"]
    /\ UNCHANGED <<clock, stored, cache, resolution>>

\* invalidateFieldMappingCache: the entry of the admin request's own process.
Invalidate(a) ==
    /\ adminPc[a] = "invalidate"
    /\ cache' = [cache EXCEPT ![ProcessOf[a]] = NoEntry]
    /\ adminPc' = [adminPc EXCEPT ![a] = "idle"]
    /\ UNCHANGED <<clock, table, stored, resolution, settled>>

MappingsTick ==
    /\ clock < MaxClock
    /\ clock' = clock + 1
    /\ UNCHANGED <<table, stored, cache, resolution, adminPc, settled>>

MappingsNext ==
    \/ \E r \in Incoming, purpose \in Purposes :
         \/ GetMapping(r, purpose) \/ GetItem(r, purpose)
         \/ FillCache(r, purpose) \/ GetItemFails(r, purpose)
    \/ \E r \in Incoming : CheckAndStore(r)
    \/ \E a \in Admins : Activate(a) \/ PutItem(a) \/ Invalidate(a)
    \/ MappingsTick

MappingsSpec == MappingsInit /\ [][MappingsNext]_mappingsVars

(***************************************************************************)
(* Properties                                                              *)
(***************************************************************************)
\* Every variable keeps its type: in particular a failed GetItem is never cached,
\* and only a delivery whose envelope some mapping extracted reaches the
\* idempotency table.
MappingsTypeOK ==
    /\ clock \in 0..MaxClock
    /\ item \in {NoItem} \cup Mappings
    /\ envelope \in [Mappings -> Envelopes]
    /\ replacedAt \in [{NoItem} \cup Mappings -> {-1} \cup 0..MaxClock]
    /\ stored \subseteq Paths \X Identified
    /\ cache \in [Processes -> [mapping : {NoItem} \cup Mappings, loadedAt : {-CacheTtl} \cup 0..MaxClock]]
    /\ pc \in [Incoming -> {"idle", "getEnvelope", "gotEnvelope", "extracted",
                            "getPayload", "gotPayload", "normalized"}]
    /\ body \in [Incoming -> Bodies]
    /\ arrived \in [Incoming -> 0..MaxClock] /\ began \in [Incoming -> 0..MaxClock]
    /\ got \in [Incoming -> {NoItem} \cup Mappings]
    /\ extractedBy \in [Incoming -> {None} \cup Mappings]
    /\ \A r \in Incoming : pc[r] \in {"extracted", "normalized"} => extractedBy[r] \in Mappings
    /\ adminPc \in [Admins -> {"idle", "activate", "invalidate"}]
    /\ settled \in [Bodies -> 0..2]

\* m was the table's mapping at some time less than CacheTtl before t.
InForceWithinTtl(m, t) == replacedAt[m] = -1 \/ replacedAt[m] > t - CacheTtl

\* Whatever requests of the process filled or cleared the cache meanwhile, and
\* in whatever order their reads came back, what a resolution can return, a
\* fresh entry or the item it read, is a mapping, or the absence of one, that was
\* in the table less than one time to live before the resolution began.
ResolvedIsRecent ==
    /\ \A r \in Incoming : pc[r] \in {"gotEnvelope", "gotPayload"} => InForceWithinTtl(got[r], began[r])
    /\ \A r \in Incoming : Hit(r) => InForceWithinTtl(cache[ProcessOf[r]].mapping, clock)

\* From one time to live after the write of a mapping with a signal_id_path on,
\* of all deliveries of one identified body one at most is accepted, whatever
\* process they reach and whatever its cache held: the others are duplicates.
RedeliveryIsDuplicate ==
    item # NoItem /\ envelope[item] \in Paths => \A b \in Identified : settled[b] <= 1
===============================================================================
