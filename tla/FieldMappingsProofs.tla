-------------------------- MODULE FieldMappingsProofs --------------------------
(***************************************************************************)
(* What a resolution returns is recent, for any number of requests, admin  *)
(* requests and processes, any time to live and any history of writes.     *)
(*                                                                         *)
(* ResolvedIsRecent is not inductive: it says nothing of an entry that has *)
(* expired, nor of when a mapping was read.  The invariant says what the   *)
(* code relies on when it dates an entry by the start of the read: a       *)
(* mapping that is cached, or was read, was not replaced before that time. *)
(***************************************************************************)
EXTENDS FieldMappings, TLAPS

\* m was not replaced before t.
InForceSince(m, t) == replacedAt[m] = -1 \/ replacedAt[m] >= t

ReadsAreDated ==
    \A r \in Incoming : pc[r] \in {"gotEnvelope", "gotPayload"} => InForceSince(got[r], began[r])

EntriesAreDated ==
    \A p \in Processes : InForceSince(cache[p].mapping, cache[p].loadedAt)

DatesArePast ==
    /\ \A r \in Incoming : began[r] <= clock
    /\ \A p \in Processes : cache[p].loadedAt <= clock

\* The item is the last mapping written, and no later one has been replaced.
ItemInForce == \A m \in {NoItem} \cup Mappings : m >= item => replacedAt[m] = -1

IInv == MappingsTypeOK /\ ReadsAreDated /\ EntriesAreDated /\ DatesArePast /\ ItemInForce
-------------------------------------------------------------------------------
\* The first state satisfies the invariant.
LEMMA InitInv == MappingsInit => IInv
  <1> SUFFICES ASSUME MappingsInit PROVE IInv OBVIOUS
  <1>1. AnyBody \in Bodies BY MappingsAssumption DEF AnyBody
  <1>2. MappingsTypeOK BY <1>1, MappingsAssumption DEF MappingsInit, MappingsTypeOK, NoEntry, NoItem, None, Mappings, Envelopes
  <1>3. QED
    BY <1>2, MappingsAssumption DEF MappingsInit, IInv, ReadsAreDated, EntriesAreDated, DatesArePast, ItemInForce, InForceSince, NoEntry, NoItem, Mappings

\* What Resolved leads to keeps the type of the four variables it sets.
LEMMA ResolvedTyped ==
    ASSUME MappingsTypeOK, NEW r \in Incoming, NEW purpose \in Purposes,
           NEW m \in {None, NoItem} \cup Mappings, NEW start \in 0..MaxClock,
           Resolved(r, purpose, m, start)
    PROVE  /\ pc' \in [Incoming -> {"idle", "getEnvelope", "gotEnvelope", "extracted",
                                    "getPayload", "gotPayload", "normalized"}]
           /\ body' \in [Incoming -> Bodies]
           /\ arrived' \in [Incoming -> 0..MaxClock]
           /\ extractedBy' \in [Incoming -> {None} \cup Mappings]
           /\ \A q \in Incoming : pc'[q] \in {"extracted", "normalized"} => extractedBy'[q] \in Mappings
           /\ pc'[r] \in {"idle", "extracted", "normalized"}
           /\ \A q \in Incoming \ {r} : pc'[q] = pc[q]
<1>1. CASE Answer(r)
  <2>1. AnyBody \in Bodies BY MappingsAssumption DEF AnyBody
  <2>2. QED BY <1>1, <2>1, MappingsAssumption DEF Answer, MappingsTypeOK, None
<1>2. CASE /\ m \in Mappings
           /\ extractedBy' = [extractedBy EXCEPT ![r] = m]
           /\ pc' = [pc EXCEPT ![r] = "extracted"]
           /\ \E b \in Bodies : body' = [body EXCEPT ![r] = b]
           /\ arrived' = [arrived EXCEPT ![r] = start]
  BY <1>2 DEF MappingsTypeOK
<1>3. CASE /\ extractedBy[r] # None
           /\ pc' = [pc EXCEPT ![r] = "normalized"]
           /\ UNCHANGED <<extractedBy, arrived, body>>
  BY <1>3 DEF MappingsTypeOK
<1>4. QED BY <1>1, <1>2, <1>3 DEF Resolved, Extract, Normalize

\* A step that leaves the table, the clock and the cache as they are, and sets the
\* locals of one request to a dated read or to none, preserves the invariant's
\* other parts.
LEMMA GetMappingStep ==
    ASSUME IInv, NEW r \in Incoming, NEW purpose \in Purposes, GetMapping(r, purpose)
    PROVE  IInv'
<1>1. CASE Hit(r) /\ Resolved(r, purpose, cache[ProcessOf[r]].mapping, clock) /\ UNCHANGED began
  <2>1. cache[ProcessOf[r]].mapping \in {None, NoItem} \cup Mappings /\ clock \in 0..MaxClock
    BY MappingsAssumption DEF IInv, MappingsTypeOK
  <2>2. UNCHANGED <<clock, table, stored, cache, got, began, adminPc, settled>>
    BY <1>1 DEF GetMapping
  <2>3. MappingsTypeOK /\ MappingsTypeOK'
    BY <1>1, <2>1, <2>2, ResolvedTyped DEF IInv, MappingsTypeOK, table
  <2>4. ReadsAreDated'
    BY <1>1, <2>1, <2>2, <2>3, ResolvedTyped DEF IInv, ReadsAreDated, InForceSince, table
  <2>5. EntriesAreDated' /\ DatesArePast' /\ ItemInForce'
    BY <2>2 DEF IInv, EntriesAreDated, DatesArePast, ItemInForce, InForceSince, table
  <2>6. QED BY <2>3, <2>4, <2>5 DEF IInv
<1>2. CASE /\ began' = [began EXCEPT ![r] = clock]
           /\ pc' = [pc EXCEPT ![r] = Getting[purpose]]
           /\ UNCHANGED <<body, arrived, extractedBy>>
  <2>1. UNCHANGED <<clock, table, stored, cache, got, adminPc, settled>>
    BY DEF GetMapping
  <2>2. Getting[purpose] \in {"getEnvelope", "getPayload"}
    BY DEF Purposes, Got, Getting
  <2>3. MappingsTypeOK'
    BY <1>2, <2>1, <2>2 DEF IInv, MappingsTypeOK, table
  <2>4. ReadsAreDated' /\ EntriesAreDated' /\ DatesArePast' /\ ItemInForce'
    BY <1>2, <2>1, <2>2 DEF IInv, MappingsTypeOK, ReadsAreDated, EntriesAreDated, DatesArePast, ItemInForce, InForceSince, table
  <2>5. QED BY <2>3, <2>4 DEF IInv
<1>3. QED BY <1>1, <1>2 DEF GetMapping

\* A read returns the item, which was not replaced before the read began.
LEMMA GetItemStep ==
    ASSUME IInv, NEW r \in Incoming, NEW purpose \in Purposes, GetItem(r, purpose)
    PROVE  IInv'
<1>1. Got[purpose] \in {"gotEnvelope", "gotPayload"}
  BY DEF Purposes, Got
<1>2. MappingsTypeOK'
  BY <1>1 DEF IInv, MappingsTypeOK, GetItem, table
<1>3. InForceSince(item, began[r])
  BY DEF IInv, MappingsTypeOK, ItemInForce, InForceSince, Mappings, NoItem
<1>4. ReadsAreDated'
  BY <1>3 DEF IInv, MappingsTypeOK, ReadsAreDated, InForceSince, GetItem, table
<1>5. EntriesAreDated' /\ DatesArePast' /\ ItemInForce'
  BY DEF IInv, EntriesAreDated, DatesArePast, ItemInForce, InForceSince, GetItem, table
<1>6. QED BY <1>2, <1>4, <1>5 DEF IInv

\* An entry inherits the date of the read that fills it.
LEMMA FillCacheStep ==
    ASSUME IInv, NEW r \in Incoming, NEW purpose \in Purposes, FillCache(r, purpose)
    PROVE  IInv'
<1>1. /\ got[r] \in {None, NoItem} \cup Mappings /\ began[r] \in 0..MaxClock
      /\ began[r] <= clock
      /\ InForceSince(got[r], began[r])
  BY DEF IInv, MappingsTypeOK, DatesArePast, ReadsAreDated, FillCache, Purposes, Got
<1>2. /\ Resolved(r, purpose, got[r], began[r])
      /\ UNCHANGED <<clock, table, stored, adminPc, settled>>
      /\ began' = [began EXCEPT ![r] = 0] /\ got' = [got EXCEPT ![r] = NoItem]
      /\ cache' = [cache EXCEPT ![ProcessOf[r]] = [mapping |-> got[r], loadedAt |-> began[r]]]
  BY DEF FillCache
<1>3. ProcessOf[r] \in Processes BY MappingsAssumption
<1>4. MappingsTypeOK'
  <2>1. cache' \in [Processes -> [mapping : {NoItem} \cup Mappings, loadedAt : {-CacheTtl} \cup 0..MaxClock]]
    BY <1>1, <1>2, <1>3 DEF IInv, MappingsTypeOK
  <2>2. began' \in [Incoming -> 0..MaxClock] /\ got' \in [Incoming -> {NoItem} \cup Mappings]
    BY <1>2, MappingsAssumption DEF IInv, MappingsTypeOK
  <2>3. QED BY <1>1, <1>2, <2>1, <2>2, ResolvedTyped DEF IInv, MappingsTypeOK, table
<1>5. ReadsAreDated'
  <2> SUFFICES ASSUME NEW q \in Incoming, pc'[q] \in {"gotEnvelope", "gotPayload"}
               PROVE  InForceSince(got[q], began[q])'
    BY DEF ReadsAreDated
  <2>1. q # r /\ pc'[q] = pc[q]
    BY <1>1, <1>2, ResolvedTyped DEF IInv
  <2>2. got'[q] = got[q] /\ began'[q] = began[q] /\ replacedAt' = replacedAt
    BY <1>2, <2>1 DEF IInv, MappingsTypeOK, table
  <2>3. QED BY <2>1, <2>2 DEF IInv, ReadsAreDated, InForceSince
<1>6. EntriesAreDated' /\ DatesArePast'
  <2>1. \A p \in Processes : cache'[p] = cache[p] \/ cache'[p] = [mapping |-> got[r], loadedAt |-> began[r]]
    BY <1>2, <1>3 DEF IInv, MappingsTypeOK
  <2>2. replacedAt' = replacedAt /\ clock' = clock
    BY <1>2 DEF table
  <2>3. EntriesAreDated'
    BY <1>1, <2>1, <2>2 DEF IInv, EntriesAreDated, InForceSince
  <2>4. \A q \in Incoming : began'[q] <= clock
    BY <1>2 DEF IInv, MappingsTypeOK, DatesArePast
  <2>5. QED BY <1>1, <2>1, <2>2, <2>3, <2>4 DEF IInv, DatesArePast
<1>7. ItemInForce' BY <1>2 DEF IInv, ItemInForce, table
<1>8. QED BY <1>4, <1>5, <1>6, <1>7 DEF IInv

\* A read that fails leaves the cache alone.
LEMMA GetItemFailsStep ==
    ASSUME IInv, NEW r \in Incoming, NEW purpose \in Purposes, GetItemFails(r, purpose)
    PROVE  IInv'
<1>1. /\ Resolved(r, purpose, None, began[r])
      /\ began' = [began EXCEPT ![r] = 0]
      /\ UNCHANGED <<clock, table, stored, cache, got, adminPc, settled>>
  BY DEF GetItemFails
<1>2. began[r] \in 0..MaxClock BY DEF IInv, MappingsTypeOK
<1>3. began' \in [Incoming -> 0..MaxClock]
  BY <1>1, MappingsAssumption DEF IInv, MappingsTypeOK
<1>4. MappingsTypeOK'
  BY <1>1, <1>2, <1>3, ResolvedTyped DEF IInv, MappingsTypeOK, table
<1>5. ReadsAreDated'
  <2> SUFFICES ASSUME NEW q \in Incoming, pc'[q] \in {"gotEnvelope", "gotPayload"}
               PROVE  InForceSince(got[q], began[q])'
    BY DEF ReadsAreDated
  <2>1. q # r /\ pc'[q] = pc[q]
    BY <1>1, <1>2, ResolvedTyped DEF IInv
  <2>2. got'[q] = got[q] /\ began'[q] = began[q] /\ replacedAt' = replacedAt
    BY <1>1, <2>1 DEF IInv, MappingsTypeOK, table
  <2>3. QED BY <2>1, <2>2 DEF IInv, ReadsAreDated, InForceSince
<1>6. EntriesAreDated' /\ ItemInForce'
  BY <1>1 DEF IInv, EntriesAreDated, ItemInForce, InForceSince, table
<1>7. DatesArePast'
  BY <1>1 DEF IInv, MappingsTypeOK, DatesArePast
<1>8. QED BY <1>4, <1>5, <1>6, <1>7 DEF IInv

\* Storing a signal_id touches neither the cache nor the mappings.
LEMMA CheckAndStoreStep ==
    ASSUME IInv, NEW r \in Incoming, CheckAndStore(r)
    PROVE  IInv'
<1>1. /\ pc[r] = "normalized" /\ Answer(r)
      /\ UNCHANGED <<clock, table, cache, began, got, adminPc>>
  BY DEF CheckAndStore
<1>2. AnyBody \in Bodies BY MappingsAssumption DEF AnyBody
<1>3. stored' \subseteq Paths \X Identified
  BY DEF CheckAndStore, IInv, MappingsTypeOK
<1>4. settled' \in [Bodies -> 0..2]
  BY DEF CheckAndStore, IInv, MappingsTypeOK
<1>5. MappingsTypeOK'
  BY <1>1, <1>2, <1>3, <1>4, MappingsAssumption DEF IInv, MappingsTypeOK, Answer, table
<1>6. ReadsAreDated' /\ EntriesAreDated' /\ DatesArePast' /\ ItemInForce'
  BY <1>1 DEF IInv, MappingsTypeOK, ReadsAreDated, EntriesAreDated, DatesArePast, ItemInForce, InForceSince, Answer, table
<1>7. QED BY <1>5, <1>6 DEF IInv

\* A write replaces the item now, after every read and entry that is dated.
LEMMA PutItemStep ==
    ASSUME IInv, NEW a \in Admins, PutItem(a)
    PROVE  IInv'
<1>1. /\ item < MaxWrites /\ item' = item + 1
      /\ replacedAt' = [replacedAt EXCEPT ![item] = clock]
      /\ UNCHANGED <<clock, stored, cache, resolution>>
  BY DEF PutItem
<1>2. item \in {NoItem} \cup Mappings /\ item' \in Mappings
  BY <1>1, MappingsAssumption DEF IInv, MappingsTypeOK, Mappings, NoItem
<1>3. MappingsTypeOK'
  <2>1. envelope' \in [Mappings -> Envelopes] /\ settled' \in [Bodies -> 0..2]
        /\ adminPc' \in [Admins -> {"idle", "activate", "invalidate"}]
    BY <1>2 DEF PutItem, IInv, MappingsTypeOK
  <2>2. replacedAt' \in [{NoItem} \cup Mappings -> {-1} \cup 0..MaxClock]
    BY <1>1, <1>2 DEF IInv, MappingsTypeOK
  <2>3. QED BY <1>1, <1>2, <2>1, <2>2 DEF IInv, MappingsTypeOK, resolution
<1>4. ASSUME NEW m \in {NoItem} \cup Mappings, NEW t \in Int, t <= clock, InForceSince(m, t)
      PROVE  InForceSince(m, t)'
  BY <1>1, <1>2, <1>4 DEF IInv, MappingsTypeOK, InForceSince
<1>5. ReadsAreDated'
  BY <1>1, <1>4 DEF IInv, MappingsTypeOK, ReadsAreDated, DatesArePast, resolution, InForceSince
<1>6. EntriesAreDated'
  <2> SUFFICES ASSUME NEW p \in Processes PROVE InForceSince(cache[p].mapping, cache[p].loadedAt)'
    BY DEF EntriesAreDated
  <2>1. cache[p].mapping \in {NoItem} \cup Mappings /\ cache[p].loadedAt \in Int
    BY MappingsAssumption DEF IInv, MappingsTypeOK
  <2>2. cache[p].loadedAt <= clock /\ InForceSince(cache[p].mapping, cache[p].loadedAt)
    BY DEF IInv, DatesArePast, EntriesAreDated
  <2>3. QED BY <1>1, <1>4, <2>1, <2>2 DEF InForceSince
<1>7. DatesArePast' BY <1>1 DEF IInv, DatesArePast, resolution
<1>8. ItemInForce' BY <1>1, <1>2 DEF IInv, MappingsTypeOK, ItemInForce, Mappings, NoItem
<1>9. QED BY <1>3, <1>5, <1>6, <1>7, <1>8 DEF IInv

\* The other steps of the admin: looking for the item, and clearing the cache.
LEMMA AdminStep ==
    ASSUME IInv, NEW a \in Admins, Activate(a) \/ Invalidate(a)
    PROVE  IInv'
<1>1. CASE Activate(a)
  BY <1>1 DEF Activate, IInv, MappingsTypeOK, ReadsAreDated, EntriesAreDated, DatesArePast, ItemInForce, InForceSince, table, resolution
<1>2. CASE Invalidate(a)
  <2>1. NoEntry \in [mapping : {NoItem} \cup Mappings, loadedAt : {-CacheTtl} \cup 0..MaxClock]
    BY DEF NoEntry
  <2>2. MappingsTypeOK'
    BY <1>2, <2>1, MappingsAssumption DEF Invalidate, IInv, MappingsTypeOK, table, resolution
  <2>3. /\ \A p \in Processes : cache'[p] = cache[p] \/ cache'[p] = NoEntry
        /\ replacedAt' = replacedAt /\ clock' = clock /\ UNCHANGED <<resolution, item>>
    BY <1>2, MappingsAssumption DEF Invalidate, IInv, MappingsTypeOK, table
  <2>4. InForceSince(NoItem, -CacheTtl) /\ -CacheTtl <= clock
    BY MappingsAssumption DEF IInv, MappingsTypeOK, InForceSince, NoItem, Mappings
  <2>5. EntriesAreDated' /\ DatesArePast'
    BY <2>3, <2>4 DEF IInv, EntriesAreDated, DatesArePast, InForceSince, NoEntry, resolution
  <2>6. ReadsAreDated' /\ ItemInForce'
    BY <2>3 DEF IInv, ReadsAreDated, ItemInForce, InForceSince, resolution
  <2>7. QED BY <2>2, <2>5, <2>6 DEF IInv
<1>3. QED BY <1>1, <1>2

\* Time passing dates nothing anew.
LEMMA TickStep ==
    ASSUME IInv, MappingsTick
    PROVE  IInv'
<1>1. /\ clock \in 0..MaxClock /\ clock' = clock + 1 /\ clock' \in 0..MaxClock
      /\ UNCHANGED <<table, stored, cache, resolution, adminPc, settled>>
  BY MappingsAssumption DEF MappingsTick, IInv, MappingsTypeOK
<1>2. MappingsTypeOK'
  BY <1>1 DEF IInv, MappingsTypeOK, table, resolution
<1>3. ReadsAreDated' /\ EntriesAreDated' /\ ItemInForce'
  BY <1>1 DEF IInv, ReadsAreDated, EntriesAreDated, ItemInForce, InForceSince, table, resolution
<1>4. DatesArePast'
  <2>1. \A r \in Incoming : began[r] \in Int /\ began'[r] = began[r]
    BY <1>1 DEF IInv, MappingsTypeOK, resolution
  <2>2. \A p \in Processes : cache[p].loadedAt \in Int /\ cache' = cache
    BY <1>1, MappingsAssumption DEF IInv, MappingsTypeOK
  <2>3. QED BY <1>1, <2>1, <2>2 DEF IInv, DatesArePast
<1>5. QED BY <1>2, <1>3, <1>4 DEF IInv

\* Every step preserves the invariant.
LEMMA NextInv == IInv /\ [MappingsNext]_mappingsVars => IInv'
<1> SUFFICES ASSUME IInv, [MappingsNext]_mappingsVars PROVE IInv' OBVIOUS
<1>1. ASSUME NEW r \in Incoming, NEW purpose \in Purposes,
             \/ GetMapping(r, purpose) \/ GetItem(r, purpose)
             \/ FillCache(r, purpose) \/ GetItemFails(r, purpose)
      PROVE  IInv'
  BY <1>1, GetMappingStep, GetItemStep, FillCacheStep, GetItemFailsStep
<1>2. ASSUME NEW r \in Incoming, CheckAndStore(r) PROVE IInv'
  BY <1>2, CheckAndStoreStep
<1>3. ASSUME NEW a \in Admins, Activate(a) \/ PutItem(a) \/ Invalidate(a) PROVE IInv'
  BY <1>3, PutItemStep, AdminStep
<1>4. CASE MappingsTick BY <1>4, TickStep
<1>5. CASE UNCHANGED mappingsVars
  BY <1>5 DEF mappingsVars, IInv, MappingsTypeOK, ReadsAreDated, EntriesAreDated, DatesArePast, ItemInForce, InForceSince, table, resolution
<1>6. QED BY <1>1, <1>2, <1>3, <1>4, <1>5 DEF MappingsNext

\* A dated mapping whose date is less than a time to live ago is recent.
LEMMA DatedIsRecent == IInv => ResolvedIsRecent
<1> SUFFICES ASSUME IInv PROVE ResolvedIsRecent OBVIOUS
<1>1. ASSUME NEW r \in Incoming, pc[r] \in {"gotEnvelope", "gotPayload"}
      PROVE  InForceWithinTtl(got[r], began[r])
  BY <1>1, MappingsAssumption DEF IInv, MappingsTypeOK, ReadsAreDated, InForceSince, InForceWithinTtl
<1>2. ASSUME NEW r \in Incoming, Hit(r)
      PROVE  InForceWithinTtl(cache[ProcessOf[r]].mapping, clock)
  <2>1. ProcessOf[r] \in Processes BY MappingsAssumption
  <2>2. /\ cache[ProcessOf[r]].mapping \in {NoItem} \cup Mappings
        /\ cache[ProcessOf[r]].loadedAt \in Int
    BY <2>1, MappingsAssumption DEF IInv, MappingsTypeOK
  <2>3. InForceSince(cache[ProcessOf[r]].mapping, cache[ProcessOf[r]].loadedAt)
    BY <2>1 DEF IInv, EntriesAreDated
  <2>4. QED
    BY <1>2, <2>2, <2>3, MappingsAssumption DEF IInv, MappingsTypeOK, Hit, InForceSince, InForceWithinTtl
<1>3. QED BY <1>1, <1>2 DEF ResolvedIsRecent
-------------------------------------------------------------------------------
\* Every variable keeps its type, for any configuration.
THEOREM MappingsTypeCorrect == MappingsSpec => []MappingsTypeOK
<1>1. IInv => MappingsTypeOK BY DEF IInv
<1>2. QED BY InitInv, NextInv, <1>1, PTL DEF MappingsSpec

\* A resolution never returns a mapping, or the absence of one, that was replaced
\* a time to live or more before it began, for any configuration.
THEOREM ResolutionsAreRecent == MappingsSpec => []ResolvedIsRecent
<1>1. QED BY InitInv, NextInv, DatedIsRecent, PTL DEF MappingsSpec
-------------------------------------------------------------------------------
(***************************************************************************)
(* Redeliveries.  A delivery extracts its signal_id with the mapping that  *)
(* its first resolution returned, which is recent: one that arrived a time *)
(* to live after the last write extracts with the item, as all others do   *)
(* that did, and the idempotency table tells them apart by that signal_id. *)
(***************************************************************************)
\* What was replaced was replaced in the past, no later than the item before the item's.
WritesAreDated ==
    \A m \in {NoItem} \cup Mappings : m < item =>
        /\ replacedAt[m] \in 0..clock
        /\ replacedAt[m] <= replacedAt[item - 1]

\* Nobody knows of a mapping that has not been written.
KnownAreWritten ==
    /\ \A r \in Incoming : got[r] <= item /\ extractedBy[r] <= item
    /\ \A p \in Processes : cache[p].mapping <= item

\* A delivery's envelope was extracted with a mapping that was recent when it arrived.
ExtractionsAreRecent ==
    \A r \in Incoming :
        /\ arrived[r] <= clock
        /\ extractedBy[r] # None => InForceWithinTtl(extractedBy[r], arrived[r])

\* A body that was accepted since the item settled left the item's signal_id behind.
SettledAreStored ==
    item # NoItem /\ envelope[item] \in Paths =>
        \A b \in Identified : settled[b] = 0 \/ (settled[b] = 1 /\ <<envelope[item], b>> \in stored)

RedeliveryInv ==
    IInv /\ WritesAreDated /\ KnownAreWritten /\ ExtractionsAreRecent /\ SettledAreStored

\* The first state satisfies it: nothing has been written or read.
LEMMA InitRedelivery == MappingsInit => RedeliveryInv
<1> SUFFICES ASSUME MappingsInit PROVE RedeliveryInv
  OBVIOUS
<1>1. IInv
  BY InitInv
<1>2. WritesAreDated /\ SettledAreStored
  BY DEF MappingsInit, WritesAreDated, SettledAreStored, NoItem, Mappings
<1>3. KnownAreWritten /\ ExtractionsAreRecent
  BY DEF MappingsInit, KnownAreWritten, ExtractionsAreRecent, NoEntry, NoItem, None
<1> QED
  BY <1>1, <1>2, <1>3 DEF RedeliveryInv

\* What Resolved does to when a request arrived and what extracted its envelope.
LEMMA ResolvedExtracts ==
    ASSUME MappingsTypeOK, NEW r \in Incoming, NEW purpose, NEW m, NEW start,
           Resolved(r, purpose, m, start)
    PROVE  /\ \A q \in Incoming \ {r} : arrived'[q] = arrived[q] /\ extractedBy'[q] = extractedBy[q]
           /\ \/ arrived'[r] = 0 /\ extractedBy'[r] = None
              \/ arrived'[r] = start /\ extractedBy'[r] = m /\ m \in Mappings
              \/ arrived'[r] = arrived[r] /\ extractedBy'[r] = extractedBy[r]
BY DEF MappingsTypeOK, Resolved, Extract, Normalize, Answer

\* A resolution that returns what was recent when it began keeps the invariant.
LEMMA ResolvedKeepsRedelivery ==
    ASSUME RedeliveryInv, NEW r \in Incoming, NEW purpose,
           NEW m \in {None, NoItem} \cup Mappings, NEW start \in 0..MaxClock,
           Resolved(r, purpose, m, start),
           start <= clock, m <= item, m # None => InForceWithinTtl(m, start),
           UNCHANGED <<clock, table>>
    PROVE  ExtractionsAreRecent' /\ \A q \in Incoming : extractedBy'[q] <= item'
<1>1. /\ \A q \in Incoming \ {r} : arrived'[q] = arrived[q] /\ extractedBy'[q] = extractedBy[q]
      /\ \/ arrived'[r] = 0 /\ extractedBy'[r] = None
         \/ arrived'[r] = start /\ extractedBy'[r] = m /\ m \in Mappings
         \/ arrived'[r] = arrived[r] /\ extractedBy'[r] = extractedBy[r]
  BY ResolvedExtracts DEF RedeliveryInv, IInv
<1>2. UNCHANGED <<clock, item, replacedAt>> /\ clock \in Nat /\ item \in Nat
  BY MappingsAssumption DEF RedeliveryInv, IInv, MappingsTypeOK, table, NoItem, Mappings
<1>3. /\ \A q \in Incoming : /\ arrived[q] <= clock /\ extractedBy[q] <= item
                             /\ extractedBy[q] # None => InForceWithinTtl(extractedBy[q], arrived[q])
      /\ 0 <= clock /\ None <= item
  BY <1>2 DEF RedeliveryInv, KnownAreWritten, ExtractionsAreRecent, None
<1>4. ASSUME NEW q \in Incoming
      PROVE  /\ arrived'[q] <= clock /\ extractedBy'[q] <= item
             /\ extractedBy'[q] # None => InForceWithinTtl(extractedBy'[q], arrived'[q])
  <2>1. CASE q # r
    BY <1>1, <1>3, <2>1
  <2>2. CASE q = r
    BY <1>1, <1>3, <2>2
  <2> QED
    BY <2>1, <2>2
<1>5. \A n, t : InForceWithinTtl(n, t) => InForceWithinTtl(n, t)'
  BY <1>2 DEF InForceWithinTtl
<1> QED
  BY <1>2, <1>4, <1>5 DEF ExtractionsAreRecent, InForceWithinTtl

\* The steps of a resolution.
LEMMA ResolutionSteps ==
    ASSUME RedeliveryInv, NEW r \in Incoming, NEW purpose \in Purposes,
           \/ GetMapping(r, purpose) \/ GetItem(r, purpose)
           \/ FillCache(r, purpose) \/ GetItemFails(r, purpose)
    PROVE  RedeliveryInv'
<1>1. UNCHANGED <<clock, table, stored, settled>>
  BY DEF GetMapping, GetItem, FillCache, GetItemFails
<1>2. IInv'
  BY NextInv DEF RedeliveryInv, MappingsNext
<1>3. WritesAreDated' /\ SettledAreStored'
  BY <1>1 DEF RedeliveryInv, WritesAreDated, SettledAreStored, table
<1>4. /\ item' = item /\ item \in Nat /\ CacheTtl \in Nat \ {0}
      /\ \A q \in Incoming : /\ began[q] \in 0..MaxClock /\ began[q] \in Int /\ began[q] <= clock
                             /\ got[q] \in {NoItem} \cup Mappings /\ got[q] <= item
      /\ \A p \in Processes : cache[p].mapping <= item
      /\ clock \in 0..MaxClock
      /\ None <= item /\ NoItem <= item
      /\ replacedAt \in [{NoItem} \cup Mappings -> Int]
  BY <1>1, MappingsAssumption
     DEF RedeliveryInv, KnownAreWritten, IInv, MappingsTypeOK, DatesArePast, table, NoItem, None, Mappings
<1>5. ASSUME NEW m \in {None, NoItem} \cup Mappings, NEW start \in 0..MaxClock,
             Resolved(r, purpose, m, start), start <= clock, m <= item,
             m # None => InForceWithinTtl(m, start)
      PROVE  ExtractionsAreRecent' /\ \A q \in Incoming : extractedBy'[q] <= item'
  BY <1>1, <1>5, ResolvedKeepsRedelivery
<1>6. ASSUME UNCHANGED <<arrived, extractedBy>>
      PROVE  ExtractionsAreRecent' /\ \A q \in Incoming : extractedBy'[q] <= item'
  BY <1>1, <1>6 DEF RedeliveryInv, ExtractionsAreRecent, KnownAreWritten, InForceWithinTtl, table
<1>7. CASE GetMapping(r, purpose)
  <2>1. UNCHANGED <<cache, got>>
    BY <1>7 DEF GetMapping
  <2>2. CASE Hit(r) /\ Resolved(r, purpose, cache[ProcessOf[r]].mapping, clock)
    <3>1. ProcessOf[r] \in Processes
      BY MappingsAssumption
    <3>2. /\ cache[ProcessOf[r]].mapping \in {NoItem} \cup Mappings
          /\ cache[ProcessOf[r]].mapping <= item
          /\ InForceWithinTtl(cache[ProcessOf[r]].mapping, clock)
      BY <1>4, <2>2, <3>1, DatedIsRecent DEF RedeliveryInv, IInv, MappingsTypeOK, ResolvedIsRecent
    <3>3. clock \in 0..MaxClock /\ clock <= clock
      BY <1>4
    <3>4. ExtractionsAreRecent' /\ \A q \in Incoming : extractedBy'[q] <= item'
      BY <1>5, <2>2, <3>2, <3>3
    <3> QED
      BY <1>2, <1>3, <1>4, <2>1, <3>4 DEF RedeliveryInv, KnownAreWritten
  <2>3. CASE UNCHANGED <<arrived, extractedBy>>
    BY <1>2, <1>3, <1>4, <1>6, <2>1, <2>3 DEF RedeliveryInv, KnownAreWritten
  <2> QED
    BY <1>7, <2>2, <2>3 DEF GetMapping
<1>8. CASE GetItem(r, purpose)
  <2>1. UNCHANGED <<arrived, extractedBy, cache>> /\ got' = [got EXCEPT ![r] = item]
    BY <1>8 DEF GetItem
  <2>2. \A q \in Incoming : got'[q] <= item
    BY <1>4, <2>1
  <2> QED
    BY <1>2, <1>3, <1>4, <1>6, <2>1, <2>2 DEF RedeliveryInv, KnownAreWritten
<1>9. CASE FillCache(r, purpose)
  <2>1. /\ Resolved(r, purpose, got[r], began[r])
        /\ pc[r] \in {"gotEnvelope", "gotPayload"}
        /\ got' = [got EXCEPT ![r] = NoItem]
        /\ cache' = [cache EXCEPT ![ProcessOf[r]] = [mapping |-> got[r], loadedAt |-> began[r]]]
    BY <1>9 DEF FillCache, Purposes, Got
  <2>2. InForceWithinTtl(got[r], began[r])
    BY <2>1, DatedIsRecent DEF RedeliveryInv, ResolvedIsRecent
  <2>3. ExtractionsAreRecent' /\ \A q \in Incoming : extractedBy'[q] <= item'
    BY <1>4, <1>5, <2>1, <2>2
  <2>4. \A q \in Incoming : got'[q] <= item
    BY <1>4, <2>1
  <2>5. \A p \in Processes : cache'[p].mapping <= item
    BY <1>4, <2>1
  <2> QED
    BY <1>2, <1>3, <1>4, <2>3, <2>4, <2>5 DEF RedeliveryInv, KnownAreWritten
<1>10. CASE GetItemFails(r, purpose)
  <2>1. Resolved(r, purpose, None, began[r]) /\ UNCHANGED <<cache, got>>
    BY <1>10 DEF GetItemFails
  <2>2. ExtractionsAreRecent' /\ \A q \in Incoming : extractedBy'[q] <= item'
    BY <1>4, <1>5, <2>1
  <2> QED
    BY <1>2, <1>3, <1>4, <2>1, <2>2 DEF RedeliveryInv, KnownAreWritten
<1> QED
  BY <1>7, <1>8, <1>9, <1>10

\* A delivery that arrived after the item settled was extracted with the item.
LEMMA SettledUsesItem ==
    ASSUME RedeliveryInv, NEW r \in Incoming, extractedBy[r] # None, Settled(r)
    PROVE  extractedBy[r] = item
<1>1. /\ item \in Nat \ {0} /\ extractedBy[r] \in Mappings /\ extractedBy[r] \in Nat
      /\ arrived[r] \in Int /\ CacheTtl \in Nat \ {0}
      /\ replacedAt \in [{NoItem} \cup Mappings -> Int]
  BY MappingsAssumption DEF RedeliveryInv, IInv, MappingsTypeOK, Settled, Mappings, NoItem, None
<1>2. extractedBy[r] <= item /\ InForceWithinTtl(extractedBy[r], arrived[r])
  BY DEF RedeliveryInv, KnownAreWritten, ExtractionsAreRecent
<1>3. SUFFICES ASSUME extractedBy[r] < item PROVE FALSE
  BY <1>1, <1>2
<1>4. replacedAt[extractedBy[r]] # -1 /\ replacedAt[extractedBy[r]] <= replacedAt[item - 1]
  BY <1>1, <1>3 DEF RedeliveryInv, WritesAreDated
<1>5. item - 1 \in {NoItem} \cup Mappings
  BY <1>1, MappingsAssumption DEF RedeliveryInv, IInv, MappingsTypeOK, NoItem, Mappings
<1> QED
  BY <1>1, <1>2, <1>4, <1>5 DEF InForceWithinTtl, Settled

\* The one step that accepts: it accepts an identified body if its signal_id is new.
LEMMA AcceptStep ==
    ASSUME RedeliveryInv, NEW r \in Incoming, CheckAndStore(r)
    PROVE  RedeliveryInv'
<1>1. /\ pc[r] = "normalized" /\ Answer(r)
      /\ UNCHANGED <<clock, table, cache, began, got, adminPc>>
  BY DEF CheckAndStore
<1>2. IInv'
  BY NextInv DEF RedeliveryInv, MappingsNext
<1>3. WritesAreDated'
  BY <1>1 DEF RedeliveryInv, WritesAreDated, table
<1>4. /\ extractedBy' = [extractedBy EXCEPT ![r] = None]
      /\ arrived' = [arrived EXCEPT ![r] = 0]
      /\ UNCHANGED <<item, envelope, replacedAt>>
  BY <1>1 DEF Answer, table
<1>5. item \in Nat /\ clock \in Nat /\ None <= item
  BY MappingsAssumption DEF RedeliveryInv, IInv, MappingsTypeOK, NoItem, None, Mappings
<1>6. KnownAreWritten' /\ ExtractionsAreRecent'
  BY <1>1, <1>4, <1>5
     DEF RedeliveryInv, IInv, MappingsTypeOK, KnownAreWritten, ExtractionsAreRecent, InForceWithinTtl
<1>7. SettledAreStored'
  <2> SUFFICES ASSUME item # NoItem, envelope[item] \in Paths, NEW b \in Identified
               PROVE  settled'[b] = 0 \/ (settled'[b] = 1 /\ <<envelope[item], b>> \in stored')
    BY <1>4 DEF SettledAreStored
  <2>1. settled[b] = 0 \/ (settled[b] = 1 /\ <<envelope[item], b>> \in stored)
    BY DEF RedeliveryInv, SettledAreStored
  <2>2. stored \subseteq stored' /\ settled \in [Bodies -> 0..2] /\ b \in Bodies
    BY MappingsAssumption DEF CheckAndStore, RedeliveryInv, IInv, MappingsTypeOK
  <2>3. CASE settled'[b] = settled[b]
    BY <2>1, <2>2, <2>3
  <2>4. CASE settled'[b] # settled[b]
    <3>1. Settled(r) /\ b = body[r]
      BY <2>2, <2>4 DEF CheckAndStore
    <3>2. extractedBy[r] = item
      <4>1. extractedBy[r] # None
        BY <1>1 DEF RedeliveryInv, IInv, MappingsTypeOK, Mappings, None
      <4> QED
        BY <3>1, <4>1, SettledUsesItem
    <3>3. /\ <<envelope[item], b>> \notin stored /\ <<envelope[item], b>> \in stored'
          /\ settled'[b] = settled[b] + 1
      BY <2>2, <2>4, <3>1, <3>2 DEF CheckAndStore
    <3> QED
      BY <2>1, <3>3
  <2> QED
    BY <2>3, <2>4
<1> QED
  BY <1>2, <1>3, <1>6, <1>7 DEF RedeliveryInv

\* A write begins another count; what was extracted with the mapping it replaces
\* was so before now.
LEMMA WriteStep ==
    ASSUME RedeliveryInv, NEW a \in Admins, PutItem(a)
    PROVE  RedeliveryInv'
<1>1. /\ item < MaxWrites /\ item' = item + 1
      /\ replacedAt' = [replacedAt EXCEPT ![item] = clock]
      /\ settled' = [b \in Bodies |-> 0]
      /\ UNCHANGED <<clock, stored, cache, resolution>>
  BY DEF PutItem
<1>2. IInv'
  BY NextInv DEF RedeliveryInv, MappingsNext
<1>3. /\ item \in {NoItem} \cup Mappings /\ item \in Nat /\ clock \in Nat
      /\ replacedAt \in [{NoItem} \cup Mappings -> {-1} \cup 0..MaxClock]
      /\ \A m \in {NoItem} \cup Mappings : m \in Nat /\ replacedAt[m] \in Int
  BY MappingsAssumption DEF RedeliveryInv, IInv, MappingsTypeOK, NoItem, Mappings
<1>4. /\ replacedAt'[item] = clock /\ item' - 1 = item
      /\ \A m \in {NoItem} \cup Mappings : m # item => replacedAt'[m] = replacedAt[m]
  BY <1>1, <1>3
<1>5. WritesAreDated'
  <2> SUFFICES ASSUME NEW m \in {NoItem} \cup Mappings, m < item + 1
               PROVE  replacedAt'[m] \in 0..clock /\ replacedAt'[m] <= replacedAt'[item]
    BY <1>1, <1>4 DEF WritesAreDated
  <2>1. CASE m = item
    BY <1>3, <1>4, <2>1
  <2>2. CASE m < item
    <3>1. replacedAt[m] \in 0..clock
      BY <2>2 DEF RedeliveryInv, WritesAreDated
    <3> QED
      BY <1>3, <1>4, <2>2, <3>1
  <2> QED
    BY <1>3, <2>1, <2>2
<1>6. KnownAreWritten'
  <2>1. \A n \in {None, NoItem} \cup Mappings : n <= item => n <= item + 1
    BY <1>3 DEF None, NoItem, Mappings
  <2>2. /\ \A r \in Incoming : got[r] \in {None, NoItem} \cup Mappings
                               /\ extractedBy[r] \in {None, NoItem} \cup Mappings
        /\ \A p \in Processes : cache[p].mapping \in {None, NoItem} \cup Mappings
    BY DEF RedeliveryInv, IInv, MappingsTypeOK
  <2> QED
    BY <1>1, <2>1, <2>2 DEF RedeliveryInv, KnownAreWritten, resolution
<1>7. ExtractionsAreRecent'
  <2> SUFFICES ASSUME NEW r \in Incoming
               PROVE  /\ arrived[r] <= clock
                      /\ extractedBy[r] # None =>
                            \/ replacedAt'[extractedBy[r]] = -1
                            \/ replacedAt'[extractedBy[r]] > arrived[r] - CacheTtl
    BY <1>1 DEF ExtractionsAreRecent, InForceWithinTtl, resolution
  <2>1. /\ arrived[r] <= clock /\ arrived[r] \in Int
        /\ extractedBy[r] # None =>
              extractedBy[r] \in Mappings /\ InForceWithinTtl(extractedBy[r], arrived[r])
    BY DEF RedeliveryInv, ExtractionsAreRecent, IInv, MappingsTypeOK
  <2>2. clock > arrived[r] - CacheTtl
    BY <1>3, <2>1, MappingsAssumption
  <2> QED
    BY <1>4, <2>1, <2>2 DEF InForceWithinTtl
<1>8. SettledAreStored'
  BY <1>1, MappingsAssumption DEF SettledAreStored
<1> QED
  BY <1>2, <1>5, <1>6, <1>7, <1>8 DEF RedeliveryInv

\* Every step preserves the invariant.
LEMMA NextRedelivery == RedeliveryInv /\ [MappingsNext]_mappingsVars => RedeliveryInv'
<1> SUFFICES ASSUME RedeliveryInv, [MappingsNext]_mappingsVars PROVE RedeliveryInv'
  OBVIOUS
<1>1. IInv'
  BY NextInv DEF RedeliveryInv
<1>2. NoItem <= item /\ item \in Nat
  BY MappingsAssumption DEF RedeliveryInv, IInv, MappingsTypeOK, NoItem, Mappings
<1>3. CASE UNCHANGED <<clock, table, stored, cache, got, arrived, extractedBy, settled>>
  BY <1>1, <1>3 DEF RedeliveryInv, WritesAreDated, KnownAreWritten, ExtractionsAreRecent,
     SettledAreStored, InForceWithinTtl, table
<1>4. ASSUME NEW a \in Admins, Invalidate(a) PROVE RedeliveryInv'
  <2>1. \A p \in Processes : cache'[p] = cache[p] \/ cache'[p].mapping = NoItem
    BY <1>4 DEF Invalidate, RedeliveryInv, IInv, MappingsTypeOK, NoEntry
  <2>2. UNCHANGED <<clock, table, stored, resolution, settled>>
    BY <1>4 DEF Invalidate
  <2> QED
    BY <1>1, <1>2, <2>1, <2>2 DEF RedeliveryInv, WritesAreDated, KnownAreWritten,
       ExtractionsAreRecent, SettledAreStored, InForceWithinTtl, table, resolution
<1>5. CASE MappingsTick
  <2>1. clock' = clock + 1 /\ UNCHANGED <<table, stored, cache, resolution, adminPc, settled>>
    BY <1>5 DEF MappingsTick
  <2>2. /\ clock \in Nat /\ \A r \in Incoming : arrived[r] \in Int
        /\ 0..clock \subseteq 0..clock + 1
    BY MappingsAssumption DEF RedeliveryInv, IInv, MappingsTypeOK
  <2> QED
    BY <1>1, <2>1, <2>2 DEF RedeliveryInv, WritesAreDated, KnownAreWritten,
       ExtractionsAreRecent, SettledAreStored, InForceWithinTtl, table, resolution
<1>6. ASSUME NEW a \in Admins, Activate(a) PROVE RedeliveryInv'
  BY <1>3, <1>6 DEF Activate, resolution
<1> QED
  BY <1>3, <1>4, <1>5, <1>6, ResolutionSteps, AcceptStep, WriteStep
     DEF MappingsNext, mappingsVars, resolution
-------------------------------------------------------------------------------
\* From a time to live after the write of a mapping that names the signal_id on,
\* one delivery of an identified body at most is accepted, for any number of
\* processes, with whatever caches, and any number of deliveries.
THEOREM RedeliveriesAreDuplicates == MappingsSpec => []RedeliveryIsDuplicate
<1>1. RedeliveryInv => RedeliveryIsDuplicate
  <2>1. 0 <= 1 /\ 1 <= 1
    OBVIOUS
  <2> QED
    BY <2>1 DEF RedeliveryInv, SettledAreStored, RedeliveryIsDuplicate
<1> QED
  BY InitRedelivery, NextRedelivery, <1>1, PTL DEF MappingsSpec
===============================================================================
