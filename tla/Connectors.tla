------------------------------- MODULE Connectors -------------------------------
(***************************************************************************)
(* The connectors of one organisation: the templates that the server read  *)
(* when it started, the mappings that operators put or copy from a         *)
(* template, the list of connectors that they are shown, and what becomes  *)
(* of the deliveries of a webhook.  A delivery meets the mapping in force; *)
(* the cache in between, and what an activation races with in it, are in   *)
(* module FieldMappings.                                                   *)
(***************************************************************************)
EXTENDS Integers, Sequences, SequencesExt

CONSTANTS
  Directories,   \* the directories of templates of the releases, each in the order of its files
  PutBodies,     \* the mappings that operators put and validateMappingBody accepts
  EventTypes,
  Deliveries,    \* what the source systems post
  ConnAdmins,    \* the operators, at work at the same time
  MaxConnWrites, MaxDelivered   \* bounds

NoList == {"*"}   \* allowed_event_types left out
NoType == "none"  \* an event that names no type
Templates == UNION {Range(Directories[r]) : r \in DOMAIN Directories}

\* What parseMappingFromItem reads: types are filtered with the envelope or not at all.
ConnMappings ==
  {m \in [envelope : BOOLEAN, byId : BOOLEAN, typed : BOOLEAN, allowed : (SUBSET EventTypes) \cup {NoList},
          required : BOOLEAN, sound : BOOLEAN] : m.typed => m.envelope}

ASSUME ConnectorsAssumption ==
  /\ \A r \in DOMAIN Directories : Directories[r] \in Seq(Templates)
  /\ \A t \in Templates : t.id # "none" /\ NoType \notin t.defaults /\ (~t.stub => t.mapping \in ConnMappings)
  /\ \A m \in PutBodies : m \in ConnMappings /\ m.sound /\ (m.allowed # NoList => m.typed)
  /\ NoType \notin EventTypes /\ MaxDelivered \in Nat

VARIABLES
  connTable,     \* FIELD_MAPPINGS_TABLE is set
  connRelease,   \* the release whose templates are in the server's memory
  connItems,     \* of each source system: the item, with the number of its write
  connPending,   \* of each operator: the activation between its read and its put
  connWrites,    \* history: every item written
  connEvents     \* history: the deliveries, what extracted them, and their answers

connVars == <<connTable, connRelease, connItems, connPending, connWrites, connEvents>>

connRegistry == Directories[connRelease]
Sources == {t.source : t \in Templates}
NoMappingOf == [envelope |-> FALSE, byId |-> FALSE, typed |-> FALSE, allowed |-> NoList, required |-> FALSE, sound |-> TRUE]
NoItemOf == [template |-> "none", mapping |-> NoMappingOf, version |-> 0, write |-> 0]
NotActivating == [source |-> "none"]

--------------------------------------------------------------------------------
\* getTemplate: the first file of the source system, if any.
TemplateOf(source) ==
  LET of == {i \in DOMAIN connRegistry : connRegistry[i].source = source} IN
  {connRegistry[i] : i \in {i \in of : \A j \in of : i <= j}}

\* parseMappingFromItem: a list without types is no list.  In memory a mapping is kept as it was put.
Parsed(m) == IF connTable /\ m.allowed = {} THEN [m EXCEPT !.allowed = NoList] ELSE m
InForce(source) == Parsed(connItems[source].mapping)

\* deriveEventTypes
EventTypesOf(t) ==
  LET allowed == InForce(t.source).allowed IN
  IF InForce(t.source).envelope /\ allowed \notin {NoList, {}} THEN allowed ELSE t.defaults

\* GET /connectors: without the table nothing is listed as activated.
ConnStatus(t) ==
  CASE connTable /\ connItems[t.source].template = t.id -> "activated"
    [] ~(connTable /\ connItems[t.source].template = t.id) -> IF t.stub THEN "not_ready" ELSE "available"

\* The filter of extractWebhookEnvelope.
Passes(m, type) == m.typed => type # NoType /\ (m.allowed = NoList \/ type \in m.allowed)

\* The pair that idempotency keeps, of organisation and signal_id, has no source system in it.
Known(object, source) == \E i \in DOMAIN connEvents : LET e == connEvents[i] IN
  e.answer = "accepted" /\ e.by.byId /\ e.event.object = object

\* extractWebhookEnvelope and the ingestion pipeline.  The raw body is searched for
\* forbidden keys before the mapping looks at it, so that a transform of such a
\* field (submission.score) never runs.
AnswerTo(e, m, source) ==
  CASE ~m.envelope -> "missing_envelope_mapping"
    [] m.envelope /\ ~Passes(m, e.type) -> "dropped"
    [] m.envelope /\ Passes(m, e.type) ->
         IF ~e.learner THEN "envelope_extraction_failed"
         ELSE IF e.field = "forbidden" THEN "forbidden"
         ELSE IF (e.field = "absent" /\ m.required) \/ (e.field = "source" /\ ~m.sound) THEN "invalid"
         ELSE IF m.byId /\ Known(e.object, source) THEN "duplicate" ELSE "accepted"

--------------------------------------------------------------------------------
ConnInit ==
  /\ connTable \in BOOLEAN
  /\ connRelease \in DOMAIN Directories
  /\ connItems = [s \in Sources |-> NoItemOf]
  /\ connPending = [a \in ConnAdmins |-> NotActivating]
  /\ connWrites = <<>> /\ connEvents = <<>>

\* The server starts again, with another release of the templates: initTemplateRegistry only
\* warns of a transform that cannot be evaluated.  What was in memory only is gone.
RestartServer(r) ==
  /\ connRelease' = r /\ connRelease # r
  /\ connItems' = IF connTable THEN connItems ELSE [s \in Sources |-> NoItemOf]
  /\ connPending' = [a \in ConnAdmins |-> NotActivating]
  /\ UNCHANGED <<connTable, connWrites, connEvents>>

\* POST /connectors/activate up to its put.  A stub is refused (400), as is a source
\* system without template (404) or, without force, one with a mapping (409).  Without
\* the table the put throws.
StartActivation(a, source, force) ==
  /\ connPending[a] = NotActivating /\ connTable
  /\ connItems[source] # NoItemOf => force
  /\ \E t \in TemplateOf(source) :
       /\ ~t.stub
       /\ connPending' = [connPending EXCEPT ![a] =
            [source |-> source, template |-> t, version |-> connItems[source].version,
             found |-> connItems[source].write]]
  /\ UNCHANGED <<connTable, connRelease, connItems, connWrites, connEvents>>

\* putFieldMappingItem, which replaces the item, whatever it is.
Write(source, template, mapping, version, found, kind) ==
  LET item == [template |-> template, mapping |-> mapping, version |-> version, write |-> Len(connWrites) + 1] IN
  /\ Len(connWrites) < MaxConnWrites
  /\ connItems' = [connItems EXCEPT ![source] = item]
  /\ connWrites' = Append(connWrites,
       [source |-> source, template |-> template, mapping |-> mapping, version |-> version, found |-> found, kind |-> kind,
        replaced |-> connItems[source].write, from |-> connRelease])

\* Mutant: the version that was found is not advanced.
PutActivationAgain(a) ==
  LET p == connPending[a] IN
  /\ p # NotActivating
  /\ Write(p.source, p.template.id, p.template.mapping, IF p.version = 0 THEN 1 ELSE p.version, p.found, "activation")
  /\ connPending' = [connPending EXCEPT ![a] = NotActivating]
  /\ UNCHANGED <<connTable, connRelease, connEvents>>

\* The template's mapping is copied as it is, without validateMappingBody.
PutActivation(a) ==
  LET p == connPending[a] IN
  /\ p # NotActivating
  /\ Write(p.source, p.template.id, p.template.mapping, p.version + 1, p.found, "activation")
  /\ connPending' = [connPending EXCEPT ![a] = NotActivating]
  /\ UNCHANGED <<connTable, connRelease, connEvents>>

\* PUT /mappings/:org_id/:source_system: the route never passes the version it replaces, so
\* it is 1 again, and takes the template's id from the query, if there is one.
PutConnectorMapping(source, m, template) ==
  /\ Write(source, IF connTable THEN template ELSE "none", m, 1, connItems[source].write, "put")
  /\ UNCHANGED <<connTable, connRelease, connPending, connEvents>>

\* POST /webhooks/:source_system
DeliverWebhook(source, e) ==
  LET m == InForce(source) IN
  /\ Len(connEvents) < MaxDelivered
  /\ connEvents' = Append(connEvents, [source |-> source, event |-> e, by |-> m, answer |-> AnswerTo(e, m, source)])
  /\ UNCHANGED <<connTable, connRelease, connItems, connPending, connWrites>>

ConnNext ==
  \/ \E r \in DOMAIN Directories : RestartServer(r)
  \/ \E s \in Sources :
       \/ \E a \in ConnAdmins, force \in BOOLEAN : StartActivation(a, s, force)
       \/ \E m \in PutBodies, t \in Templates : t.source = s /\ \E id \in {t.id, "none"} : PutConnectorMapping(s, m, id)
       \/ \E e \in Deliveries : DeliverWebhook(s, e)
  \/ \E a \in ConnAdmins : PutActivation(a)

ConnSpec == ConnInit /\ [][ConnNext]_connVars

--------------------------------------------------------------------------------
\* A mapping whose transform cannot be evaluated is only ever an activated template's, and
\* without the table there is none.
ConnTypeOK ==
  /\ connTable \in BOOLEAN /\ connRelease \in DOMAIN Directories /\ Len(connEvents) <= MaxDelivered
  /\ \A s \in Sources : LET i == connItems[s] IN
       /\ i.template # "none" => connTable
       /\ i.mapping.sound \/ i.template # "none"

\* mapping_version does not count the writes, but it goes wrong in two ways only: it does not
\* grow when an operator puts a mapping, nor when an activation read the item before
\* the write that it replaces (putFieldMappingItem puts unconditionally).
VersionsBehind ==
  \A k \in DOMAIN connWrites : LET w == connWrites[k] IN
    w.replaced > 0 /\ w.version <= connWrites[w.replaced].version => w.kind = "put" \/ w.found < w.replaced

\* The list says activated by the id of the template alone: the mapping is the one that the
\* template has now, unless an operator put another under its id or the release of the
\* templates has changed since, or an earlier file of the source system has the same
\* id; a mapping that was activated is listed as available only when another file of
\* the source system was listed in that release.
ListedTruly ==
  connTable => \A i \in DOMAIN connRegistry : LET t == connRegistry[i]  item == connItems[t.source] IN
    item # NoItemOf =>
      LET w == connWrites[item.write] IN
      /\ ConnStatus(t) = "activated" /\ item.mapping # t.mapping =>
           \/ w.kind = "put" \/ w.from # connRelease
           \/ \E j \in 1..(i - 1) : connRegistry[j].source = t.source /\ connRegistry[j].id = t.id
      /\ ConnStatus(t) # "activated" /\ w.kind = "activation" =>
           \/ w.from # connRelease
           \/ \E j \in 1..(i - 1) : connRegistry[j].source = t.source /\ connRegistry[j].id # t.id

\* No event type that the list shows for an activated connector is one that the filter of
\* its webhook drops (a mapping put without an envelope has no filter and refuses all), and a type that passes unshown passes because the mapping
\* has no filter, or a list without types in it.
ShownTypesPass ==
  connTable => \A t \in Range(connRegistry) : ConnStatus(t) = "activated" =>
    LET m == InForce(t.source) IN
    /\ \A type \in EventTypesOf(t) : Passes(m, type)
    /\ \A type \in EventTypes \ EventTypesOf(t) : Passes(m, type) => ~m.typed \/ connItems[t.source].mapping.allowed \in {{}, NoList}

\* Of two deliveries of one object, to whichever webhooks and however the mappings changed in
\* between, both are accepted only if one was extracted by a mapping that takes no id
\* from the body.  The other side of it: a grade that follows its submission, or
\* an object of another system with the same number, is a duplicate and lost.
OncePerObject ==
  \A i, j \in DOMAIN connEvents : LET e == connEvents[i]  l == connEvents[j] IN
    i < j /\ e.event.object = l.event.object /\ e.answer = "accepted" /\ l.answer = "accepted" => ~(e.by.byId /\ l.by.byId)

\* What operators are shown of a connector is what its webhook does, under concurrent activations and
\* PUTs and after a release of the templates, and an object is ingested once.
ConnectorsAsShown ==
  /\ ConnTypeOK /\ VersionsBehind /\ ListedTruly /\ ShownTypesPass /\ OncePerObject
================================================================================
