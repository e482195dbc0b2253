----------------------------- MODULE AccessProofs -----------------------------
(***************************************************************************)
(* What an organisation's operators set, the routing of user types and the *)
(* connectors, and who may write from the dashboard: RoutesHaveCause,      *)
(* ConnectorsAsShown and AccessIsOfLogin, for every set of configurations, *)
(* templates, mappings and deliveries, and any number of operators,        *)
(* browsers, addresses, writes and restarts.                               *)
(*                                                                         *)
(* Of a write from the dashboard, the invariant says what each of the      *)
(* three that looked at its cookie, the gate, the API and the error page,  *)
(* found.  Of the limiter, that what it remembers of an address is what    *)
(* the last attempt from it left, and that of two failures with no login   *)
(* or restart between them the later is of the same window with a higher   *)
(* number, or of a window that started after the earlier one's was over.   *)
(***************************************************************************)
EXTENDS Routing, Connectors, Sessions, FiniteSetTheorems, TLAPS

\* Routing: what is cached, or was read and is to be, came from an item that was
\* written, or nothing usable was found for a reason.
AlwaysUsable == \A n \in DOMAIN routeWrites : Usable(routeWrites[n]) # NoConfig
PolicyStored == \E n \in DOMAIN routeWrites : routeWrites[n] = Active(PolicyDocument)
HasCause(entry, empty) ==
  /\ entry.config = NoConfig /\ entry # empty /\ AlwaysUsable => routeFailed
  /\ entry.config = PolicyDocument => PolicyStored

RouteInv ==
  /\ RoutesHaveCause
  /\ HasCause(routeCache, NoRoute)
  /\ routeRead.state = "answered" => HasCause(routeRead, NoRead)

\* Connectors: an item is what the last write of its source system made of it.
ItemsAreWritten ==
  \A s \in Sources : LET item == connItems[s] IN
    /\ item.write = 0 => item = NoItemOf
    /\ item.write # 0 =>
         /\ item.write \in DOMAIN connWrites
         /\ LET w == connWrites[item.write] IN
              /\ w.source = s /\ w.template = item.template /\ w.mapping = item.mapping
            /\ w.version = item.version

\* What was copied from a template is that of the first file of its release for the source system.
IsFirst(files, i) == \A j \in DOMAIN files : files[j].source = files[i].source => i <= j
CopiesAreOfTemplates ==
  \A k \in DOMAIN connWrites : LET w == connWrites[k]  files == Directories[w.from] IN
    w.kind = "activation" =>
      \E i \in DOMAIN files : /\ IsFirst(files, i) /\ files[i].source = w.source /\ ~files[i].stub
                              /\ w.template = files[i].id /\ w.mapping = files[i].mapping

\* A write replaces an earlier one, or none.
ReplacedAreWritten == \A k \in DOMAIN connWrites : connWrites[k].replaced \in 0..(k - 1)

\* Without the table nothing is activated; with it no item is lost, so that what an
\* activation found is replaced by it or by a write since.
FirstOf(files, source, t) ==
  \E i \in DOMAIN files : IsFirst(files, i) /\ files[i].source = source /\ t = files[i]
PendingAreOfTable ==
  \A a \in ConnAdmins : LET p == connPending[a] IN p # NotActivating =>
    /\ connTable /\ FirstOf(Directories[connRelease], p.source, p.template) /\ ~p.template.stub
    /\ p.found <= connItems[p.source].write
    /\ p.found = connItems[p.source].write => p.version = connItems[p.source].version

Items == [template : {"none"} \cup {t.id : t \in Templates}, mapping : ConnMappings, version : Nat, write : Nat]
Activations == [source : Sources, template : Templates, version : Nat, found : Nat]
Writes == [source : Sources, template : {"none"} \cup {t.id : t \in Templates}, mapping : ConnMappings, version : Nat,
           found : Nat, kind : {"put", "activation"}, replaced : Nat, from : DOMAIN Directories]
ConnAnswers == {"missing_envelope_mapping", "dropped", "envelope_extraction_failed", "forbidden", "invalid", "duplicate",
                "accepted"}
Events == [source : Sources, event : Deliveries, by : ConnMappings, answer : ConnAnswers]
ConnHeld ==
  /\ connItems \in [Sources -> Items]
  /\ connPending \in [ConnAdmins -> {NotActivating} \cup Activations]
  /\ connWrites \in Seq(Writes)
  /\ connEvents \in Seq(Events)

\* What the list shows follows from the rest.
ConnInv ==
  /\ ConnTypeOK /\ VersionsBehind /\ OncePerObject
  /\ ConnHeld /\ ItemsAreWritten /\ ReplacedAreWritten /\ CopiesAreOfTemplates /\ PendingAreOfTable
-------------------------------------------------------------------------------
\* A configuration is neither missing nor a policy.
LEMMA Configs ==
    /\ NoConfig \notin RoutingConfigs /\ PolicyDocument \notin RoutingConfigs /\ PolicyDocument # NoConfig
    /\ NoRoute.config = NoConfig /\ NoRoute \notin CachedRoutes /\ NoRead \notin AnsweredReads
    /\ NoRead.config = NoConfig /\ NoRead.state = "idle"
    /\ RoutingFiles \subseteq HeldRoutes \ {PolicyDocument}
    /\ NothingRouted \notin RouteAnswers /\ NothingRouted.by = "none" /\ NothingRouted.type = "none"
BY RoutingAssumption DEF NoConfig, PolicyDocument, NoRoute, NoRead, CachedRoutes, AnsweredReads, HeldRoutes, NothingRouted,
   RouteAnswers

\* An item that is read is held as a configuration or as the policy that it is, or not at all.
LEMMA Usables ==
    \A item \in RoutingItems :
       Usable(item) \in HeldRoutes /\ (Usable(item) = PolicyDocument => item = Active(PolicyDocument))
<1> SUFFICES ASSUME NEW item \in RoutingItems
             PROVE  Usable(item) \in HeldRoutes /\ (Usable(item) = PolicyDocument => item = Active(PolicyDocument))
  OBVIOUS
<1>1. CASE \E b \in RoutingConfigs \cup {PolicyDocument, NoObject} : item = Active(b)
  <2>1. PICK b \in RoutingConfigs \cup {PolicyDocument, NoObject} : item = Active(b)
    BY <1>1
  <2>2. item.status = "active" /\ item.body = b
    BY <2>1 DEF Active
  <2> QED
    BY <2>1, <2>2, Configs DEF Usable, HeldRoutes
<1>2. CASE (\E b \in RoutingConfigs : item = Disabled(b)) \/ item = Gone
  <2>1. item.status # "active"
    BY <1>2 DEF Disabled, Gone
  <2> QED
    BY <2>1, Configs DEF Usable, HeldRoutes
<1> QED
  BY <1>1, <1>2 DEF RoutingItems

\* What is held decides the kind of user; only a policy in its place throws.
LEMMA TypesOf ==
    ASSUME NEW config \in HeldRoutes, NEW system
    PROVE  /\ UserTypeOf(config, system) \in UserTypes
           /\ UserTypeOf(config, system) = "throws" => config = PolicyDocument
           /\ SummaryKey(config) \in UserTypes /\ SummaryKey(config) # "throws"
<1>0. "learner" \in UserTypes /\ "throws" \in UserTypes /\ "staff" # "throws" /\ "learner" # "throws"
  BY DEF UserTypes
<1>1. CASE config = NoConfig
  <2>1. config.kind = "none"
    BY <1>1 DEF NoConfig
  <2> QED
    BY <1>0, <1>1, <2>1 DEF UserTypeOf, SummaryKey
<1>2. CASE config = PolicyDocument
  <2>1. config.kind = "policy" /\ config # NoConfig
    BY <1>2, Configs DEF PolicyDocument
  <2> QED
    BY <1>0, <1>2, <2>1 DEF UserTypeOf, SummaryKey
<1>3. CASE config \in RoutingConfigs
  <2>1. /\ config.kind = "config" /\ config # NoConfig /\ config.default # "throws"
        /\ \A s \in DOMAIN config.map : config.map[s] # "throws"
    BY <1>3, Configs, RoutingAssumption
  <2>2. config.default \in UserTypes
    BY <1>3 DEF UserTypes
  <2>3. \A s \in DOMAIN config.map : config.map[s] \in UserTypes
    <3> SUFFICES ASSUME NEW s \in DOMAIN config.map PROVE config.map[s] \in MapTypes
      BY DEF UserTypes
    <3> DEFINE M(c) == {c.map[x] : x \in DOMAIN c.map}
    <3>1. config.map[s] \in M(config) /\ M(config) \in {M(c) : c \in RoutingConfigs}
      BY <1>3
    <3> QED
      BY <3>1 DEF MapTypes
  <2>4. SummaryKey(config) \in UserTypes /\ SummaryKey(config) # "throws"
    BY <1>0, <2>1, <2>2 DEF SummaryKey
  <2> QED
    BY <1>0, <2>1, <2>2, <2>3, <2>4 DEF UserTypeOf
<1> QED
  BY <1>1, <1>2, <1>3 DEF HeldRoutes

\* The first state satisfies the invariant.
LEMMA InitRoute == RouteInit => RouteInv
<1> SUFFICES ASSUME RouteInit PROVE RouteInv
  OBVIOUS
<1>1. PICK item \in RoutingItems : routeWrites = <<item>>
  BY DEF RouteInit
<1>2. RouteTypeOK
  <2>1. Len(routeWrites) = 1 /\ routeWrites \in Seq(RoutingItems)
    BY <1>1
  <2>2. 1 \in 1..MaxRoutingWrites
    BY RoutingAssumption
  <2> QED
    BY <2>1, <2>2 DEF RouteInit, RouteTypeOK
<1>3. FileHasCause /\ ThrowsByPolicyDocument
  BY Configs DEF RouteInit, FileHasCause, ThrowsByPolicyDocument
<1>4. HasCause(routeCache, NoRoute) /\ routeRead.state # "answered"
  BY Configs DEF RouteInit, HasCause
<1> QED
  BY <1>2, <1>3, <1>4 DEF RouteInv, RoutesHaveCause

\* What a configuration that is asked for answers, from the cache or the file.
LEMMA RoutedBy ==
    ASSUME RouteInv, NEW ask \in {"evaluation", "summary"}, NEW type,
           routed' = Routed(ask, type), LoadRouting,
           UNCHANGED <<routeWrites, routeFile, routeCache, routeFailed>>,
           \/ ask = "evaluation" /\ \E system : type = UserTypeOf(ConfigInUse, system)
           \/ ask = "summary" /\ type = SummaryKey(ConfigInUse)
    PROVE  RouteInv'
<1>1. RouteTypeOK
  BY DEF RouteInv, RoutesHaveCause
<1>2. routeCache.config \in HeldRoutes /\ routeFile \in HeldRoutes \ {PolicyDocument}
  BY <1>1, Configs DEF RouteTypeOK, CachedRoutes, HeldRoutes
<1>3. ConfigInUse \in HeldRoutes /\ (ConfigInUse = PolicyDocument => routeCache.config = PolicyDocument)
  BY <1>2 DEF ConfigInUse, CachedConfig
<1>4. /\ type \in UserTypes
      /\ type = "throws" => ask = "evaluation" /\ routeCache.config = PolicyDocument
  BY <1>3, TypesOf
<1>5. /\ routed'.ask = ask /\ routed'.type = type
      /\ routed'.cached <=> routeCache # NoRoute
      /\ routed'.by = IF routeCache.config # NoConfig THEN "table" ELSE "file"
      /\ routed' \in RouteAnswers
  BY <1>4 DEF Routed, CachedConfig, RouteAnswers
<1>6. routeRead' = routeRead \/ (routeRead' = [NoRead EXCEPT !.state = "sent"] /\ routeRead'.state = "sent")
  BY DEF LoadRouting, WarmRouting, NoRead
<1>7. RouteTypeOK'
  BY <1>1, <1>5, <1>6 DEF RouteTypeOK
<1>8. FileHasCause'
  BY <1>5 DEF FileHasCause, RouteInv, HasCause, AlwaysUsable
<1>9. ThrowsByPolicyDocument'
  BY <1>4, <1>5, Configs DEF ThrowsByPolicyDocument, RouteInv, HasCause, PolicyStored
<1>10. HasCause(routeCache, NoRoute)' /\ (routeRead.state = "answered" => HasCause(routeRead, NoRead))'
  BY <1>6 DEF RouteInv, HasCause, AlwaysUsable, PolicyStored
<1> QED
  BY <1>7, <1>8, <1>9, <1>10 DEF RouteInv, RoutesHaveCause

\* A write takes the place of no item that was written before.
LEMMA WritingRoute ==
    ASSUME RouteInv, NEW item \in RoutingItems, WriteRouting(item)
    PROVE  RouteInv'
<1>1. RouteTypeOK
  BY DEF RouteInv, RoutesHaveCause
<1>2. routeWrites \in Seq(RoutingItems)
  BY <1>1 DEF RouteTypeOK
<1>3. /\ routeWrites' \in Seq(RoutingItems) /\ Len(routeWrites') = Len(routeWrites) + 1
      /\ DOMAIN routeWrites \subseteq DOMAIN routeWrites'
      /\ \A n \in DOMAIN routeWrites : routeWrites'[n] = routeWrites[n]
  BY <1>2 DEF WriteRouting
<1>4. Len(routeWrites') \in 1..MaxRoutingWrites
  BY <1>1, <1>3, RoutingAssumption DEF RouteTypeOK, WriteRouting
<1>5. RouteTypeOK'
  BY <1>1, <1>3, <1>4 DEF RouteTypeOK, WriteRouting
<1>6. (AlwaysUsable' => AlwaysUsable) /\ (PolicyStored => PolicyStored')
  BY <1>3 DEF AlwaysUsable, PolicyStored
<1>7. UNCHANGED <<routeFile, routeCache, routeRead, routeFailed, routed>>
  BY DEF WriteRouting
<1>8. FileHasCause'
  BY <1>6, <1>7 DEF FileHasCause, AlwaysUsable, RouteInv, RoutesHaveCause
<1>9. ThrowsByPolicyDocument'
  BY <1>6, <1>7 DEF ThrowsByPolicyDocument, PolicyStored, RouteInv, RoutesHaveCause
<1> QED
  BY <1>5, <1>6, <1>7, <1>8, <1>9 DEF RouteInv, RoutesHaveCause, HasCause

\* A read finds an item that was written, of late or not.
LEMMA ReadingRoute ==
    ASSUME RouteInv, ReadRouting
    PROVE  RouteInv'
<1>1. RouteTypeOK
  BY DEF RouteInv, RoutesHaveCause
<1>2. PICK n \in DOMAIN routeWrites : routeRead' = [state |-> "answered", config |-> Usable(routeWrites[n])]
  <2>1. PICK item \in RecentItems : routeRead' = [state |-> "answered", config |-> Usable(item)]
    BY DEF ReadRouting
  <2>2. PICK n \in {Len(routeWrites), IF Len(routeWrites) > 1 THEN Len(routeWrites) - 1 ELSE 1} : item = routeWrites[n]
    BY <2>1 DEF RecentItems
  <2>3. n \in 1..Len(routeWrites)
    BY <1>1, <2>2 DEF RouteTypeOK
  <2>4. routeWrites \in Seq(RoutingItems)
    BY <1>1 DEF RouteTypeOK
  <2> QED
    BY <2>1, <2>2, <2>3, <2>4
<1>3. routeWrites[n] \in RoutingItems
  BY <1>1 DEF RouteTypeOK
<1>4. /\ routeRead' \in AnsweredReads /\ routeRead'.config = Usable(routeWrites[n])
      /\ UNCHANGED <<routeWrites, routeFile, routeCache, routeFailed, routed>>
  BY <1>2, <1>3, Usables DEF AnsweredReads, ReadRouting
<1>5. RouteTypeOK'
  BY <1>1, <1>4 DEF RouteTypeOK
<1>6. HasCause(routeRead, NoRead)'
  BY <1>3, <1>4, Usables DEF HasCause, AlwaysUsable, PolicyStored
<1>7. FileHasCause' /\ ThrowsByPolicyDocument' /\ HasCause(routeCache, NoRoute)'
  BY <1>4 DEF FileHasCause, ThrowsByPolicyDocument, HasCause, AlwaysUsable, PolicyStored, RouteInv, RoutesHaveCause
<1> QED
  BY <1>5, <1>6, <1>7 DEF RouteInv, RoutesHaveCause

\* A read that fails is the one cause of an answer without a configuration.
LEMMA FailingRoute ==
    ASSUME RouteInv, FailToRead
    PROVE  RouteInv'
<1>1. /\ routeRead' \in AnsweredReads /\ routeRead'.config = NoConfig /\ routeFailed'
      /\ UNCHANGED <<routeWrites, routeFile, routeCache, routed>>
  BY DEF FailToRead, AnsweredReads, HeldRoutes
<1>2. RouteTypeOK'
  BY <1>1 DEF RouteInv, RoutesHaveCause, RouteTypeOK, FailToRead
<1>3. FileHasCause' /\ ThrowsByPolicyDocument' /\ HasCause(routeCache, NoRoute)' /\ HasCause(routeRead, NoRead)'
  BY <1>1, Configs
  DEF FileHasCause, ThrowsByPolicyDocument, HasCause, AlwaysUsable, PolicyStored, RouteInv, RoutesHaveCause
<1> QED
  BY <1>2, <1>3 DEF RouteInv, RoutesHaveCause

\* What was answered is what is cached.
LEMMA KeepingRoute ==
    ASSUME RouteInv, KeepRouting
    PROVE  RouteInv'
<1>1. RouteTypeOK /\ routeRead \in AnsweredReads
  BY Configs DEF RouteInv, RoutesHaveCause, RouteTypeOK, KeepRouting, NoRead
<1>2. /\ routeCache' \in CachedRoutes /\ routeCache'.config = routeRead.config /\ routeRead' = NoRead
      /\ UNCHANGED <<routeWrites, routeFile, routeFailed, routed>>
  BY <1>1 DEF KeepRouting, CachedRoutes, AnsweredReads
<1>3. RouteTypeOK' /\ routeRead'.state # "answered"
  BY <1>1, <1>2, Configs DEF RouteTypeOK
<1>4. HasCause(routeRead, NoRead) /\ routeRead # NoRead
  BY <1>1, Configs DEF RouteInv, KeepRouting
<1>5. FileHasCause' /\ ThrowsByPolicyDocument' /\ HasCause(routeCache, NoRoute)'
  BY <1>2, <1>4
  DEF FileHasCause, ThrowsByPolicyDocument, HasCause, AlwaysUsable, PolicyStored, RouteInv, RoutesHaveCause
<1> QED
  BY <1>3, <1>5 DEF RouteInv, RoutesHaveCause

\* An entry that expires keeps its configuration.
LEMMA ExpiringRoute ==
    ASSUME RouteInv, ExpireRouting
    PROVE  RouteInv'
<1>1. RouteTypeOK /\ routeCache \in CachedRoutes
  BY Configs DEF RouteInv, RoutesHaveCause, RouteTypeOK, ExpireRouting, NoRoute
<1>2. /\ routeCache' \in CachedRoutes /\ routeCache'.config = routeCache.config
      /\ UNCHANGED <<routeWrites, routeFile, routeRead, routeFailed, routed>>
  BY <1>1 DEF ExpireRouting, CachedRoutes
<1>3. RouteTypeOK' /\ routeCache # NoRoute
  BY <1>1, <1>2, Configs DEF RouteTypeOK
<1>4. FileHasCause' /\ ThrowsByPolicyDocument' /\ HasCause(routeCache, NoRoute)'
  BY <1>2, <1>3
  DEF FileHasCause, ThrowsByPolicyDocument, HasCause, AlwaysUsable, PolicyStored, RouteInv, RoutesHaveCause
<1>5. (routeRead.state = "answered" => HasCause(routeRead, NoRead))'
  BY <1>2 DEF RouteInv, HasCause, AlwaysUsable, PolicyStored
<1> QED
  BY <1>3, <1>4, <1>5 DEF RouteInv, RoutesHaveCause

\* An instance that starts has cached nothing and answered nothing.
LEMMA RestartingRoute ==
    ASSUME RouteInv, RestartInstance
    PROVE  RouteInv'
<1>1. RouteTypeOK'
  BY DEF RouteInv, RoutesHaveCause, RouteTypeOK, RestartInstance
<1>2. FileHasCause' /\ ThrowsByPolicyDocument' /\ HasCause(routeCache, NoRoute)' /\ routeRead'.state # "answered"
  BY Configs DEF RestartInstance, FileHasCause, ThrowsByPolicyDocument, HasCause
<1> QED
  BY <1>1, <1>2 DEF RouteInv, RoutesHaveCause

\* Every step keeps the invariant.
LEMMA NextRoute == RouteInv /\ [RouteNext]_routeVars => RouteInv'
<1> SUFFICES ASSUME RouteInv, [RouteNext]_routeVars PROVE RouteInv'
  OBVIOUS
<1>1. CASE \E item \in RoutingItems : WriteRouting(item)
  BY <1>1, WritingRoute
<1>2. ASSUME NEW s \in Systems, ResolveUserType(s)
      PROVE  RouteInv'
  BY <1>2, RoutedBy DEF ResolveUserType
<1>3. CASE ResolveSummaryPolicy
  BY <1>3, RoutedBy DEF ResolveSummaryPolicy
<1>4. CASE ReadRouting
  BY <1>4, ReadingRoute
<1>5. CASE FailToRead
  BY <1>5, FailingRoute
<1>6. CASE KeepRouting
  BY <1>6, KeepingRoute
<1>7. CASE ExpireRouting
  BY <1>7, ExpiringRoute
<1>8. CASE RestartInstance
  BY <1>8, RestartingRoute
<1>9. CASE UNCHANGED routeVars
  BY <1>9 DEF routeVars, RouteInv, RoutesHaveCause, RouteTypeOK, FileHasCause, ThrowsByPolicyDocument, HasCause,
     AlwaysUsable, PolicyStored
<1> QED
  BY <1>1, <1>2, <1>3, <1>4, <1>5, <1>6, <1>7, <1>8, <1>9 DEF RouteNext

\* The user type of a signal is that of a configuration that was in force or is bundled; an
\* instance that has read the table falls back to the file, or throws, for a reason only
\* (RoutesHaveCause), for every set of configurations and any number of writes.
THEOREM RoutesAlwaysHaveCause == RouteSpec => []RoutesHaveCause
<1>1. RouteInv => RoutesHaveCause
  BY DEF RouteInv
<1> QED
  BY <1>1, InitRoute, NextRoute, PTL DEF RouteSpec
-------------------------------------------------------------------------------
\* getTemplate finds the first file of the source system.
LEMMA FirstTemplates ==
    ASSUME NEW source, NEW t
    PROVE  t \in TemplateOf(source) <=> FirstOf(Directories[connRelease], source, t)
BY DEF TemplateOf, IsFirst, FirstOf, connRegistry

\* A file of a release is a template, with a place among the files.
LEMMA Files ==
    ASSUME NEW r \in DOMAIN Directories
    PROVE  /\ DOMAIN Directories[r] = 1..Len(Directories[r]) /\ Len(Directories[r]) \in Nat
           /\ \A i \in DOMAIN Directories[r] : Directories[r][i] \in Templates /\ Directories[r][i].source \in Sources
<1>1. Directories[r] \in Seq(Templates)
  BY ConnectorsAssumption
<1> QED
  BY <1>1 DEF Sources

\* The empty item is one; its mapping has neither an envelope nor a filter.
LEMMA EmptyItem == NoMappingOf \in ConnMappings /\ NoItemOf \in Items /\ NoItemOf.write = 0 /\ NoItemOf.template = "none"
                   /\ NoItemOf.mapping.sound /\ NotActivating \notin Activations
<1>1. NoMappingOf \in ConnMappings
  BY DEF NoMappingOf, ConnMappings
<1>2. NoMappingOf.sound
  BY DEF NoMappingOf
<1> QED
  BY <1>1, <1>2 DEF NoItemOf, Items, NotActivating, Activations

\* What is parsed is a mapping again; on the table an empty list is no list.
LEMMA ParsedMappings ==
    ASSUME NEW m \in ConnMappings
    PROVE  /\ Parsed(m) \in ConnMappings
           /\ connTable => Parsed(m).allowed # {}
           /\ Parsed(m).typed = m.typed /\ Parsed(m).envelope = m.envelope
           /\ Parsed(m).allowed = m.allowed \/ (m.allowed = {} /\ Parsed(m).allowed = NoList)
<1>1. m \in [envelope : BOOLEAN, byId : BOOLEAN, typed : BOOLEAN, allowed : (SUBSET EventTypes) \cup {NoList},
             required : BOOLEAN, sound : BOOLEAN] /\ (m.typed => m.envelope)
  BY DEF ConnMappings
<1>2. NoList # {} /\ NoList \in (SUBSET EventTypes) \cup {NoList}
  BY DEF NoList
<1>3. [m EXCEPT !.allowed = NoList] \in ConnMappings
  BY <1>1, <1>2 DEF ConnMappings
<1> QED
  BY <1>1, <1>2, <1>3 DEF Parsed

\* Types are filtered only with an envelope, and the list of them is of event types.
LEMMA Filters ==
    ASSUME NEW m \in ConnMappings
    PROVE  /\ m.typed => m.envelope
           /\ m.allowed # NoList => m.allowed \subseteq EventTypes
BY DEF ConnMappings

\* ListedTruly follows from what was written and copied.
LEMMA Listing == ConnInv => ListedTruly
<1> SUFFICES ASSUME ConnInv, connTable, NEW i \in DOMAIN connRegistry,
                    connItems[connRegistry[i].source] # NoItemOf
             PROVE  LET t == connRegistry[i]  item == connItems[t.source]  w == connWrites[item.write] IN
                    /\ ConnStatus(t) = "activated" /\ item.mapping # t.mapping =>
                         \/ w.kind = "put" \/ w.from # connRelease
                         \/ \E j \in 1..(i - 1) : connRegistry[j].source = t.source /\ connRegistry[j].id = t.id
                    /\ ConnStatus(t) # "activated" /\ w.kind = "activation" =>
                         \/ w.from # connRelease
                         \/ \E j \in 1..(i - 1) : connRegistry[j].source = t.source /\ connRegistry[j].id # t.id
  BY DEF ListedTruly
<1> DEFINE t == connRegistry[i]  item == connItems[t.source]  w == connWrites[item.write]
<1>1. /\ connRelease \in DOMAIN Directories /\ connRegistry = Directories[connRelease]
      /\ t.source \in Sources /\ i \in Nat
      /\ \A j \in DOMAIN connRegistry : j \in Nat /\ j >= 1
  BY Files DEF ConnInv, ConnTypeOK, connRegistry
<1>2. /\ item.write \in DOMAIN connWrites /\ w.source = t.source /\ w.template = item.template /\ w.mapping = item.mapping
  BY <1>1 DEF ConnInv, ItemsAreWritten
<1>3. w.kind \in {"put", "activation"}
  <2>1. w \in Writes
    BY <1>2 DEF ConnInv, ConnHeld
  <2> QED
    BY <2>1 DEF Writes
<1>4. ConnStatus(t) = "activated" <=> item.template = t.id
  BY DEF ConnStatus
<1>5. ASSUME w.kind = "activation", w.from = connRelease
      PROVE  \E j \in DOMAIN connRegistry : /\ j = i \/ j \in 1..(i - 1)
                                            /\ connRegistry[j].source = t.source
                                            /\ item.template = connRegistry[j].id
                                            /\ item.mapping = connRegistry[j].mapping
  <2>1. PICK j \in DOMAIN connRegistry : /\ IsFirst(connRegistry, j) /\ connRegistry[j].source = w.source
                                         /\ w.template = connRegistry[j].id /\ w.mapping = connRegistry[j].mapping
    BY <1>1, <1>2, <1>5 DEF ConnInv, CopiesAreOfTemplates
  <2>2. j <= i
    BY <1>2, <2>1 DEF IsFirst
  <2>3. j = i \/ j \in 1..(i - 1)
    BY <1>1, <2>2
  <2> QED
    BY <1>2, <2>1, <2>3
<1> QED
  BY <1>3, <1>4, <1>5

\* ShownTypesPass follows from what a mapping is.
LEMMA Showing == ConnInv => ShownTypesPass
<1> SUFFICES ASSUME ConnInv, connTable, NEW t \in Range(connRegistry)
             PROVE  LET m == InForce(t.source) IN
                    /\ \A type \in EventTypesOf(t) : Passes(m, type)
                    /\ \A type \in EventTypes \ EventTypesOf(t) :
                          Passes(m, type) => ~m.typed \/ connItems[t.source].mapping.allowed \in {{}, NoList}
  BY DEF ShownTypesPass
<1> DEFINE m == InForce(t.source)
           put == connItems[t.source].mapping
<1>1. t \in Templates /\ t.source \in Sources
  BY DEF Templates, connRegistry, ConnInv, ConnTypeOK, Sources
<1>2. put \in ConnMappings
  BY <1>1 DEF ConnInv, ConnHeld, Items
<1>3. /\ m \in ConnMappings /\ m.allowed # {}
      /\ m.allowed = put.allowed \/ put.allowed = {}
  BY <1>2, ParsedMappings DEF InForce
<1>4. /\ m.typed => m.envelope
      /\ m.allowed # NoList => m.allowed \subseteq EventTypes
  BY <1>3, Filters
<1>5. NoType \notin t.defaults /\ NoType \notin EventTypes
  BY <1>1, ConnectorsAssumption
<1>6. EventTypesOf(t) = IF m.envelope /\ m.allowed # NoList THEN m.allowed ELSE t.defaults
  BY <1>3 DEF EventTypesOf
<1> HIDE DEF m, put
<1>7. \A type \in EventTypesOf(t) : Passes(m, type)
  BY <1>4, <1>5, <1>6 DEF Passes
<1>8. \A type \in EventTypes \ EventTypesOf(t) : Passes(m, type) => ~m.typed \/ put.allowed \in {{}, NoList}
  BY <1>3, <1>4, <1>6 DEF Passes
<1> QED
  BY <1>7, <1>8 DEF m, put

\* The first state satisfies the invariant.
LEMMA InitConn == ConnInit => ConnInv
<1> SUFFICES ASSUME ConnInit PROVE ConnInv
  OBVIOUS
<1>1. ConnHeld
  BY EmptyItem DEF ConnInit, ConnHeld
<1>2. ConnTypeOK
  <2>1. Len(connEvents) <= MaxDelivered
    BY ConnectorsAssumption DEF ConnInit
  <2> QED
    BY <2>1, EmptyItem DEF ConnInit, ConnTypeOK
<1>3. VersionsBehind /\ OncePerObject /\ CopiesAreOfTemplates /\ ReplacedAreWritten
  BY DEF ReplacedAreWritten, ConnInit, VersionsBehind, OncePerObject, CopiesAreOfTemplates
<1>4. ItemsAreWritten /\ PendingAreOfTable
  BY EmptyItem DEF ConnInit, ItemsAreWritten, PendingAreOfTable
<1> QED
  BY <1>1, <1>2, <1>3, <1>4 DEF ConnInv

\* A server that starts again keeps the items of the table, or none.
LEMMA Restarting ==
    ASSUME ConnInv, NEW r \in DOMAIN Directories, RestartServer(r)
    PROVE  ConnInv'
<1>1. /\ connRelease' = r /\ connPending' = [a \in ConnAdmins |-> NotActivating]
      /\ connTable' = connTable /\ connWrites' = connWrites /\ connEvents' = connEvents
      /\ connItems' = IF connTable THEN connItems ELSE [s \in Sources |-> NoItemOf]
  BY DEF RestartServer
<1>2. ConnHeld'
  BY <1>1, EmptyItem DEF ConnInv, ConnHeld
<1>3. ConnTypeOK'
  BY <1>1, EmptyItem DEF ConnInv, ConnTypeOK
<1>4. VersionsBehind' /\ OncePerObject' /\ CopiesAreOfTemplates' /\ ReplacedAreWritten'
  BY <1>1 DEF ConnInv, ReplacedAreWritten, VersionsBehind, OncePerObject, CopiesAreOfTemplates
<1>5. ItemsAreWritten'
  BY <1>1, EmptyItem DEF ConnInv, ItemsAreWritten
<1>6. PendingAreOfTable'
  BY <1>1 DEF PendingAreOfTable
<1> QED
  BY <1>2, <1>3, <1>4, <1>5, <1>6 DEF ConnInv

\* An activation finds the item as it is, and the first template of the source system.
LEMMA Starting ==
    ASSUME ConnInv, NEW a \in ConnAdmins, NEW source \in Sources, NEW force, StartActivation(a, source, force)
    PROVE  ConnInv'
<1>1. PICK t \in TemplateOf(source) :
        /\ ~t.stub
        /\ connPending' = [connPending EXCEPT ![a] =
             [source |-> source, template |-> t, version |-> connItems[source].version,
              found |-> connItems[source].write]]
  BY DEF StartActivation
<1>2. /\ connTable
      /\ UNCHANGED <<connTable, connRelease, connItems, connWrites, connEvents>>
  BY DEF StartActivation
<1> DEFINE p == [source |-> source, template |-> t, version |-> connItems[source].version,
                 found |-> connItems[source].write]
<1>3. t \in Templates
  BY FirstTemplates, Files DEF FirstOf, ConnInv, ConnTypeOK
<1>4. p \in Activations /\ connItems[source].write \in Nat
  BY <1>3 DEF ConnInv, ConnHeld, Items, Activations
<1>5. p.source = source /\ p.template = t /\ p.version = connItems[source].version /\ p.found = connItems[source].write
  OBVIOUS
<1>6. \A b \in ConnAdmins : connPending'[b] = IF b = a THEN p ELSE connPending[b]
  BY <1>1 DEF ConnInv, ConnHeld
<1>7. connPending' \in [ConnAdmins -> {NotActivating} \cup Activations]
  BY <1>1, <1>4 DEF ConnInv, ConnHeld
<1> HIDE DEF p
<1>8. ConnHeld'
  BY <1>2, <1>7 DEF ConnInv, ConnHeld
<1>9. ConnTypeOK' /\ VersionsBehind' /\ OncePerObject' /\ CopiesAreOfTemplates' /\ ReplacedAreWritten' /\ ItemsAreWritten'
  BY <1>2 DEF ConnInv, ReplacedAreWritten, ConnTypeOK, VersionsBehind, OncePerObject, CopiesAreOfTemplates, ItemsAreWritten
<1>10. PendingAreOfTable'
  <2> SUFFICES ASSUME NEW b \in ConnAdmins, connPending'[b] # NotActivating
               PROVE  LET q == connPending'[b] IN
                      /\ connTable' /\ FirstOf(Directories[connRelease], q.source, q.template) /\ ~q.template.stub
                      /\ q.found <= connItems'[q.source].write
                      /\ q.found = connItems'[q.source].write => q.version = connItems'[q.source].version
    BY <1>2 DEF PendingAreOfTable
  <2>2. CASE b = a
    BY <1>1, <1>2, <1>4, <1>5, <1>6, <2>2, FirstTemplates
  <2>3. CASE b # a
    BY <1>2, <1>6, <2>3 DEF ConnInv, PendingAreOfTable
  <2> QED
    BY <2>2, <2>3
<1> QED
  BY <1>8, <1>9, <1>10 DEF ConnInv

\* What an item is replaced with, by an activation or a PUT, it holds; the version grows if
\* it was found as it still is.
LEMMA Replacing ==
    ASSUME ConnInv, NEW source \in Sources, NEW template \in {"none"} \cup {t.id : t \in Templates},
           NEW mapping \in ConnMappings, NEW version \in Nat, NEW found \in Nat, NEW kind \in {"put", "activation"},
           Write(source, template, mapping, version, found, kind),
           UNCHANGED <<connTable, connRelease, connEvents>>,
           template # "none" => connTable, mapping.sound \/ template # "none",
           kind = "activation" => /\ found <= connItems[source].write
                                  /\ found = connItems[source].write => version = connItems[source].version + 1
                                  /\ \E t \in TemplateOf(source) : ~t.stub /\ template = t.id /\ mapping = t.mapping,
           connPending' \in [ConnAdmins -> {NotActivating} \cup Activations],
           \A a \in ConnAdmins : connPending'[a] \in {connPending[a], NotActivating}
    PROVE  ConnInv'
<1> DEFINE n == Len(connWrites) + 1
           item == [template |-> template, mapping |-> mapping, version |-> version, write |-> n]
           w == [source |-> source, template |-> template, mapping |-> mapping, version |-> version, found |-> found,
                 kind |-> kind, replaced |-> connItems[source].write, from |-> connRelease]
<1>1. /\ connItems' = [connItems EXCEPT ![source] = item]
      /\ connWrites' = Append(connWrites, w)
  BY DEF Write
<1>2. /\ connItems \in [Sources -> Items] /\ connWrites \in Seq(Writes) /\ connRelease \in DOMAIN Directories
      /\ \A s \in Sources : connItems[s].write \in Nat /\ connItems[s].version \in Nat
  BY DEF ConnInv, ConnHeld, ConnTypeOK, Items
<1>3. n \in Nat /\ n # 0 /\ DOMAIN connWrites = 1..(n - 1)
  BY <1>2
<1>4. item \in Items /\ w \in Writes
  BY <1>2, <1>3 DEF Items, Writes
<1>5. /\ item.template = template /\ item.mapping = mapping /\ item.version = version /\ item.write = n
      /\ w.source = source /\ w.template = template /\ w.mapping = mapping /\ w.version = version /\ w.found = found
      /\ w.kind = kind /\ w.replaced = connItems[source].write /\ w.from = connRelease
  OBVIOUS
<1> HIDE DEF item, w
<1>6. /\ connItems' \in [Sources -> Items]
      /\ \A s \in Sources : connItems'[s] = IF s = source THEN item ELSE connItems[s]
  BY <1>1, <1>2, <1>4
<1>7. /\ connWrites' \in Seq(Writes) /\ DOMAIN connWrites' = 1..n /\ connWrites'[n] = w
      /\ \A k \in 1..(n - 1) : connWrites'[k] = connWrites[k]
  BY <1>1, <1>2, <1>3, <1>4
<1>8. ConnHeld'
  BY <1>6, <1>7 DEF ConnInv, ConnHeld
<1>9. ConnTypeOK'
  BY <1>5, <1>6 DEF ConnInv, ConnTypeOK
<1>10. OncePerObject'
  BY DEF ConnInv, OncePerObject
<1> HIDE DEF n
<1>11. ItemsAreWritten'
  <2> SUFFICES ASSUME NEW s \in Sources
               PROVE  LET i == connItems'[s] IN
                      /\ i.write = 0 => i = NoItemOf
                      /\ i.write # 0 =>
                           /\ i.write \in DOMAIN connWrites'
                           /\ LET v == connWrites'[i.write] IN
                                v.source = s /\ v.template = i.template /\ v.mapping = i.mapping /\ v.version = i.version
    BY DEF ItemsAreWritten
  <2>1. CASE s = source
    BY <1>3, <1>5, <1>6, <1>7, <2>1
  <2>2. CASE s # source
    <3>1. connItems'[s] = connItems[s]
      BY <1>6, <2>2
    <3>2. ASSUME connItems[s].write # 0
          PROVE  connItems[s].write \in 1..(n - 1) /\ connWrites'[connItems[s].write] = connWrites[connItems[s].write]
      BY <1>3, <1>7, <3>2 DEF ConnInv, ItemsAreWritten
    <3> QED
      BY <1>3, <1>7, <3>1, <3>2 DEF ConnInv, ItemsAreWritten
  <2> QED
    BY <2>1, <2>2
<1>12. connItems[source].write \in 0..(n - 1) /\ \A s \in Sources : connItems[s].write < n
  BY <1>2, <1>3 DEF ConnInv, ItemsAreWritten
<1>13. ReplacedAreWritten'
  <2> SUFFICES ASSUME NEW k \in 1..n PROVE connWrites'[k].replaced \in 0..(k - 1)
    BY <1>7 DEF ReplacedAreWritten
  <2>1. CASE k = n
    BY <1>5, <1>7, <1>12, <2>1
  <2>2. CASE k \in 1..(n - 1)
    BY <1>3, <1>7, <2>2 DEF ConnInv, ReplacedAreWritten
  <2> QED
    BY <1>3, <2>1, <2>2
<1>14. VersionsBehind'
  <2> SUFFICES ASSUME NEW k \in 1..n, connWrites'[k].replaced > 0,
                      connWrites'[k].version <= connWrites'[connWrites'[k].replaced].version
               PROVE  connWrites'[k].kind = "put" \/ connWrites'[k].found < connWrites'[k].replaced
    BY <1>7 DEF VersionsBehind
  <2>1. CASE k = n
    <3>1. connWrites'[k] = w /\ w.replaced \in 1..(n - 1) /\ connWrites'[w.replaced] = connWrites[w.replaced]
      BY <1>5, <1>7, <1>12, <2>1
    <3>2. connWrites[w.replaced].version = connItems[source].version
      BY <1>5, <3>1 DEF ConnInv, ItemsAreWritten
    <3>3. version <= connItems[source].version
      BY <1>5, <3>1, <3>2
    <3>4. kind = "activation" => found # connItems[source].write
      BY <1>2, <3>3
    <3> QED
      BY <1>2, <1>5, <3>1, <3>4
  <2>2. CASE k \in 1..(n - 1)
    <3>1. connWrites'[k] = connWrites[k] /\ k \in DOMAIN connWrites
      BY <1>3, <1>7, <2>2
    <3>2. connWrites[k].replaced \in 1..(n - 1)
      BY <1>3, <3>1, <2>2 DEF ConnInv, ReplacedAreWritten
    <3> QED
      BY <1>7, <3>1, <3>2 DEF ConnInv, VersionsBehind
  <2> QED
    BY <1>3, <2>1, <2>2
<1>15. CopiesAreOfTemplates'
  <2> SUFFICES ASSUME NEW k \in 1..n, connWrites'[k].kind = "activation"
               PROVE  LET v == connWrites'[k]  files == Directories[v.from] IN
                      \E i \in DOMAIN files : /\ IsFirst(files, i) /\ files[i].source = v.source /\ ~files[i].stub
                                              /\ v.template = files[i].id /\ v.mapping = files[i].mapping
    BY <1>7 DEF CopiesAreOfTemplates
  <2>1. CASE k = n
    BY <1>5, <1>7, <2>1, FirstTemplates DEF FirstOf
  <2>2. CASE k \in 1..(n - 1)
    BY <1>3, <1>7, <2>2 DEF ConnInv, CopiesAreOfTemplates
  <2> QED
    BY <1>3, <2>1, <2>2
<1>16. PendingAreOfTable'
  <2> SUFFICES ASSUME NEW b \in ConnAdmins, connPending'[b] # NotActivating
               PROVE  LET q == connPending'[b] IN
                      /\ connTable' /\ FirstOf(Directories[connRelease], q.source, q.template) /\ ~q.template.stub
                      /\ q.found <= connItems'[q.source].write
                      /\ q.found = connItems'[q.source].write => q.version = connItems'[q.source].version
    BY DEF PendingAreOfTable
  <2> DEFINE q == connPending[b]
  <2>1. connPending'[b] = q /\ q # NotActivating
    OBVIOUS
  <2>2. q \in Activations
    BY <2>1 DEF ConnInv, ConnHeld
  <2>3. q.source \in Sources /\ q.found \in Nat
    BY <2>2 DEF Activations
  <2>4. /\ connTable /\ FirstOf(Directories[connRelease], q.source, q.template) /\ ~q.template.stub
        /\ q.found <= connItems[q.source].write
        /\ q.found = connItems[q.source].write => q.version = connItems[q.source].version
    BY <2>1 DEF ConnInv, PendingAreOfTable
  <2> HIDE DEF q
  <2>6. CASE q.source = source
    <3>1. connItems'[q.source].write = n /\ q.found < n
      BY <1>2, <1>3, <1>5, <1>6, <1>12, <2>3, <2>4, <2>6
    <3> QED
      BY <1>3, <2>1, <2>3, <2>4, <3>1
  <2>7. CASE q.source # source
    BY <1>6, <2>1, <2>3, <2>4, <2>7
  <2> QED
    BY <2>6, <2>7
<1> QED
  BY <1>8, <1>9, <1>10, <1>11, <1>13, <1>14, <1>15, <1>16 DEF ConnInv

\* An activation copies its template over whatever the item has become.
LEMMA Activating ==
    ASSUME ConnInv, NEW a \in ConnAdmins, PutActivation(a)
    PROVE  ConnInv'
<1> DEFINE p == connPending[a]
<1>1. /\ p # NotActivating
      /\ Write(p.source, p.template.id, p.template.mapping, p.version + 1, p.found, "activation")
      /\ connPending' = [connPending EXCEPT ![a] = NotActivating]
      /\ UNCHANGED <<connTable, connRelease, connEvents>>
  BY DEF PutActivation
<1>2. /\ connPending \in [ConnAdmins -> {NotActivating} \cup Activations] /\ p \in Activations
  BY <1>1 DEF ConnInv, ConnHeld
<1>3. p.source \in Sources /\ p.template \in Templates /\ p.version \in Nat /\ p.found \in Nat
  BY <1>2 DEF Activations
<1>4. /\ connTable /\ FirstOf(Directories[connRelease], p.source, p.template) /\ ~p.template.stub
      /\ p.found <= connItems[p.source].write
      /\ p.found = connItems[p.source].write => p.version = connItems[p.source].version
  BY <1>1 DEF ConnInv, PendingAreOfTable
<1>5. p.template.mapping \in ConnMappings /\ p.template.id # "none" /\ p.template.id \in {t.id : t \in Templates}
  BY <1>3, <1>4, ConnectorsAssumption
<1>6. p.template \in TemplateOf(p.source)
  BY <1>4, FirstTemplates
<1>7. /\ connPending' \in [ConnAdmins -> {NotActivating} \cup Activations]
      /\ \A b \in ConnAdmins : connPending'[b] \in {connPending[b], NotActivating}
  BY <1>1, <1>2
<1> HIDE DEF p
<1>8. p.version + 1 \in Nat
  BY <1>3
<1> QED
  BY <1>1, <1>3, <1>4, <1>5, <1>6, <1>7, <1>8, Replacing

\* A PUT replaces the item with a mapping that was validated.
LEMMA PuttingMapping ==
    ASSUME ConnInv, NEW source \in Sources, NEW m \in PutBodies, NEW template \in {"none"} \cup {t.id : t \in Templates},
           PutConnectorMapping(source, m, template)
    PROVE  ConnInv'
<1> DEFINE id == IF connTable THEN template ELSE "none"
<1>1. /\ Write(source, id, m, 1, connItems[source].write, "put")
      /\ UNCHANGED <<connTable, connRelease, connPending, connEvents>>
  BY DEF PutConnectorMapping
<1>2. connItems[source].write \in Nat /\ connPending \in [ConnAdmins -> {NotActivating} \cup Activations]
  BY DEF ConnInv, ConnHeld, Items
<1>3. m \in ConnMappings /\ m.sound
  BY ConnectorsAssumption
<1>4. id \in {"none"} \cup {t.id : t \in Templates} /\ (id # "none" => connTable)
  OBVIOUS
<1> HIDE DEF id
<1>5. "put" \in {"put", "activation"} /\ "put" # "activation" /\ 1 \in Nat
  OBVIOUS
<1>6. /\ connPending' \in [ConnAdmins -> {NotActivating} \cup Activations]
      /\ \A b \in ConnAdmins : connPending'[b] \in {connPending[b], NotActivating}
  BY <1>1, <1>2
<1> QED
  BY <1>1, <1>2, <1>3, <1>4, <1>5, <1>6, Replacing

\* A delivery is accepted under the id of its object only while none was.
LEMMA Answering ==
    ASSUME NEW e, NEW m, NEW source, m.envelope \in BOOLEAN
    PROVE  /\ AnswerTo(e, m, source) \in ConnAnswers
           /\ AnswerTo(e, m, source) = "accepted" => ~(m.byId /\ Known(e.object, source))
<1>1. CASE ~m.envelope
  <2>1. AnswerTo(e, m, source) = "missing_envelope_mapping"
    BY <1>1 DEF AnswerTo
  <2> QED
    BY <2>1 DEF ConnAnswers
<1>2. CASE m.envelope /\ ~Passes(m, e.type)
  <2>1. AnswerTo(e, m, source) = "dropped"
    BY <1>2 DEF AnswerTo
  <2> QED
    BY <2>1 DEF ConnAnswers
<1>3. CASE m.envelope /\ Passes(m, e.type)
  <2>1. AnswerTo(e, m, source) \in ConnAnswers
    BY <1>3 DEF AnswerTo, ConnAnswers
  <2>2. m.byId /\ Known(e.object, source) => AnswerTo(e, m, source) # "accepted"
    BY <1>3 DEF AnswerTo
  <2> QED
    BY <2>1, <2>2
<1> QED
  BY <1>1, <1>2, <1>3

\* Its delivery is the first that is accepted under the id of its object, however the
\* mappings changed.
LEMMA Delivering ==
    ASSUME ConnInv, NEW source \in Sources, NEW e \in Deliveries, DeliverWebhook(source, e)
    PROVE  ConnInv'
<1> DEFINE m == InForce(source)
           l == [source |-> source, event |-> e, by |-> m, answer |-> AnswerTo(e, m, source)]
           n == Len(connEvents) + 1
<1>1. /\ connEvents' = Append(connEvents, l) /\ Len(connEvents) < MaxDelivered
      /\ UNCHANGED <<connTable, connRelease, connItems, connPending, connWrites>>
  BY DEF DeliverWebhook
<1>2. m \in ConnMappings
  <2>1. connItems[source].mapping \in ConnMappings
    BY DEF ConnInv, ConnHeld, Items
  <2> QED
    BY <2>1, ParsedMappings DEF InForce
<1>3. /\ AnswerTo(e, m, source) \in ConnAnswers
      /\ AnswerTo(e, m, source) = "accepted" => ~(m.byId /\ Known(e.object, source))
  <2>1. m.envelope \in BOOLEAN
    BY <1>2 DEF ConnMappings
  <2> QED
    BY <2>1, Answering
<1>4. /\ l \in Events /\ l.event = e /\ l.by = m /\ l.answer = AnswerTo(e, m, source)
  <2> HIDE DEF m
  <2> QED
    BY <1>2, <1>3 DEF Events
<1> HIDE DEF l, m
<1>5. connEvents \in Seq(Events)
  BY DEF ConnInv, ConnHeld
<1>6. /\ connEvents' \in Seq(Events) /\ n \in Nat /\ Len(connEvents') = n /\ DOMAIN connEvents' = 1..n
      /\ connEvents'[n] = l /\ DOMAIN connEvents = 1..(n - 1)
      /\ \A k \in 1..(n - 1) : connEvents'[k] = connEvents[k]
  BY <1>1, <1>4, <1>5
<1>7. Len(connEvents') <= MaxDelivered
  BY <1>1, <1>5, <1>6, ConnectorsAssumption
<1>8. ConnHeld' /\ ConnTypeOK'
  BY <1>1, <1>6, <1>7 DEF ConnInv, ConnHeld, ConnTypeOK
<1> HIDE DEF n
<1>9. VersionsBehind' /\ CopiesAreOfTemplates' /\ ReplacedAreWritten' /\ ItemsAreWritten' /\ PendingAreOfTable'
  BY <1>1 DEF ConnInv, VersionsBehind, CopiesAreOfTemplates, ReplacedAreWritten, ItemsAreWritten, PendingAreOfTable
<1>10. OncePerObject'
  <2> SUFFICES ASSUME NEW i \in 1..n, NEW j \in 1..n, i < j,
                      connEvents'[i].event.object = connEvents'[j].event.object,
                      connEvents'[i].answer = "accepted", connEvents'[j].answer = "accepted",
                      connEvents'[i].by.byId, connEvents'[j].by.byId
               PROVE  FALSE
    BY <1>6 DEF OncePerObject
  <2>1. i \in 1..(n - 1) /\ connEvents'[i] = connEvents[i] /\ i \in DOMAIN connEvents
    BY <1>6
  <2>2. CASE j = n
    <3>1. Known(e.object, source)
      BY <1>4, <1>6, <2>1, <2>2 DEF Known
    <3> QED
      BY <1>3, <1>4, <1>6, <2>2, <3>1
  <2>3. CASE j \in 1..(n - 1)
    BY <1>6, <2>1, <2>3 DEF ConnInv, OncePerObject
  <2> QED
    BY <1>6, <2>2, <2>3
<1> QED
  BY <1>8, <1>9, <1>10 DEF ConnInv

\* Every step keeps the invariant.
LEMMA NextConn == ConnInv /\ [ConnNext]_connVars => ConnInv'
<1> SUFFICES ASSUME ConnInv, [ConnNext]_connVars PROVE ConnInv'
  OBVIOUS
<1>1. CASE \E r \in DOMAIN Directories : RestartServer(r)
  BY <1>1, Restarting
<1>2. ASSUME NEW s \in Sources, NEW a \in ConnAdmins, NEW force \in BOOLEAN, StartActivation(a, s, force)
      PROVE  ConnInv'
  <2>1. PICK f \in BOOLEAN : StartActivation(a, s, f)
    BY <1>2, Zenon
  <2> QED
    BY <2>1, Starting
<1>3. ASSUME NEW s \in Sources, NEW m \in PutBodies, NEW t \in Templates, NEW id \in {t.id, "none"},
             PutConnectorMapping(s, m, id)
      PROVE  ConnInv'
  <2>1. id \in {"none"} \cup {u.id : u \in Templates}
    OBVIOUS
  <2> QED
    BY <1>3, <2>1, PuttingMapping
<1>4. ASSUME NEW s \in Sources, NEW e \in Deliveries, DeliverWebhook(s, e)
      PROVE  ConnInv'
  BY <1>4, Delivering
<1>5. CASE \E a \in ConnAdmins : PutActivation(a)
  BY <1>5, Activating
<1>6. CASE UNCHANGED connVars
  BY <1>6 DEF connVars, ConnInv, ConnHeld, ConnTypeOK, VersionsBehind, CopiesAreOfTemplates, ReplacedAreWritten,
     ItemsAreWritten, PendingAreOfTable, OncePerObject
<1> QED
  BY <1>1, <1>2, <1>3, <1>4, <1>5, <1>6 DEF ConnNext

\* What operators are shown of a connector is what its webhook does, and an object is ingested
\* once (ConnectorsAsShown), for every set of releases, mappings and deliveries, and any
\* number of operators at work at the same time.
THEOREM ConnectorsAlwaysAsShown == ConnSpec => []ConnectorsAsShown
<1>1. ConnInv => ConnectorsAsShown
  BY Listing, Showing DEF ConnInv, ConnectorsAsShown
<1> QED
  BY <1>1, InitConn, NextConn, PTL DEF ConnSpec

--------------------------------------------------------------------------------
\* The sessions.
Dates == [exp : Nat, secret : Secrets]
Cookies == {NoCookie} \cup Dates
Empty(jar) == \A n \in CookieNames : jar[n] = NoCookie

\* The cookie is one that the browser was given at a login, or none.
Issued(history, b, cookie) ==
  cookie = NoCookie \/ \E l \in history : l.browser = b /\ l.cookie = cookie

Logins == [browser : Browsers, at : Nat, cookie : Dates]
LoginsSound ==
  /\ logins \subseteq Logins
  /\ \A l \in logins : l.at \in 1..clock /\ l.cookie.exp = l.at + Ttl

\* Who never logged in, or is logged out, has no cookie.
JarsSound ==
  \A b \in Browsers :
    /\ jars[b] \in [CookieNames -> Cookies]
    /\ \A n \in CookieNames : Issued(logins, b, jars[b][n])
    /\ visits[b] \in {"never", "out"} => Empty(jars[b])

Results == {"none", "stored", "session", "configuration", "access"}
Calls ==
  [browser : Browsers, jar : [CookieNames -> Cookies], since : {"never", "in", "out", "out_plain"},
   stage : {"sent", "through", "answered"},
   shown : {"none", "saved", "sign_in", "configuration", "no_access", "unreachable", "generic"},
   passed : {"none", "open", "checked"}, dash : STRING \cup {"none"}, passedAt : Nat, cookie : Cookies,
   result : Results, session : Cookies, api : STRING \cup {"none"}, at : Nat]

\* The browser sent what it had.
SentTruly(c, history) ==
  /\ c.since \in {"never", "out"} => Empty(c.jar)
  /\ \A n \in CookieNames : Issued(history, c.browser, c.jar[n])
  /\ Issued(history, c.browser, c.cookie)

\* What the gate found, what the API found, and what is shown of it.
GateTruly(c) ==
  /\ c.stage = "sent" => c.passed = "none" /\ c.result = "none"
  /\ c.passed = "checked" =>
       /\ c.dash \in Secrets /\ c.cookie.secret = c.dash /\ c.passedAt < c.cookie.exp
       /\ c.since \in {"in", "out_plain"}
ApiTruly(c) ==
  /\ c.result = "stored" => c.session # NoCookie
  /\ c.session # NoCookie =>
       /\ c.result = "stored" /\ c.session = c.cookie /\ c.cookie.secret = c.api /\ c.at < c.cookie.exp
  /\ c.result = "session" => c.cookie.secret # c.api \/ c.cookie.exp <= c.at
  /\ c.result = "configuration" => ~ConfigSound(c.api)
ShownTruly(c) ==
  /\ c.shown # "none" <=> c.stage = "answered"
  /\ c.shown = "saved" => c.result = "stored"
  /\ c.shown = "sign_in" => c.result = "session"
  /\ c.shown = "configuration" => c.result = "configuration"
  /\ c.shown = "generic" =>
       c.passed = "none" /\ (~ConfigSound(c.dash) \/ c.cookie.secret # c.dash \/ c.cookie.exp <= c.passedAt)

CallSound(c, history) ==
  c \in Calls /\ SentTruly(c, history) /\ GateTruly(c) /\ ApiTruly(c) /\ ShownTruly(c)

CallsSound ==
  /\ calls \in Seq(Calls)
  /\ \A i \in DOMAIN calls : CallSound(calls[i], logins)
-------------------------------------------------------------------------------
Failed == {"wrong", "blocked"}
Entries == [count : Nat, start : Nat]
Attempts ==
  [address : Addresses \cup {"all"}, at : Nat, answer : {"in", "restart"} \cup Failed, retry : Nat,
   entry : Entries]
Touches(t, a) == t.address \in {a, "all"}

\* A failure is one of its window, the first of which starts it.
AttemptSound(t) ==
  /\ t \in Attempts /\ (t.address = "all" <=> t.answer = "restart")
  /\ t.answer \notin Failed => t.entry = NoFailures
  /\ t.answer \in Failed =>
       /\ t.entry.count # 0 /\ t.entry.start <= t.at /\ t.at <= t.entry.start + LoginWindow
       /\ t.entry.count = 1 => t.entry.start = t.at
       /\ t.answer = "blocked" <=> t.entry.count > MaxFailures
       /\ t.answer = "blocked" => t.entry.start + LoginWindow <= t.at + t.retry

\* What an address has failed is remembered since the last attempt that touched it.
IsLast(A, a, k) == Touches(A[k], a) /\ \A l \in DOMAIN A : l > k => ~Touches(A[l], a)
RemembersLast(A, L) ==
  \A a \in Addresses :
    \/ L[a] = NoFailures /\ \A k \in DOMAIN A : ~Touches(A[k], a)
    \/ \E k \in DOMAIN A : IsLast(A, a, k) /\ L[a] = A[k].entry

\* The later of two failures goes on counting, or began to count after the earlier's window.
Follows(t, u) ==
  \/ t.entry.start = u.entry.start /\ t.entry.count < u.entry.count
  \/ u.entry.start > t.entry.start + LoginWindow
OnlyFailed(A, k, l, a) == \A m \in k..l : Touches(A[m], a) => A[m].answer \in Failed
FailuresFollow(A) ==
  \A k, l \in DOMAIN A :
    k < l /\ A[k].address = A[l].address /\ OnlyFailed(A, k, l, A[k].address) => Follows(A[k], A[l])

RetriesHold(A) ==
  \A i, j \in DOMAIN A :
    i < j /\ A[i].answer = "blocked" /\ A[j].address = A[i].address
      /\ A[j].at > A[i].at + A[i].retry
      /\ (\A k \in (i + 1)..(j - 1) : A[k].address # A[i].address)
    => A[j].answer # "blocked"

AttemptsSound(A, T) ==
  /\ A \in Seq(Attempts) /\ \A k \in DOMAIN A : AttemptSound(A[k]) /\ A[k].at <= T
  /\ \A k, l \in DOMAIN A : k < l => A[k].at <= A[l].at
LimiterSound(A, L, T) ==
  /\ L \in [Addresses -> Entries]
  /\ \A a \in Addresses : L[a].start <= T /\ L[a].count <= Len(A) /\ L[a].count <= MaxAttempts
  /\ AttemptsSound(A, T) /\ RemembersLast(A, L) /\ FailuresFollow(A) /\ RetriesHold(A)

AccessInv ==
  /\ clock \in 1..MaxClock /\ conf \in Deployments
  /\ visits \in [Browsers -> {"never", "in", "out", "out_plain"}]
  /\ DOMAIN jars = Browsers
  /\ LoginsSound /\ JarsSound /\ CallsSound
  /\ LimiterSound(attempts, limiter, clock)
-------------------------------------------------------------------------------
\* What was appended is last, and the rest stays.
LEMMA Appended ==
    ASSUME NEW S, NEW A \in Seq(S), NEW t \in S
    PROVE  /\ Append(A, t) \in Seq(S) /\ Len(A) \in Nat /\ DOMAIN A = 1..Len(A)
           /\ DOMAIN Append(A, t) = 1..(Len(A) + 1) /\ Len(Append(A, t)) = Len(A) + 1
           /\ \A k \in DOMAIN A : Append(A, t)[k] = A[k]
           /\ Append(A, t)[Len(A) + 1] = t
  OBVIOUS

\* The last attempt is the one that touches its address last, and is in its order.
LEMMA AppendedKeeps ==
    ASSUME NEW A, NEW T \in Nat, AttemptsSound(A, T), NEW t, AttemptSound(t), t.at = T
    PROVE  AttemptsSound(Append(A, t), T)
<1>1. A \in Seq(Attempts) /\ t \in Attempts
  BY DEF AttemptsSound, AttemptSound
<1> DEFINE B == Append(A, t)  n == Len(A)
<1>2. /\ B \in Seq(Attempts) /\ n \in Nat /\ DOMAIN A = 1..n /\ DOMAIN B = 1..(n + 1)
      /\ \A k \in DOMAIN A : B[k] = A[k]
      /\ B[n + 1] = t
  BY <1>1, Appended
<1> HIDE DEF B, n
<1>3. \A k \in DOMAIN B : AttemptSound(B[k]) /\ B[k].at <= T
  BY <1>2 DEF AttemptsSound
<1>4. ASSUME NEW k \in DOMAIN B, NEW l \in DOMAIN B, k < l PROVE B[k].at <= B[l].at
  <2>1. k \in DOMAIN A
    BY <1>2, <1>4
  <2>2. CASE l \in DOMAIN A
    BY <1>2, <1>4, <2>1, <2>2 DEF AttemptsSound
  <2>3. CASE l = n + 1
    BY <1>2, <1>3, <2>1, <2>3
  <2> QED
    BY <1>2, <2>2, <2>3
<1> QED
  BY <1>2, <1>3, <1>4 DEF AttemptsSound, B

\* An attempt leaves what is remembered of the addresses that it touches.
LEMMA RemembersAppended ==
    ASSUME NEW A \in Seq(Attempts), NEW L, RemembersLast(A, L), NEW t \in Attempts, NEW M,
           \A a \in Addresses : M[a] = IF Touches(t, a) THEN t.entry ELSE L[a]
    PROVE  RemembersLast(Append(A, t), M)
<1> DEFINE B == Append(A, t)  n == Len(A)
<1>1. /\ n \in Nat /\ DOMAIN A = 1..n /\ DOMAIN B = 1..(n + 1)
      /\ \A k \in DOMAIN A : B[k] = A[k]
      /\ B[n + 1] = t
  BY Appended
<1> HIDE DEF B, n
<1> SUFFICES ASSUME NEW a \in Addresses
             PROVE \/ M[a] = NoFailures /\ \A k \in DOMAIN B : ~Touches(B[k], a)
                   \/ \E k \in DOMAIN B : IsLast(B, a, k) /\ M[a] = B[k].entry
  BY DEF RemembersLast, B
<1>2. CASE Touches(t, a)
  <2>1. IsLast(B, a, n + 1) /\ M[a] = B[n + 1].entry /\ n + 1 \in DOMAIN B
    BY <1>1, <1>2 DEF IsLast
  <2> QED
    BY <2>1
<1>3. CASE ~Touches(t, a)
  <2>1. CASE L[a] = NoFailures /\ \A k \in DOMAIN A : ~Touches(A[k], a)
    <3>1. \A k \in DOMAIN B : ~Touches(B[k], a)
      BY <1>1, <1>3, <2>1
    <3> QED
      BY <1>3, <2>1, <3>1
  <2>2. ASSUME NEW k \in DOMAIN A, IsLast(A, a, k), L[a] = A[k].entry
        PROVE  IsLast(B, a, k) /\ M[a] = B[k].entry /\ k \in DOMAIN B
    BY <1>1, <1>3, <2>2 DEF IsLast
  <2> QED
    BY <2>1, <2>2 DEF RemembersLast
<1> QED
  BY <1>2, <1>3

\* A failure is counted on what is remembered.
Counted(e, t, T) ==
  t.answer \in Failed =>
    \/ (e.count = 0 \/ T - e.start > LoginWindow) /\ t.entry.start = T /\ t.entry.count = 1
    \/ /\ e.count # 0 /\ T - e.start <= LoginWindow
       /\ t.entry.start = e.start /\ t.entry.count = e.count + 1

\* What is remembered of failures is that of the last one.
LEMMA RememberedFailure ==
    ASSUME NEW A, NEW T, AttemptsSound(A, T), NEW L, RemembersLast(A, L), NEW a \in Addresses,
           L[a].count # 0
    PROVE  \E p \in DOMAIN A : /\ IsLast(A, a, p) /\ L[a] = A[p].entry
                               /\ A[p].answer \in Failed /\ A[p].address = a
<1>1. PICK p \in DOMAIN A : IsLast(A, a, p) /\ L[a] = A[p].entry
  BY DEF RemembersLast, NoFailures
<1>2. AttemptSound(A[p])
  BY DEF AttemptsSound
<1>3. A[p].answer \in Failed
  BY <1>1, <1>2 DEF AttemptSound, NoFailures
<1>4. A[p].address = a
  BY <1>1, <1>2, <1>3 DEF AttemptSound, IsLast, Touches, Failed
<1> QED
  BY <1>1, <1>3, <1>4

\* A failure counted on what the last one left follows all of its address.
LEMMA FollowsAppended ==
    ASSUME NEW A, NEW T \in Nat, AttemptsSound(A, T), NEW L, RemembersLast(A, L),
           FailuresFollow(A), NEW t, AttemptSound(t), t.at = T, Counted(L[t.address], t, T)
    PROVE  FailuresFollow(Append(A, t))
<1>1. A \in Seq(Attempts) /\ t \in Attempts
  BY DEF AttemptsSound, AttemptSound
<1> DEFINE B == Append(A, t)  n == Len(A)
<1>2. /\ n \in Nat /\ DOMAIN A = 1..n /\ DOMAIN B = 1..(n + 1)
      /\ \A k \in DOMAIN A : B[k] = A[k]
      /\ B[n + 1] = t
  BY <1>1, Appended
<1> HIDE DEF B, n
<1> SUFFICES ASSUME NEW k \in DOMAIN B, NEW l \in DOMAIN B, k < l, B[k].address = B[l].address,
                    OnlyFailed(B, k, l, B[k].address)
             PROVE  Follows(B[k], B[l])
  BY DEF FailuresFollow, B
<1>3. k \in DOMAIN A /\ B[k] = A[k] /\ k \in Nat /\ l \in Nat
  BY <1>2
<1>4. CASE l \in DOMAIN A
  <2>1. OnlyFailed(A, k, l, A[k].address)
    BY <1>2, <1>3, <1>4 DEF OnlyFailed
  <2> QED
    BY <1>2, <1>3, <1>4, <2>1 DEF FailuresFollow
<1>5. CASE l = n + 1
  <2> DEFINE a == t.address  e == L[a]
  <2>1. A[k].address = a /\ B[l] = t
    BY <1>2, <1>3, <1>5
  <2>2. t.answer \in Failed
    BY <1>2, <1>3, <2>1 DEF OnlyFailed, Touches
  <2>3. a \in Addresses
    BY <1>1, <2>2 DEF AttemptSound, Attempts, Failed
  <2>4. Touches(A[k], a)
    BY <2>1 DEF Touches
  <2>5. PICK p \in DOMAIN A : IsLast(A, a, p) /\ e = A[p].entry
    BY <1>3, <2>3, <2>4 DEF RemembersLast
  <2>6. p \in k..n /\ Touches(A[p], a)
    BY <1>2, <1>3, <2>4, <2>5 DEF IsLast
  <2>7. AttemptSound(A[p]) /\ A[p].answer \in Failed
    BY <1>2, <1>3, <1>5, <2>1, <2>6 DEF OnlyFailed, AttemptsSound
  <2>8. A[p].address = a
    BY <2>6, <2>7 DEF AttemptSound, Touches, Failed
  <2>9. AttemptSound(A[k])
    BY <1>3 DEF AttemptsSound
  <2>10. /\ A[k].entry.start \in Nat /\ A[k].entry.count \in Nat
         /\ e.start \in Nat /\ e.count \in Nat /\ e.count # 0
         /\ t.entry.start \in Nat /\ t.entry.count \in Nat /\ LoginWindow \in Nat
    BY <2>5, <2>7, <2>9, SessionsAssumption DEF AttemptSound, Attempts, Entries
  <2>11. p = k \/ Follows(A[k], A[p])
    <3>1. OnlyFailed(A, k, p, A[k].address)
      BY <1>2, <1>3, <1>5, <2>6 DEF OnlyFailed
    <3> QED
      BY <1>3, <2>1, <2>6, <2>8, <3>1 DEF FailuresFollow
  <2>12. \/ e.start = A[k].entry.start /\ A[k].entry.count <= e.count
         \/ e.start > A[k].entry.start + LoginWindow
    BY <2>5, <2>10, <2>11 DEF Follows
  <2>13. \/ T - e.start > LoginWindow /\ t.entry.start = T
         \/ t.entry.start = e.start /\ t.entry.count = e.count + 1
    BY <2>2, <2>10 DEF Counted
  <2> HIDE DEF e
  <2>14. Follows(A[k], t)
    BY <2>10, <2>12, <2>13 DEF Follows
  <2> QED
    BY <1>3, <2>1, <2>14
<1> QED
  BY <1>2, <1>4, <1>5

\* Who waited for the window of the last failure to be over is not refused.
LEMMA RetriesAppended ==
    ASSUME NEW A, NEW T \in Nat, AttemptsSound(A, T), NEW L, RemembersLast(A, L),
           RetriesHold(A), NEW t, AttemptSound(t), t.at = T, Counted(L[t.address], t, T)
    PROVE  RetriesHold(Append(A, t))
<1>1. A \in Seq(Attempts) /\ t \in Attempts
  BY DEF AttemptsSound, AttemptSound
<1> DEFINE B == Append(A, t)  n == Len(A)
<1>2. /\ n \in Nat /\ DOMAIN A = 1..n /\ DOMAIN B = 1..(n + 1)
      /\ \A k \in DOMAIN A : B[k] = A[k]
      /\ B[n + 1] = t
  BY <1>1, Appended
<1> HIDE DEF B, n
<1> SUFFICES ASSUME NEW i \in DOMAIN B, NEW j \in DOMAIN B, i < j, B[i].answer = "blocked",
                    B[j].address = B[i].address, B[j].at > B[i].at + B[i].retry,
                    \A k \in (i + 1)..(j - 1) : B[k].address # B[i].address,
                    B[j].answer = "blocked"
             PROVE  FALSE
  BY DEF RetriesHold, B
<1>3. i \in DOMAIN A /\ B[i] = A[i] /\ i \in Nat /\ j \in Nat
  BY <1>2
<1>4. CASE j \in DOMAIN A
  <2>1. \A k \in (i + 1)..(j - 1) : k \in DOMAIN A /\ A[k].address # A[i].address
    BY <1>2, <1>3, <1>4
  <2> QED
    BY <1>2, <1>3, <1>4, <2>1 DEF RetriesHold
<1>5. CASE j = n + 1
  <2> DEFINE a == t.address  e == L[a]
  <2>1. A[i].address = a /\ B[j] = t /\ t.answer = "blocked" /\ t.answer \in Failed
    BY <1>2, <1>3, <1>5 DEF Failed
  <2>2. a \in Addresses
    BY <1>1, <2>1 DEF AttemptSound, Attempts, Failed
  <2>3. t.entry.count # 1
    BY <2>1, SessionsAssumption DEF AttemptSound
  <2>4. e.count # 0 /\ T - e.start <= LoginWindow
    BY <2>1, <2>3 DEF Counted
  <2>5. PICK p \in DOMAIN A : /\ IsLast(A, a, p) /\ e = A[p].entry
                             /\ A[p].answer \in Failed /\ A[p].address = a
    BY <2>2, <2>4, RememberedFailure
  <2>6. Touches(A[i], a)
    BY <2>1 DEF Touches
  <2>7. p = i
    BY <1>2, <1>3, <1>5, <2>1, <2>5, <2>6 DEF IsLast
  <2>8. AttemptSound(A[i]) /\ A[i].answer \in Failed
    BY <1>3 DEF AttemptsSound, Failed
  <2>9. e.start + LoginWindow <= A[i].at + A[i].retry
    BY <1>3, <2>5, <2>7, <2>8 DEF AttemptSound
  <2>10. e.start \in Nat /\ A[i].at \in Nat /\ A[i].retry \in Nat /\ LoginWindow \in Nat
    BY <2>5, <2>7, <2>8, SessionsAssumption DEF AttemptSound, Attempts, Entries
  <2> HIDE DEF e
  <2>11. T > A[i].at + A[i].retry
    BY <1>3, <2>1
  <2> QED
    BY <2>4, <2>9, <2>10, <2>11
<1> QED
  BY <1>2, <1>4, <1>5

\* Wrong passphrases with numbers of their own are no more than there are numbers.
LEMMA NumbersOfTheirOwn ==
    ASSUME NEW G, NEW lo \in {1, 2}, NEW hi \in Nat \ {0}, NEW number \in [G -> lo..hi],
           \A k, l \in G : number[k] = number[l] => k = l
    PROVE  IsFiniteSet(G) /\ Cardinality(G) \in Nat /\ Cardinality(G) <= hi - lo + 1
<1>1. number \in Injection(G, lo..hi)
  BY DEF Injection, IsInjective
<1>2. /\ IsFiniteSet(lo..hi)
      /\ Cardinality(lo..hi) = IF lo > hi THEN 0 ELSE hi - lo + 1
  <2>1. lo \in Int /\ hi \in Int
    OBVIOUS
  <2> QED
    BY <2>1, FS_Interval
<1>3. Cardinality(lo..hi) <= hi - lo + 1
  BY <1>2
<1>4. IsFiniteSet(G) /\ Cardinality(G) <= Cardinality(lo..hi)
  BY <1>1, <1>2, FS_Injection
<1>5. Cardinality(G) \in Nat /\ Cardinality(lo..hi) \in Nat
  BY <1>2, <1>4, FS_CardinalityType
<1> QED
  BY <1>3, <1>4, <1>5

\* The windows of the failures in one window's length are two, and where there are two
\* the first had begun before.
LEMMA FewWrong ==
    ASSUME NEW A, NEW T, AttemptsSound(A, T), FailuresFollow(A),
           NEW i \in DOMAIN A, NEW j \in DOMAIN A, i <= j, A[j].at - A[i].at <= LoginWindow,
           \A k \in i..j : Touches(A[k], A[i].address) => A[k].answer \in Failed
    PROVE  LET between == {k \in i..j : Touches(A[k], A[i].address)} IN
           Cardinality({k \in between : A[k].answer = "wrong"}) < 2 * MaxFailures
<1> DEFINE a == A[i].address
           Own == {k \in i..j : Touches(A[k], a)}
           Wrong == {k \in Own : A[k].answer = "wrong"}
           First == {k \in Wrong : A[k].entry.start = A[i].entry.start}
           Second == Wrong \ First
<1>1. /\ DOMAIN A = 1..Len(A) /\ Len(A) \in Nat
      /\ \A k \in DOMAIN A : AttemptSound(A[k])
  BY DEF AttemptsSound
<1>2. \A k \in Own : /\ k \in DOMAIN A /\ k \in Nat /\ i <= k /\ k <= j /\ A[k].answer \in Failed
                     /\ AttemptSound(A[k])
  BY <1>1
<1>3. i \in Own
  BY <1>1 DEF Touches
<1>4. \A k \in Own : A[k].address = a
  <2>1. a # "all"
    BY <1>2, <1>3 DEF AttemptSound, Failed
  <2> QED
    BY <1>2, <2>1 DEF AttemptSound, Touches, Failed
<1>5. \A k \in Own : /\ A[k].entry.start \in Nat /\ A[k].entry.count \in Nat /\ A[k].at \in Nat
                     /\ A[k].entry.count # 0 /\ A[k].entry.start <= A[k].at
                     /\ A[k].at <= A[k].entry.start + LoginWindow
  BY <1>2 DEF AttemptSound, Attempts, Entries
<1>6. LoginWindow \in Nat /\ MaxFailures \in Nat \ {0}
  BY SessionsAssumption
<1>7. ASSUME NEW k \in Own, NEW l \in Own, k < l PROVE Follows(A[k], A[l])
  <2>1. OnlyFailed(A, k, l, A[k].address)
    BY <1>1, <1>2, <1>4, <1>7 DEF OnlyFailed
  <2> QED
    BY <1>2, <1>4, <1>7, <2>1 DEF FailuresFollow
<1>8. \A k \in Own : A[i].at <= A[k].at /\ A[k].at <= A[i].at + LoginWindow
  <2> SUFFICES ASSUME NEW k \in Own PROVE A[i].at <= A[k].at /\ A[k].at <= A[i].at + LoginWindow
    OBVIOUS
  <2>1. A[i].at <= A[k].at /\ A[k].at <= A[j].at
    BY <1>1, <1>2, <1>3, <1>5 DEF AttemptsSound
  <2>2. A[j].at \in Nat
    BY <1>1 DEF AttemptSound, Attempts
  <2> QED
    BY <1>3, <1>5, <1>6, <2>1, <2>2
<1>9. \A k \in Second : A[k].entry.start > A[i].entry.start + LoginWindow
  BY <1>2, <1>3, <1>5, <1>7 DEF Follows
<1>10. \A k \in Wrong : A[k].entry.count \in 1..MaxFailures
  BY <1>2, <1>5, <1>6 DEF AttemptSound
<1>11. ASSUME NEW k \in Second, NEW l \in Second, k < l
       PROVE  A[k].entry.start = A[l].entry.start /\ A[k].entry.count < A[l].entry.count
  <2>1. k \in Own /\ l \in Own
    OBVIOUS
  <2>2. Follows(A[k], A[l])
    BY <1>7, <1>11, <2>1
  <2>3. /\ A[k].entry.start > A[i].entry.start + LoginWindow
        /\ A[l].entry.start <= A[l].at /\ A[l].at <= A[i].at + LoginWindow
        /\ A[i].at <= A[i].entry.start + LoginWindow
    BY <1>3, <1>5, <1>8, <1>9, <2>1
  <2>4. ~(A[l].entry.start > A[k].entry.start + LoginWindow)
    BY <1>3, <1>5, <1>6, <2>1, <2>3
  <2> QED
    BY <2>2, <2>4 DEF Follows
<1>12. ASSUME NEW k \in First, NEW l \in First, k < l
       PROVE  A[k].entry.count < A[l].entry.count
  BY <1>5, <1>6, <1>7, <1>12 DEF Follows
<1>13. ASSUME Second # {} PROVE \A k \in First : A[k].entry.count \in 2..MaxFailures
  <2>1. PICK l \in Second : TRUE
    BY <1>13
  <2>2. l \in Own
    OBVIOUS
  <2>3. A[i].entry.count # 1
    <3>1. A[l].entry.start <= A[i].at + LoginWindow
      BY <1>3, <1>5, <1>6, <1>8, <2>2
    <3>2. A[i].at # A[i].entry.start
      BY <1>3, <1>5, <1>6, <1>9, <3>1
    <3> QED
      BY <1>2, <1>3, <3>2 DEF AttemptSound
  <2> SUFFICES ASSUME NEW k \in First PROVE A[k].entry.count \in 2..MaxFailures
    OBVIOUS
  <2>4. k = i \/ i < k
    BY <1>2, <1>3
  <2>5. A[k].entry.count >= A[i].entry.count
    <3>1. CASE k = i
      BY <1>5, <3>1
    <3>2. CASE i < k
      BY <1>3, <1>5, <1>6, <1>7, <3>2 DEF Follows
    <3> QED
      BY <2>4, <3>1, <3>2
  <2> QED
    BY <1>3, <1>5, <1>10, <2>3, <2>5
<1> DEFINE number(G) == [k \in G |-> A[k].entry.count]
<1>14. IsFiniteSet(First) /\ Cardinality(First) \in Nat /\ Cardinality(First) <= MaxFailures
  <2>1. number(First) \in [First -> 1..MaxFailures]
    BY <1>10
  <2>2. \A k, l \in First : number(First)[k] = number(First)[l] => k = l
    BY <1>2, <1>5, <1>12
  <2> DEFINE f == number(First)
  <2> HIDE DEF f, First
  <2>3. Cardinality(First) <= MaxFailures - 1 + 1 /\ IsFiniteSet(First) /\ Cardinality(First) \in Nat
    <3>1. f \in [First -> 1..MaxFailures] /\ \A k, l \in First : f[k] = f[l] => k = l
      BY <2>1, <2>2 DEF f
    <3>2. 1 \in {1, 2}
      OBVIOUS
    <3> QED
      BY <1>6, <3>1, <3>2, NumbersOfTheirOwn
  <2> QED
    BY <1>6, <2>3
<1>15. IsFiniteSet(Second) /\ Cardinality(Second) \in Nat /\ Cardinality(Second) <= MaxFailures
  <2>1. number(Second) \in [Second -> 1..MaxFailures]
    BY <1>10
  <2>2. \A k, l \in Second : number(Second)[k] = number(Second)[l] => k = l
    BY <1>2, <1>5, <1>11
  <2> DEFINE f == number(Second)
  <2> HIDE DEF f, Second
  <2>3. Cardinality(Second) <= MaxFailures - 1 + 1 /\ IsFiniteSet(Second) /\ Cardinality(Second) \in Nat
    <3>1. f \in [Second -> 1..MaxFailures] /\ \A k, l \in Second : f[k] = f[l] => k = l
      BY <2>1, <2>2 DEF f
    <3>2. 1 \in {1, 2}
      OBVIOUS
    <3> QED
      BY <1>6, <3>1, <3>2, NumbersOfTheirOwn
  <2> QED
    BY <1>6, <2>3
<1>16. Second # {} => Cardinality(First) < MaxFailures
  <2> SUFFICES ASSUME Second # {} PROVE Cardinality(First) < MaxFailures
    OBVIOUS
  <2>1. number(First) \in [First -> 2..MaxFailures]
    BY <1>13
  <2>2. \A k, l \in First : number(First)[k] = number(First)[l] => k = l
    BY <1>2, <1>5, <1>12
  <2>3. Cardinality(First) <= MaxFailures - 2 + 1
    BY <1>6, <2>1, <2>2, NumbersOfTheirOwn
  <2> QED
    BY <1>6, <1>14, <2>3
<1>17. Second = {} => Cardinality(Second) = 0
  BY FS_EmptySet
<1>18. Cardinality(Wrong) < 2 * MaxFailures
  <2>1. Wrong = First \cup Second /\ First \cap Second = {}
    OBVIOUS
  <2> HIDE DEF Wrong, First, Second
  <2>2. Cardinality(Wrong) = Cardinality(First) + Cardinality(Second) - Cardinality({})
    BY <1>14, <1>15, <2>1, FS_Union
  <2>3. Cardinality({}) = 0
    BY FS_EmptySet
  <2> QED
    BY <1>6, <1>14, <1>15, <1>16, <1>17, <2>2, <2>3
<1> QED
  BY <1>18

\* What the limiter remembers stays that of the last attempts when one more is made.
LEMMA Tried ==
    ASSUME NEW A, NEW L, NEW T \in Nat, LimiterSound(A, L, T),
           NEW t, AttemptSound(t), t.at = T, Counted(L[t.address], t, T),
           t.entry.start <= T, t.entry.count <= Len(A) + 1, t.entry.count <= MaxAttempts,
           NEW M \in [Addresses -> Entries],
           \A a \in Addresses : M[a] = IF Touches(t, a) THEN t.entry ELSE L[a]
    PROVE  LimiterSound(Append(A, t), M, T)
<1> DEFINE B == Append(A, t)
<1>1. /\ AttemptsSound(A, T) /\ RemembersLast(A, L) /\ FailuresFollow(A) /\ RetriesHold(A)
      /\ A \in Seq(Attempts) /\ t \in Attempts
  BY DEF LimiterSound, AttemptsSound, AttemptSound
<1>2. Len(A) \in Nat /\ Len(B) = Len(A) + 1
  BY <1>1, Appended
<1>3. AttemptsSound(B, T)
  BY <1>1, AppendedKeeps
<1>4. RemembersLast(B, M)
  BY <1>1, RemembersAppended
<1>5. FailuresFollow(B)
  BY <1>1, FollowsAppended
<1>6. RetriesHold(B)
  BY <1>1, RetriesAppended
<1> HIDE DEF B
<1>7. ASSUME NEW a \in Addresses
      PROVE  M[a].start <= T /\ M[a].count <= Len(B) /\ M[a].count <= MaxAttempts
  <2>1. CASE Touches(t, a)
    BY <1>2, <2>1
  <2>2. CASE ~Touches(t, a)
    <3>1. M[a] = L[a] /\ L[a].count \in Nat
      BY <2>2 DEF LimiterSound, Entries
    <3>2. L[a].start <= T /\ L[a].count <= Len(A) /\ L[a].count <= MaxAttempts
      BY DEF LimiterSound
    <3> QED
      BY <1>2, <3>1, <3>2
  <2> QED
    BY <2>1, <2>2
<1> QED
  BY <1>3, <1>4, <1>5, <1>6, <1>7 DEF LimiterSound, B

\* Time that passes leaves the limiter as it is.
LEMMA LimiterLater ==
    ASSUME NEW A, NEW L, NEW T \in Nat, NEW U \in Nat, T <= U, LimiterSound(A, L, T)
    PROVE  LimiterSound(A, L, U)
<1>1. AttemptsSound(A, U)
  BY DEF LimiterSound, AttemptsSound, AttemptSound, Attempts
<1>2. \A a \in Addresses : L[a].start <= U
  BY DEF LimiterSound, Entries
<1> QED
  BY <1>1, <1>2 DEF LimiterSound

\* Whatever is remembered, guessing is slowed down and who waits is let try.
LEMMA LimiterLimits ==
    ASSUME LimiterSound(attempts, limiter, clock)
    PROVE  LimiterBounds /\ RetryAfterHolds
<1>1. RetryAfterHolds
  BY DEF LimiterSound, RetriesHold, RetryAfterHolds
<1>2. LimiterBounds
  <2> SUFFICES ASSUME NEW i \in DOMAIN attempts, NEW j \in DOMAIN attempts, i <= j,
                      attempts[j].at - attempts[i].at <= LoginWindow,
                      \A k \in {m \in i..j : Touches(attempts[m], attempts[i].address)} :
                         attempts[k].answer \in Failed
               PROVE  LET between == {m \in i..j : Touches(attempts[m], attempts[i].address)} IN
                      Cardinality({k \in between : attempts[k].answer = "wrong"}) < 2 * MaxFailures
    BY DEF LimiterBounds, Touches, Failed
  <2>1. AttemptsSound(attempts, clock) /\ FailuresFollow(attempts)
    BY DEF LimiterSound
  <2> QED
    BY <2>1, FewWrong
<1> QED
  BY <1>1, <1>2
-------------------------------------------------------------------------------
\* What an educator is shown for each answer.
LEMMA ShownFor ==
  /\ Shown("stored") = "saved" /\ Shown("session") = "sign_in"
  /\ Shown("configuration") = "configuration" /\ Shown("access") = "no_access"
  /\ Shown("timeout") = "unreachable" /\ Shown("text") = "generic"
  BY DEF Shown, Code, Messages

\* What the API answers to a cookie has its cause.
LEMMA SessionAnswers ==
    ASSUME NEW cookie \in Cookies, clock \in Nat
    PROVE  \/ SessionResult(cookie) = "configuration" /\ ~ConfigSound(conf.api)
           \/ SessionResult(cookie) = "session" /\ (cookie.secret # conf.api \/ cookie.exp <= clock)
           \/ /\ SessionResult(cookie) = "stored" /\ cookie # NoCookie
              /\ cookie.secret = conf.api /\ clock < cookie.exp
<1>1. cookie.exp \in Nat
  BY DEF Cookies, NoCookie, Dates
<1>2. CASE ~ConfigSound(conf.api)
  BY <1>2 DEF SessionResult
<1>3. CASE ConfigSound(conf.api) /\ (cookie = NoCookie \/ ~ApiVerified(cookie))
  <2>1. SessionResult(cookie) = "session"
    BY <1>3 DEF SessionResult
  <2>2. cookie = NoCookie => cookie.secret # conf.api
    BY <1>3 DEF ConfigSound, Secrets, NoCookie
  <2> QED
    BY <1>1, <1>3, <2>1, <2>2 DEF ApiVerified
<1>4. CASE ConfigSound(conf.api) /\ cookie # NoCookie /\ ApiVerified(cookie)
  <2>1. SessionResult(cookie) = "stored"
    BY <1>4 DEF SessionResult
  <2> QED
    BY <1>1, <1>4, <2>1 DEF ApiVerified
<1> QED
  BY <1>2, <1>3, <1>4

\* A jar presents one of its cookies, and an empty one none.
LEMMA PresentedIsOfJar ==
    ASSUME NEW jar
    PROVE  \E n \in CookieNames : Presented(jar) = jar[n]
  BY DEF Presented, CookieNames

\* Configurations are of their type.
LEMMA Configured ==
    ASSUME conf \in Deployments
    PROVE  conf.dash \in STRING /\ conf.api \in STRING
  BY SessionsAssumption

\* The gate lets a write through that has a session of its secret, or answers for a reason.
LEMMA GateSound ==
    ASSUME clock \in Nat, conf \in Deployments, NEW c, CallSound(c, logins), c.stage = "sent"
    PROVE  LET cookie == Presented(c.jar) IN
           CallSound(
             IF ~conf.gate \/ (ConfigSound(conf.dash) /\ Verified(conf.dash, cookie))
             THEN [c EXCEPT !.stage = "through", !.passed = IF conf.gate THEN "checked" ELSE "open",
                            !.dash = conf.dash, !.passedAt = clock, !.cookie = cookie]
             ELSE [c EXCEPT !.stage = "answered", !.shown = Shown("text"), !.dash = conf.dash,
                            !.passedAt = clock, !.cookie = cookie], logins)
<1> DEFINE cookie == Presented(c.jar)
           ok == ~conf.gate \/ (ConfigSound(conf.dash) /\ Verified(conf.dash, cookie))
           d == [c EXCEPT !.stage = "through", !.passed = IF conf.gate THEN "checked" ELSE "open",
                          !.dash = conf.dash, !.passedAt = clock, !.cookie = cookie]
           e == [c EXCEPT !.stage = "answered", !.shown = Shown("text"), !.dash = conf.dash,
                          !.passedAt = clock, !.cookie = cookie]
<1>1. c \in Calls /\ c.jar \in [CookieNames -> Cookies]
  BY DEF CallSound, Calls
<1>2. PICK n \in CookieNames : cookie = c.jar[n]
  BY PresentedIsOfJar
<1>3. cookie \in Cookies /\ Issued(logins, c.browser, cookie) /\ cookie.exp \in Nat
  <2>1. cookie \in Cookies /\ Issued(logins, c.browser, cookie)
    BY <1>1, <1>2 DEF CallSound, SentTruly
  <2> QED
    BY <2>1 DEF Cookies, Dates, NoCookie
<1>4. Empty(c.jar) => cookie = NoCookie
  BY <1>2 DEF Empty
<1>5. conf.dash \in STRING /\ Shown("text") = "generic"
  BY Configured, ShownFor
<1>6. c.passed = "none" /\ c.result = "none" /\ c.shown = "none" /\ c.session = NoCookie
  BY DEF CallSound, GateTruly, ShownTruly, ApiTruly
<1> HIDE DEF cookie
<1>7. /\ d \in Calls /\ d.browser = c.browser /\ d.jar = c.jar /\ d.since = c.since
      /\ d.stage = "through" /\ d.shown = "none" /\ d.result = "none" /\ d.session = NoCookie
      /\ d.passed = IF conf.gate THEN "checked" ELSE "open"
      /\ d.dash = conf.dash /\ d.passedAt = clock /\ d.cookie = cookie
  BY <1>1, <1>3, <1>5, <1>6 DEF Calls
<1>8. /\ e \in Calls /\ e.browser = c.browser /\ e.jar = c.jar /\ e.since = c.since
      /\ e.stage = "answered" /\ e.shown = "generic" /\ e.result = "none" /\ e.session = NoCookie
      /\ e.passed = "none" /\ e.dash = conf.dash /\ e.passedAt = clock /\ e.cookie = cookie
  BY <1>1, <1>3, <1>5, <1>6 DEF Calls
<1> HIDE DEF d, e
<1>9. CASE ok
  <2>1. SentTruly(d, logins) /\ ApiTruly(d) /\ ShownTruly(d)
    BY <1>3, <1>7 DEF CallSound, SentTruly, ApiTruly, ShownTruly
  <2>2. ASSUME d.passed = "checked"
        PROVE  /\ d.dash \in Secrets /\ d.cookie.secret = d.dash /\ d.passedAt < d.cookie.exp
               /\ d.since \in {"in", "out_plain"}
    <3>1. conf.dash \in Secrets /\ cookie.secret = conf.dash /\ cookie.exp > clock
      BY <1>7, <1>9, <2>2 DEF ConfigSound, Verified
    <3>2. cookie # NoCookie
      BY <3>1 DEF Secrets, NoCookie
    <3>3. c.since \notin {"never", "out"}
      BY <1>4, <3>2 DEF CallSound, SentTruly
    <3>4. c.since \in {"in", "out_plain"}
      BY <1>1, <3>3 DEF Calls
    <3> QED
      BY <1>3, <1>7, <3>1, <3>4
  <2>3. GateTruly(d)
    BY <1>7, <2>2 DEF GateTruly
  <2>4. CallSound(d, logins)
    BY <1>7, <2>1, <2>3 DEF CallSound
  <2> QED
    BY <1>9, <2>4 DEF d, cookie
<1>10. CASE ~ok
  <2>1. SentTruly(e, logins) /\ ApiTruly(e) /\ GateTruly(e)
    BY <1>3, <1>8 DEF CallSound, SentTruly, ApiTruly, GateTruly
  <2>2. ~ConfigSound(e.dash) \/ e.cookie.secret # e.dash \/ e.cookie.exp <= e.passedAt
    BY <1>3, <1>8, <1>10 DEF Verified
  <2>3. ShownTruly(e)
    BY <1>8, <2>2 DEF ShownTruly
  <2>4. CallSound(e, logins)
    BY <1>8, <2>1, <2>3 DEF CallSound
  <2> QED
    BY <1>10, <2>4 DEF e, cookie
<1> QED
  BY <1>9, <1>10

\* What the API writes is of the session that it verified.
LEMMA HandleSound ==
    ASSUME clock \in Nat, conf \in Deployments, NEW c, CallSound(c, logins), c.result = "none",
           c.stage # "sent"
    PROVE  LET cookie == Forwarded(c)
               result == IF conf.keys THEN SessionResult(cookie) ELSE "access" IN
           CallSound([c EXCEPT !.result = result, !.api = conf.api, !.at = clock,
                               !.session = IF result = "stored" THEN SessionId(cookie) ELSE NoCookie], logins)
<1> DEFINE result == IF conf.keys THEN SessionResult(c.cookie) ELSE "access"
           session == IF result = "stored" THEN c.cookie ELSE NoCookie
           d == [c EXCEPT !.result = result, !.api = conf.api, !.at = clock, !.session = session]
<1>1. c \in Calls /\ c.cookie \in Cookies
  BY DEF CallSound, Calls
<1>2. \/ result = "access"
      \/ result = "configuration" /\ ~ConfigSound(conf.api)
      \/ result = "session" /\ (c.cookie.secret # conf.api \/ c.cookie.exp <= clock)
      \/ result = "stored" /\ c.cookie # NoCookie /\ c.cookie.secret = conf.api /\ clock < c.cookie.exp
  BY <1>1, SessionAnswers
<1>3. conf.api \in STRING /\ NoCookie \in Cookies
  BY Configured DEF Cookies
<1> HIDE DEF result
<1>4. /\ d \in Calls /\ d.browser = c.browser /\ d.jar = c.jar /\ d.since = c.since
      /\ d.stage = c.stage /\ d.shown = c.shown /\ d.passed = c.passed /\ d.dash = c.dash
      /\ d.passedAt = c.passedAt /\ d.cookie = c.cookie
      /\ d.result = result /\ d.api = conf.api /\ d.at = clock /\ d.session = session
  BY <1>1, <1>2, <1>3 DEF Calls, Results
<1> HIDE DEF d
<1>5. SentTruly(d, logins) /\ GateTruly(d)
  BY <1>4 DEF CallSound, SentTruly, GateTruly
<1>6. ApiTruly(d)
  BY <1>2, <1>4 DEF ApiTruly
<1>7. ShownTruly(d)
  BY <1>4 DEF CallSound, ShownTruly
<1>8. CallSound(d, logins)
  BY <1>4, <1>5, <1>6, <1>7 DEF CallSound
<1> QED
  BY <1>8 DEF d, result, Forwarded, SessionId

\* What is shown of an answer is what the API answered, or that it did not.
LEMMA AnswerSound ==
    ASSUME NEW c, CallSound(c, logins), c.stage = "through", NEW result,
           result = "timeout" \/ (result = c.result /\ c.result # "none")
    PROVE  CallSound([c EXCEPT !.stage = "answered", !.shown = Shown(result)], logins)
<1> DEFINE d == [c EXCEPT !.stage = "answered", !.shown = Shown(result)]
<1>1. c \in Calls /\ result \in {"timeout", "stored", "session", "configuration", "access"}
  BY DEF CallSound, Calls, Results
<1>2. /\ Shown(result) \in {"saved", "sign_in", "configuration", "no_access", "unreachable"}
      /\ Shown(result) = "saved" => result = "stored"
      /\ Shown(result) = "sign_in" => result = "session"
      /\ Shown(result) = "configuration" => result = "configuration"
  BY <1>1, ShownFor
<1>3. /\ d \in Calls /\ d.browser = c.browser /\ d.jar = c.jar /\ d.since = c.since
      /\ d.stage = "answered" /\ d.shown = Shown(result) /\ d.passed = c.passed /\ d.dash = c.dash
      /\ d.passedAt = c.passedAt /\ d.cookie = c.cookie
      /\ d.result = c.result /\ d.api = c.api /\ d.at = c.at /\ d.session = c.session
  BY <1>1, <1>2 DEF Calls
<1> HIDE DEF d
<1>4. SentTruly(d, logins) /\ GateTruly(d) /\ ApiTruly(d)
  BY <1>3 DEF CallSound, SentTruly, GateTruly, ApiTruly
<1>5. ShownTruly(d)
  BY <1>2, <1>3 DEF ShownTruly
<1> QED
  BY <1>3, <1>4, <1>5 DEF CallSound, d

\* Of a write that changed the rest stays.
LEMMA CallMoves ==
    ASSUME AccessInv, NEW i \in DOMAIN calls, NEW d, CallSound(d, logins),
           calls' = [calls EXCEPT ![i] = d],
           UNCHANGED <<clock, deployment, jars, visits, logins, limiter, attempts>>
    PROVE  AccessInv'
<1>1. calls \in Seq(Calls) /\ d \in Calls /\ \A j \in DOMAIN calls : CallSound(calls[j], logins)
  BY DEF AccessInv, CallsSound, CallSound
<1>2. calls' \in Seq(Calls) /\ DOMAIN calls' = DOMAIN calls
      /\ \A j \in DOMAIN calls : calls'[j] = IF j = i THEN d ELSE calls[j]
  BY <1>1
<1>3. \A j \in DOMAIN calls' : CallSound(calls'[j], logins)
  BY <1>1, <1>2
<1>4. CallsSound'
  BY <1>2, <1>3 DEF CallsSound
<1>5. LoginsSound' /\ JarsSound' /\ LimiterSound(attempts, limiter, clock)'
  BY DEF AccessInv, LoginsSound, JarsSound
<1> QED
  BY <1>4, <1>5 DEF AccessInv, conf

\* Writes and cookies keep what was said of them when another browser logs in.
LEMMA IssuedLater ==
    ASSUME NEW h, NEW k, h \subseteq k
    PROVE  /\ \A b, cookie : Issued(h, b, cookie) => Issued(k, b, cookie)
           /\ \A c : CallSound(c, h) => CallSound(c, k)
<1>1. \A b, cookie : Issued(h, b, cookie) => Issued(k, b, cookie)
  BY DEF Issued
<1> QED
  BY <1>1 DEF CallSound, SentTruly

\* At first there is no cookie and nothing remembered.
LEMMA InitAccess == AccessInit => AccessInv
<1> SUFFICES ASSUME AccessInit PROVE AccessInv
  OBVIOUS
<1>1. clock \in 1..MaxClock /\ conf \in Deployments
  BY SessionsAssumption DEF AccessInit, conf
<1>2. visits \in [Browsers -> {"never", "in", "out", "out_plain"}] /\ DOMAIN jars = Browsers
  BY DEF AccessInit
<1>3. LoginsSound /\ CallsSound
  BY DEF AccessInit, LoginsSound, CallsSound
<1>4. JarsSound
  BY DEF AccessInit, JarsSound, Issued, Empty, Cookies
<1>5. LimiterSound(attempts, limiter, clock)
  <2>1. attempts = <<>> /\ DOMAIN attempts = {} /\ attempts \in Seq(Attempts) /\ Len(attempts) = 0
    BY DEF AccessInit
  <2>2. limiter \in [Addresses -> Entries] /\ \A a \in Addresses : limiter[a] = NoFailures
    BY DEF AccessInit, Entries, NoFailures
  <2>3. \A a \in Addresses : limiter[a].start = 0 /\ limiter[a].count = 0
    BY <2>2 DEF NoFailures
  <2>4. clock = 1 /\ MaxAttempts \in Nat
    BY SessionsAssumption DEF AccessInit
  <2> QED
    BY <2>1, <2>2, <2>3, <2>4 DEF LimiterSound, AttemptsSound, RemembersLast, FailuresFollow, RetriesHold
<1> QED
  BY <1>1, <1>2, <1>3, <1>4, <1>5 DEF AccessInv

\* A cookie is put into a jar under one name, or not.
LEMMA CookieSet ==
    ASSUME NEW jar \in [CookieNames -> Cookies], NEW name \in CookieNames, NEW cookie \in Cookies
    PROVE  /\ SetCookie(jar, name, cookie) \in [CookieNames -> Cookies]
           /\ \A n \in CookieNames : SetCookie(jar, name, cookie)[n] \in {jar[n], cookie}
           /\ name # "host" \/ conf.secure => SetCookie(jar, name, cookie)[name] = cookie
  BY DEF SetCookie

\* A login gives the browser a cookie of its own, and the failures are forgotten.
LEMMA LoginKeeps == ASSUME AccessInv, NEW b \in Browsers, Login(b) PROVE AccessInv'
<1> DEFINE cookie == Signed(conf.dash)
           login == [browser |-> b, at |-> clock, cookie |-> cookie]
           t == [address |-> AddressOf[b], at |-> clock, answer |-> "in", retry |-> 0, entry |-> NoFailures]
<1>1. /\ conf.dash \in Secrets
      /\ jars' = [jars EXCEPT ![b] = SetCookie(@, CookieName, cookie)]
      /\ logins' = logins \cup {login}
      /\ visits' = [visits EXCEPT ![b] = "in"]
      /\ limiter' = [limiter EXCEPT ![AddressOf[b]] = NoFailures]
      /\ attempts' = Append(attempts, t)
      /\ UNCHANGED <<clock, deployment, calls>>
  BY DEF Login, ConfigSound
<1>2. /\ clock \in Nat /\ Ttl \in Nat /\ MaxAttempts \in Nat /\ clock \in 1..MaxClock
      /\ conf \in Deployments /\ clock' = clock /\ conf' = conf
      /\ visits \in [Browsers -> {"never", "in", "out", "out_plain"}] /\ DOMAIN jars = Browsers
  BY <1>1, SessionsAssumption DEF AccessInv, conf
<1>3. /\ cookie \in Dates /\ cookie \in Cookies /\ cookie.exp = clock + Ttl
      /\ login \in Logins /\ login.at = clock /\ login.cookie = cookie /\ login.browser = b
  BY <1>1, <1>2 DEF Signed, Dates, Cookies, Logins
<1> HIDE DEF cookie, login
<1>4. LoginsSound'
  BY <1>1, <1>2, <1>3 DEF AccessInv, LoginsSound
<1>5. logins \subseteq logins' /\ Issued(logins', b, cookie)
  BY <1>1, <1>3 DEF Issued
<1>6. CallsSound'
  <2>1. \A c : CallSound(c, logins) => CallSound(c, logins')
    BY <1>5, IssuedLater
  <2> QED
    BY <1>1, <2>1 DEF AccessInv, CallsSound
<1>7. JarsSound'
  <2> SUFFICES ASSUME NEW x \in Browsers
               PROVE  /\ jars'[x] \in [CookieNames -> Cookies]
                      /\ \A n \in CookieNames : Issued(logins', x, jars'[x][n])
                      /\ visits'[x] \in {"never", "out"} => Empty(jars'[x])
    BY DEF JarsSound
  <2>1. /\ jars[x] \in [CookieNames -> Cookies] /\ (visits[x] \in {"never", "out"} => Empty(jars[x]))
        /\ \A n \in CookieNames : Issued(logins', x, jars[x][n])
    BY <1>5, IssuedLater DEF AccessInv, JarsSound
  <2>2. CASE x # b
    BY <1>1, <1>2, <2>1, <2>2
  <2>3. CASE x = b
    <3>1. CookieName \in CookieNames
      BY DEF CookieName, CookieNames
    <3>2. jars'[x] = SetCookie(jars[x], CookieName, cookie) /\ visits'[x] = "in"
      BY <1>1, <1>2, <2>3
    <3>3. /\ jars'[x] \in [CookieNames -> Cookies]
          /\ \A n \in CookieNames : jars'[x][n] \in {jars[x][n], cookie}
      BY <1>3, <2>1, <3>1, <3>2, CookieSet
    <3> QED
      BY <1>5, <2>1, <2>3, <3>2, <3>3
  <2> QED
    BY <2>2, <2>3
<1>8. LimiterSound(attempts', limiter', clock)
  <2>1. LimiterSound(attempts, limiter, clock) /\ attempts \in Seq(Attempts) /\ Len(attempts) \in Nat
    BY DEF AccessInv, LimiterSound, AttemptsSound
  <2>2. AddressOf[b] \in Addresses /\ AddressOf[b] # "all"
    BY SessionsAssumption DEF Addresses
  <2>3. NoFailures \in Entries /\ NoFailures.count = 0 /\ NoFailures.start = 0
    BY DEF NoFailures, Entries
  <2>4. AttemptSound(t) /\ t.at = clock /\ Counted(limiter[t.address], t, clock)
    BY <1>2, <2>2, <2>3 DEF AttemptSound, Attempts, Counted, Failed
  <2>5. /\ limiter' \in [Addresses -> Entries]
        /\ \A a \in Addresses : limiter'[a] = IF Touches(t, a) THEN t.entry ELSE limiter[a]
    BY <1>1, <2>1, <2>2, <2>3 DEF LimiterSound, Touches
  <2>6. t.entry.start <= clock /\ t.entry.count <= Len(attempts) + 1 /\ t.entry.count <= MaxAttempts
    BY <1>2, <2>1, <2>3
  <2> HIDE DEF t
  <2> QED
    BY <1>1, <1>2, <2>1, <2>4, <2>5, <2>6, Tried
<1>9. LimiterSound(attempts, limiter, clock)'
  BY <1>2, <1>8
<1> QED
  BY <1>1, <1>2, <1>4, <1>6, <1>7, <1>9 DEF AccessInv

\* Of a step that leaves the logins, the jars or the writes alone the rest stays.
LEMMA AccessStays ==
    ASSUME AccessInv, conf' \in Deployments, clock' \in 1..MaxClock, clock <= clock',
           UNCHANGED <<jars, visits, logins, calls>>, LimiterSound(attempts', limiter', clock')
    PROVE  AccessInv'
<1>1. \A l \in logins : l.at \in 1..clock'
  BY DEF AccessInv, LoginsSound
<1>2. LoginsSound' /\ JarsSound' /\ CallsSound'
  BY <1>1 DEF AccessInv, LoginsSound, JarsSound, CallsSound
<1>3. LimiterSound(attempts, limiter, clock)'
  OBVIOUS
<1> QED
  BY <1>2, <1>3 DEF AccessInv

\* A wrong passphrase is counted on what is remembered of its address.
LEMMA WrongPassphraseKeeps ==
    ASSUME AccessInv, NEW b \in Browsers, WrongPassphrase(b) PROVE AccessInv'
<1> DEFINE a == AddressOf[b]
           e == limiter[a]
           entry == FailedEntry(e)
           left == entry.start + LoginWindow - clock
           answer == IF Blocked(entry) THEN "blocked" ELSE "wrong"
           retry == IF ~Blocked(entry) THEN 0 ELSE IF left < 1 THEN 1 ELSE left
           t == [address |-> a, at |-> clock, answer |-> answer, retry |-> retry, entry |-> entry]
<1>1. /\ Len(attempts) < MaxAttempts
      /\ limiter' = [limiter EXCEPT ![a] = entry]
      /\ attempts' = Append(attempts, t)
      /\ UNCHANGED <<clock, deployment, jars, visits, logins, calls>>
  BY DEF WrongPassphrase
<1>2. /\ clock \in Nat /\ clock \in 1..MaxClock /\ LoginWindow \in Nat /\ MaxAttempts \in Nat
      /\ MaxFailures \in Nat \ {0} /\ conf' \in Deployments /\ clock' = clock
  BY <1>1, SessionsAssumption DEF AccessInv, conf
<1>3. a \in Addresses /\ a # "all"
  BY SessionsAssumption DEF Addresses
<1>4. /\ LimiterSound(attempts, limiter, clock) /\ attempts \in Seq(Attempts) /\ Len(attempts) \in Nat
      /\ limiter \in [Addresses -> Entries]
  BY DEF AccessInv, LimiterSound, AttemptsSound
<1>5. e \in Entries /\ e.start <= clock /\ e.count <= Len(attempts)
  BY <1>3, <1>4 DEF LimiterSound
<1> HIDE DEF e
<1>6. /\ entry \in Entries /\ entry.start <= clock /\ clock <= entry.start + LoginWindow
      /\ entry.count # 0 /\ (entry.count = 1 => entry.start = clock)
      /\ entry.count <= Len(attempts) + 1
      /\ \/ (e.count = 0 \/ clock - e.start > LoginWindow) /\ entry.start = clock /\ entry.count = 1
         \/ /\ e.count # 0 /\ clock - e.start <= LoginWindow
            /\ entry.start = e.start /\ entry.count = e.count + 1
  <2>1. CASE e.count = 0 \/ clock - e.start > LoginWindow
    <3>1. entry = [count |-> 1, start |-> clock]
      BY <2>1 DEF FailedEntry
    <3> HIDE DEF entry
    <3> QED
      BY <1>2, <1>4, <2>1, <3>1 DEF Entries
  <2>2. CASE ~(e.count = 0 \/ clock - e.start > LoginWindow)
    <3>1. entry = [e EXCEPT !.count = @ + 1]
      BY <2>2 DEF FailedEntry
    <3>2. entry \in Entries /\ entry.start = e.start /\ entry.count = e.count + 1
      BY <1>5, <3>1 DEF Entries
    <3>3. e.start \in Nat /\ e.count \in Nat
      BY <1>5 DEF Entries
    <3> HIDE DEF entry
    <3> QED
      BY <1>2, <1>4, <1>5, <2>2, <3>2, <3>3
  <2> QED
    BY <2>1, <2>2
<1> HIDE DEF entry
<1>7. entry.start \in Nat /\ entry.count \in Nat
  BY <1>6 DEF Entries
<1>8. /\ answer \in Failed /\ (answer = "blocked" <=> entry.count > MaxFailures)
      /\ retry \in Nat /\ (answer = "blocked" => entry.start + LoginWindow <= clock + retry)
  BY <1>2, <1>6, <1>7 DEF Blocked, Failed
<1> HIDE DEF answer, retry
<1>9. t.address = a /\ t.at = clock /\ t.answer = answer /\ t.retry = retry /\ t.entry = entry
  OBVIOUS
<1>10. t \in Attempts
  BY <1>2, <1>3, <1>6, <1>8 DEF Attempts
<1> HIDE DEF t
<1>11. AttemptSound(t)
  <2>1. t.address # "all" /\ t.answer # "restart"
    BY <1>3, <1>8, <1>9 DEF Failed
  <2> QED
    BY <1>6, <1>8, <1>9, <1>10, <2>1 DEF AttemptSound
<1>12. Counted(limiter[t.address], t, clock)
  BY <1>6, <1>9 DEF Counted, e
<1>13. /\ limiter' \in [Addresses -> Entries]
       /\ \A x \in Addresses : limiter'[x] = IF Touches(t, x) THEN t.entry ELSE limiter[x]
  BY <1>1, <1>3, <1>4, <1>6, <1>9 DEF Touches
<1>14. t.entry.start <= clock /\ t.entry.count <= Len(attempts) + 1 /\ t.entry.count <= MaxAttempts
  BY <1>1, <1>2, <1>4, <1>6, <1>7, <1>9
<1>15. LimiterSound(attempts', limiter', clock')
  BY <1>1, <1>2, <1>4, <1>9, <1>11, <1>12, <1>13, <1>14, Tried
<1> QED
  BY <1>1, <1>2, <1>15, AccessStays

\* A restart forgets the failures of all addresses.
LEMMA RedeployKeeps ==
    ASSUME AccessInv, NEW d \in Deployments, Redeploy(d) PROVE AccessInv'
<1> DEFINE t == [address |-> "all", at |-> clock, answer |-> "restart", retry |-> 0, entry |-> NoFailures]
<1>1. /\ limiter' = [a \in Addresses |-> NoFailures] /\ attempts' = Append(attempts, t)
      /\ conf' = d /\ UNCHANGED <<clock, jars, visits, logins, calls>>
  BY DEF Redeploy, conf
<1>2. clock \in Nat /\ clock \in 1..MaxClock /\ clock' = clock /\ MaxAttempts \in Nat
  BY <1>1, SessionsAssumption DEF AccessInv
<1>3. LimiterSound(attempts, limiter, clock) /\ attempts \in Seq(Attempts) /\ Len(attempts) \in Nat
  BY DEF AccessInv, LimiterSound, AttemptsSound
<1>4. NoFailures \in Entries /\ NoFailures.count = 0 /\ NoFailures.start = 0
  BY DEF NoFailures, Entries
<1>5. AttemptSound(t) /\ t.at = clock /\ Counted(limiter[t.address], t, clock)
  BY <1>2, <1>4 DEF AttemptSound, Attempts, Counted, Failed
<1>6. /\ limiter' \in [Addresses -> Entries]
      /\ \A a \in Addresses : limiter'[a] = IF Touches(t, a) THEN t.entry ELSE limiter[a]
  BY <1>1, <1>4 DEF Touches
<1>7. t.entry.start <= clock /\ t.entry.count <= Len(attempts) + 1 /\ t.entry.count <= MaxAttempts
  BY <1>2, <1>3, <1>4
<1> HIDE DEF t
<1>8. LimiterSound(attempts', limiter', clock')
  BY <1>1, <1>2, <1>3, <1>5, <1>6, <1>7, Tried
<1> QED
  BY <1>1, <1>2, <1>8, AccessStays

\* A logout empties the jar, or leaves what it may not overwrite.
LEMMA LogoutKeeps == ASSUME AccessInv, NEW b \in Browsers, Logout(b) PROVE AccessInv'
<1> DEFINE left == SetCookie(jars[b], "host", NoCookie)
<1>1. /\ jars' = [jars EXCEPT ![b] = SetCookie(left, "plain", NoCookie)]
      /\ visits' = [visits EXCEPT ![b] = IF conf.secure THEN "out" ELSE "out_plain"]
      /\ UNCHANGED <<clock, deployment, logins, limiter, attempts, calls>>
  BY DEF Logout
<1>2. NoCookie \in Cookies /\ "host" \in CookieNames /\ "plain" \in CookieNames
  BY DEF Cookies, CookieNames
<1>3. /\ jars[b] \in [CookieNames -> Cookies] /\ DOMAIN jars = Browsers
      /\ visits \in [Browsers -> {"never", "in", "out", "out_plain"}]
      /\ \A n \in CookieNames : Issued(logins, b, jars[b][n])
  BY DEF AccessInv, JarsSound
<1>4. /\ left \in [CookieNames -> Cookies]
      /\ \A n \in CookieNames : left[n] \in {jars[b][n], NoCookie}
      /\ conf.secure => left["host"] = NoCookie
  BY <1>2, <1>3, CookieSet
<1> HIDE DEF left
<1>5. /\ jars'[b] \in [CookieNames -> Cookies]
      /\ \A n \in CookieNames : jars'[b][n] \in {jars[b][n], NoCookie}
      /\ jars'[b]["plain"] = NoCookie /\ (conf.secure => jars'[b]["host"] = NoCookie)
  <2>1. jars'[b] = SetCookie(left, "plain", NoCookie)
    BY <1>1, <1>3
  <2>2. /\ SetCookie(left, "plain", NoCookie) \in [CookieNames -> Cookies]
        /\ \A n \in CookieNames : SetCookie(left, "plain", NoCookie)[n] \in {left[n], NoCookie}
        /\ SetCookie(left, "plain", NoCookie)["plain"] = NoCookie
    BY <1>2, <1>4 DEF SetCookie
  <2> QED
    BY <1>2, <1>4, <2>1, <2>2
<1>6. visits'[b] \in {"never", "out"} => Empty(jars'[b])
  BY <1>1, <1>3, <1>5 DEF Empty, CookieNames
<1>7. \A n \in CookieNames : Issued(logins, b, jars'[b][n])
  BY <1>3, <1>5 DEF Issued
<1>8. JarsSound'
  <2>1. \A x \in Browsers : x # b => jars'[x] = jars[x] /\ visits'[x] = visits[x]
    BY <1>1, <1>3
  <2> QED
    BY <1>1, <1>5, <1>6, <1>7, <2>1 DEF AccessInv, JarsSound
<1>9. /\ visits' \in [Browsers -> {"never", "in", "out", "out_plain"}] /\ DOMAIN jars' = Browsers
  BY <1>1, <1>3
<1>10. LoginsSound' /\ CallsSound' /\ LimiterSound(attempts, limiter, clock)'
  BY <1>1 DEF AccessInv, LoginsSound, CallsSound
<1> QED
  BY <1>1, <1>8, <1>9, <1>10 DEF AccessInv, conf

\* A write is sent with the cookies of its browser.
LEMMA SendCallKeeps == ASSUME AccessInv, NEW b \in Browsers, SendCall(b) PROVE AccessInv'
<1> DEFINE c == [browser |-> b, jar |-> jars[b], since |-> visits[b], stage |-> "sent", shown |-> "none",
                 passed |-> "none", dash |-> "none", passedAt |-> 0, cookie |-> NoCookie,
                 result |-> "none", session |-> NoCookie, api |-> "none", at |-> 0]
<1>1. calls' = Append(calls, c) /\ UNCHANGED <<clock, deployment, jars, visits, logins, limiter, attempts>>
  BY DEF SendCall
<1>2. /\ jars[b] \in [CookieNames -> Cookies] /\ visits[b] \in {"never", "in", "out", "out_plain"}
      /\ visits[b] \in {"never", "out"} => Empty(jars[b])
      /\ \A n \in CookieNames : Issued(logins, b, jars[b][n])
  BY DEF AccessInv, JarsSound
<1>3. NoCookie \in Cookies
  BY DEF Cookies
<1>4. /\ c \in Calls /\ c.browser = b /\ c.jar = jars[b] /\ c.since = visits[b] /\ c.stage = "sent"
      /\ c.shown = "none" /\ c.passed = "none" /\ c.cookie = NoCookie /\ c.result = "none"
      /\ c.session = NoCookie
  <2>1. c \in Calls
    BY <1>2, <1>3 DEF Calls, Results
  <2> QED
    BY <2>1
<1> HIDE DEF c
<1>5. CallSound(c, logins)
  BY <1>2, <1>4 DEF CallSound, SentTruly, GateTruly, ApiTruly, ShownTruly, Issued
<1>6. calls \in Seq(Calls) /\ \A i \in DOMAIN calls : CallSound(calls[i], logins)
  BY DEF AccessInv, CallsSound
<1>7. /\ calls' \in Seq(Calls) /\ DOMAIN calls = 1..Len(calls) /\ DOMAIN calls' = 1..(Len(calls) + 1)
      /\ \A i \in DOMAIN calls : calls'[i] = calls[i]
      /\ calls'[Len(calls) + 1] = c /\ Len(calls) \in Nat
  BY <1>1, <1>4, <1>6, Appended
<1>8. \A i \in DOMAIN calls' : CallSound(calls'[i], logins)
  BY <1>5, <1>6, <1>7
<1>9. CallsSound'
  BY <1>1, <1>7, <1>8 DEF CallsSound
<1>10. LoginsSound' /\ JarsSound' /\ LimiterSound(attempts, limiter, clock)'
  BY <1>1 DEF AccessInv, LoginsSound, JarsSound
<1> QED
  BY <1>1, <1>9, <1>10 DEF AccessInv, conf

\* Every step keeps the invariant.
LEMMA NextAccessKeeps == AccessInv /\ [AccessNext]_accessVars => AccessInv'
<1> SUFFICES ASSUME AccessInv, [AccessNext]_accessVars PROVE AccessInv'
  OBVIOUS
<1>1. clock \in Nat /\ conf \in Deployments /\ clock \in 1..MaxClock /\ MaxClock \in Nat
  BY SessionsAssumption DEF AccessInv
<1>2. ASSUME NEW i \in DOMAIN calls, Gate(i) PROVE AccessInv'
  <2>1. CallSound(calls[i], logins) /\ calls[i].stage = "sent"
    BY <1>2 DEF Gate, AccessInv, CallsSound
  <2> DEFINE c == calls[i]  cookie == Presented(c.jar)
             d == IF ~conf.gate \/ (ConfigSound(conf.dash) /\ Verified(conf.dash, cookie))
                  THEN [c EXCEPT !.stage = "through", !.passed = IF conf.gate THEN "checked" ELSE "open",
                                 !.dash = conf.dash, !.passedAt = clock, !.cookie = cookie]
                  ELSE [c EXCEPT !.stage = "answered", !.shown = Shown("text"), !.dash = conf.dash,
                                 !.passedAt = clock, !.cookie = cookie]
  <2>2. /\ calls' = [calls EXCEPT ![i] = d]
        /\ UNCHANGED <<clock, deployment, jars, visits, logins, limiter, attempts>>
    BY <1>2 DEF Gate
  <2>3. CallSound(d, logins)
    BY <1>1, <2>1, GateSound
  <2> HIDE DEF d
  <2> QED
    BY <2>2, <2>3, CallMoves
<1>3. ASSUME NEW i \in DOMAIN calls, Handle(i) PROVE AccessInv'
  <2>1. /\ CallSound(calls[i], logins) /\ calls[i].result = "none"
        /\ calls[i].stage = "through" \/ calls[i].shown = "unreachable"
    BY <1>3 DEF Handle, AccessInv, CallsSound
  <2>2. calls[i].stage # "sent"
    BY <2>1 DEF CallSound, ShownTruly
  <2> DEFINE c == calls[i]  cookie == Forwarded(c)
             result == IF conf.keys THEN SessionResult(cookie) ELSE "access"
             d == [c EXCEPT !.result = result, !.api = conf.api, !.at = clock,
                            !.session = IF result = "stored" THEN SessionId(cookie) ELSE NoCookie]
  <2>3. /\ calls' = [calls EXCEPT ![i] = d]
        /\ UNCHANGED <<clock, deployment, jars, visits, logins, limiter, attempts>>
    BY <1>3 DEF Handle
  <2>4. CallSound(d, logins)
    BY <1>1, <2>1, <2>2, HandleSound
  <2> HIDE DEF d
  <2> QED
    BY <2>3, <2>4, CallMoves
<1>4. ASSUME NEW i \in DOMAIN calls, NEW result, calls[i].stage = "through",
             result = "timeout" \/ (result = calls[i].result /\ result # "none"),
             calls' = [calls EXCEPT ![i] = [@ EXCEPT !.stage = "answered", !.shown = Shown(result)]],
             UNCHANGED <<clock, deployment, jars, visits, logins, limiter, attempts>>
      PROVE  AccessInv'
  <2> DEFINE c == calls[i]  d == [c EXCEPT !.stage = "answered", !.shown = Shown(result)]
  <2>1. CallSound(c, logins)
    BY DEF AccessInv, CallsSound
  <2>2. CallSound(d, logins)
    BY <1>4, <2>1, AnswerSound
  <2>3. calls' = [calls EXCEPT ![i] = d]
    BY <1>4
  <2> HIDE DEF d
  <2> QED
    BY <1>4, <2>2, <2>3, CallMoves
<1>5. ASSUME NEW i \in DOMAIN calls, Answer(i) PROVE AccessInv'
  BY <1>4, <1>5 DEF Answer
<1>6. ASSUME NEW i \in DOMAIN calls, GiveUp(i) PROVE AccessInv'
  BY <1>4, <1>6 DEF GiveUp
<1>7. CASE TickClock
  <2>1. /\ clock' \in 1..MaxClock /\ clock' \in Nat /\ clock <= clock' /\ conf' = conf
        /\ UNCHANGED <<jars, visits, logins, limiter, attempts, calls>>
    BY <1>1, <1>7 DEF TickClock, conf
  <2>2. LimiterSound(attempts, limiter, clock')
    BY <1>1, <2>1, LimiterLater DEF AccessInv
  <2> QED
    BY <1>1, <2>1, <2>2, AccessStays
<1>8. CASE UNCHANGED accessVars
  <2>1. UNCHANGED <<clock, conf, jars, visits, logins, limiter, attempts, calls>>
    BY <1>8 DEF accessVars, conf
  <2> QED
    BY <1>1, <2>1, AccessStays DEF AccessInv
<1> QED
  BY <1>2, <1>3, <1>5, <1>6, <1>7, <1>8, LoginKeeps, WrongPassphraseKeeps, LogoutKeeps, SendCallKeeps,
     RedeployKeeps DEF AccessNext

\* What the invariant says of each cookie and write is what is asked of them.
LEMMA AccessFollows == AccessInv => AccessIsOfLogin
<1> SUFFICES ASSUME AccessInv PROVE AccessIsOfLogin
  OBVIOUS
<1>1. clock \in Nat /\ Ttl \in Nat /\ MaxAttempts \in Nat
  BY SessionsAssumption DEF AccessInv
<1>2. \A b, cookie : Issued(logins, b, cookie) =>
        cookie \in {NoCookie} \cup [exp : 1..(clock + Ttl), secret : Secrets]
  <2> SUFFICES ASSUME NEW l \in logins
               PROVE  l.cookie \in [exp : 1..(clock + Ttl), secret : Secrets]
    BY DEF Issued
  <2>1. l.cookie \in Dates /\ l.at \in 1..clock /\ l.cookie.exp = l.at + Ttl
    BY DEF AccessInv, LoginsSound, Logins
  <2>2. l.cookie.exp \in 1..(clock + Ttl)
    BY <1>1, <2>1
  <2> QED
    BY <2>1, <2>2 DEF Dates
<1>3. ASSUME NEW i \in DOMAIN calls PROVE CallSound(calls[i], logins) /\ calls[i] \in Calls
  BY DEF AccessInv, CallsSound, CallSound
<1>4. AccessTypeOK
  <2>1. \A b \in Browsers : \A n \in CookieNames :
          jars[b][n] \in {NoCookie} \cup [exp : 1..(clock + Ttl), secret : Secrets]
    BY <1>2 DEF AccessInv, JarsSound
  <2>2. \A a \in Addresses : limiter[a].start \in 0..clock /\ limiter[a].count \in 0..MaxAttempts
    BY <1>1 DEF AccessInv, LimiterSound, Entries
  <2>3. ASSUME NEW i \in DOMAIN calls
        PROVE  /\ calls[i].stage \in {"sent", "through", "answered"}
               /\ calls[i].shown # "none" <=> calls[i].stage = "answered"
               /\ calls[i].session \in {NoCookie} \cup [exp : 1..(clock + Ttl), secret : Secrets]
               /\ calls[i].result = "stored" <=> calls[i].session # NoCookie
    <3>1. calls[i].stage \in {"sent", "through", "answered"}
      BY <1>3 DEF Calls
    <3>2. Issued(logins, calls[i].browser, calls[i].cookie)
      BY <1>3 DEF CallSound, SentTruly
    <3>3. calls[i].session = NoCookie \/ calls[i].session = calls[i].cookie
      BY <1>3 DEF CallSound, ApiTruly
    <3>4. calls[i].result = "stored" <=> calls[i].session # NoCookie
      BY <1>3 DEF CallSound, ApiTruly
    <3>5. calls[i].shown # "none" <=> calls[i].stage = "answered"
      BY <1>3 DEF CallSound, ShownTruly
    <3> QED
      BY <1>2, <3>1, <3>2, <3>3, <3>4, <3>5
  <2> QED
    BY <2>1, <2>2, <2>3 DEF AccessTypeOK, AccessInv
<1>5. RecordIsOfLogin
  <2> SUFFICES ASSUME NEW i \in DOMAIN calls, calls[i].result = "stored"
               PROVE  /\ calls[i].at < calls[i].session.exp /\ calls[i].session.secret = calls[i].api
                      /\ \E l \in logins : l.browser = calls[i].browser /\ l.cookie = calls[i].session
                      /\ \A l, k \in logins :
                           l.cookie = calls[i].session /\ k.cookie = calls[i].session => l.at = k.at
    BY DEF RecordIsOfLogin
  <2>1. /\ calls[i].session # NoCookie /\ calls[i].session = calls[i].cookie
        /\ calls[i].cookie.secret = calls[i].api /\ calls[i].at < calls[i].cookie.exp
    BY <1>3 DEF CallSound, ApiTruly
  <2>2. \E l \in logins : l.browser = calls[i].browser /\ l.cookie = calls[i].session
    BY <1>3, <2>1 DEF CallSound, SentTruly, Issued
  <2>3. \A l, k \in logins : l.cookie = k.cookie => l.at = k.at
    BY <1>1 DEF AccessInv, LoginsSound
  <2> QED
    BY <2>1, <2>2, <2>3
<1>6. AnswerHasCause
  <2> SUFFICES ASSUME NEW i \in DOMAIN calls, NEW c, c = calls[i]
               PROVE  /\ c.shown = "sign_in" /\ c.passed = "checked" =>
                           c.dash # c.api \/ (c.passedAt < c.cookie.exp /\ c.cookie.exp <= c.at)
                      /\ c.shown = "generic" =>
                           ~ConfigSound(c.dash) \/ c.cookie.secret # c.dash \/ c.cookie.exp <= c.passedAt
                      /\ c.passed = "checked" /\ c.shown \notin {"none", "saved", "unreachable"} =>
                           c.shown = "no_access" \/ c.dash # c.api \/ c.cookie.exp <= c.at
                      /\ c.shown = "saved" => c.result = "stored"
    BY DEF AnswerHasCause
  <2>1. c \in Calls /\ GateTruly(c) /\ ApiTruly(c) /\ ShownTruly(c)
    BY <1>3 DEF CallSound
  <2>2. c.shown \in {"none", "saved", "sign_in", "configuration", "no_access", "unreachable", "generic"}
    BY <2>1 DEF Calls
  <2> QED
    BY <2>1, <2>2 DEF GateTruly, ApiTruly, ShownTruly, ConfigSound
<1>7. PassedAfterLogin
  BY <1>3 DEF PassedAfterLogin, CallSound, GateTruly
<1>8. LimiterBounds /\ RetryAfterHolds
  BY LimiterLimits DEF AccessInv
<1> QED
  BY <1>4, <1>5, <1>6, <1>7, <1>8 DEF AccessIsOfLogin
-------------------------------------------------------------------------------
\* What is written from the dashboard is of a login of its browser that was not over; who
\* fails is told why; after a logout nobody passes the gate; and of one address fewer than
\* twice MaxFailures passphrases are refused as wrong within a window's length: however requests,
\* restarts with other configurations and time come between each other.
THEOREM AccessAlwaysOfLogin == AccessSpec => []AccessIsOfLogin
<1> QED
  BY InitAccess, NextAccessKeeps, AccessFollows, PTL DEF AccessSpec
===============================================================================
