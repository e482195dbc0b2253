-------------------------------- MODULE Routing --------------------------------
\* The kind of user a signal's source system stands for (policy-loader.ts): the routing
\* configuration of one organisation, read from the policies table into the cache of one
\* instance, else bundled with the code.  The policy chosen with it is PolicyLoader's.
EXTENDS Naturals, Sequences

CONSTANTS RoutingConfigs,    \* records [kind : {"config"}, map : systems -> user types, default : user types]
          RoutingFiles,      \* what an instance may find bundled: configurations, NoConfig
          MaxRoutingWrites   \* how often the item is written: a bound of the model

NoConfig == [kind |-> "none"]
\* What an item under the key "routing" may hold else: a policy, for the key is not
\* refused by the administration's PUT, and something that is no object.
PolicyDocument == [kind |-> "policy"]
NoObject == [kind |-> "text"]
Active(body) == [status |-> "active", body |-> body]
Disabled(body) == [status |-> "disabled", body |-> body]
Gone == [status |-> "absent", body |-> NoConfig]
RoutingItems == {Active(b) : b \in RoutingConfigs \cup {PolicyDocument, NoObject}}
                \cup {Disabled(b) : b \in RoutingConfigs} \cup {Gone}

\* "throws" is this module's own; a user type of the configurations is another.
ASSUME RoutingAssumption ==
  /\ \A c \in RoutingConfigs : /\ c.kind = "config" /\ c.default # "throws"
                               /\ \A s \in DOMAIN c.map : c.map[s] # "throws"
  /\ RoutingFiles \subseteq RoutingConfigs \cup {NoConfig}
  /\ MaxRoutingWrites \in Nat \ {0}

VARIABLES routeWrites,    \* what was written under the key, the first first
          routeFile,      \* the configuration bundled with the code
          routeCache,     \* the cached configuration, and whether it is fresh
          routeRead,      \* the refresh in progress: sent, answered with a configuration
          routeFailed,    \* whether a refresh of this process failed
          routed          \* the last answer: for what, with an entry cached, by which source, the kind of user
routeVars == <<routeWrites, routeFile, routeCache, routeRead, routeFailed, routed>>

NoRoute == [state |-> "none", config |-> NoConfig]
NoRead == [state |-> "idle", config |-> NoConfig]
NothingRouted == [ask |-> "none", cached |-> FALSE, by |-> "none", type |-> "none"]

RouteInit ==
  /\ routeWrites \in {<<item>> : item \in RoutingItems}
  /\ routeFile \in RoutingFiles
  /\ routeCache = NoRoute
  /\ routeRead = NoRead
  /\ routeFailed = FALSE
  /\ routed = NothingRouted

WriteRouting(item) ==
  /\ Len(routeWrites) < MaxRoutingWrites
  /\ routeWrites' = Append(routeWrites, item)
  /\ UNCHANGED <<routeFile, routeCache, routeRead, routeFailed, routed>>

\* A refresh is begun unless one is in progress; nobody waits for it.
WarmRouting ==
  IF routeRead = NoRead
    THEN routeRead' = [NoRead EXCEPT !.state = "sent"]
    ELSE UNCHANGED routeRead

\* An entry that has expired is served once more; an entry without a configuration, and
\* no entry, leave it to the file.
NeedsRefresh == routeCache.state # "fresh"
\* mutant: an expired entry counts as none
CachedWhileFresh == IF routeCache.state = "fresh" THEN routeCache.config ELSE NoConfig
CachedConfig == routeCache.config
ConfigInUse == IF CachedConfig # NoConfig THEN CachedConfig ELSE routeFile
Routed(ask, type) ==
  [ask |-> ask, cached |-> routeCache # NoRoute, type |-> type,
   by |-> IF CachedConfig # NoConfig THEN "table" ELSE "file"]
LoadRouting == IF NeedsRefresh THEN WarmRouting ELSE UNCHANGED routeRead

\* An evaluation asks by the signal's source system; a configuration without a map makes
\* it throw, and the signal is accepted without a decision.
UserTypeOf(config, system) ==
  IF config = NoConfig THEN "learner"
  ELSE IF config.kind # "config" THEN "throws"
  ELSE IF system \in DOMAIN config.map THEN config.map[system] ELSE config.default
ResolveUserType(system) ==
  /\ routed' = Routed("evaluation", UserTypeOf(ConfigInUse, system))
  /\ LoadRouting
  /\ UNCHANGED <<routeWrites, routeFile, routeCache, routeFailed>>
\* A summary asks for the default alone, and knows no other key than two.
SummaryKey(config) ==
  IF config.kind = "config" /\ config.default = "staff" THEN "staff" ELSE "learner"
ResolveSummaryPolicy ==
  /\ routed' = Routed("summary", SummaryKey(ConfigInUse))
  /\ LoadRouting
  /\ UNCHANGED <<routeWrites, routeFile, routeCache, routeFailed>>

\* The table is read without asking for consistency: the item, or the one it replaced.
RecentItems == {routeWrites[n] : n \in {Len(routeWrites), IF Len(routeWrites) > 1 THEN Len(routeWrites) - 1 ELSE 1}}
Usable(item) == IF item.status = "active" /\ item.body # NoObject THEN item.body ELSE NoConfig
ReadRouting ==
  /\ routeRead.state = "sent"
  /\ \E item \in RecentItems : routeRead' = [state |-> "answered", config |-> Usable(item)]
  /\ UNCHANGED <<routeWrites, routeFile, routeCache, routeFailed, routed>>
FailToRead ==
  /\ routeRead.state = "sent"
  /\ routeRead' = [state |-> "answered", config |-> NoConfig]
  /\ routeFailed' = TRUE
  /\ UNCHANGED <<routeWrites, routeFile, routeCache, routed>>
\* What was answered is kept for a time to live, a failure as well.
KeepRouting ==
  /\ routeRead.state = "answered"
  /\ routeCache' = [state |-> "fresh", config |-> routeRead.config]
  /\ routeRead' = NoRead
  /\ UNCHANGED <<routeWrites, routeFile, routeFailed, routed>>
ExpireRouting ==
  /\ routeCache.state = "fresh"
  /\ routeCache' = [routeCache EXCEPT !.state = "expired"]
  /\ UNCHANGED <<routeWrites, routeFile, routeRead, routeFailed, routed>>
RestartInstance ==
  /\ routeCache' = NoRoute /\ routeRead' = NoRead
  /\ routeFailed' = FALSE
  /\ routed' = NothingRouted
  /\ UNCHANGED <<routeWrites, routeFile>>

Systems == UNION {DOMAIN c.map : c \in RoutingConfigs} \cup {"unmapped"}
RouteNext ==
  \/ \E item \in RoutingItems : WriteRouting(item)
  \/ \E s \in Systems : ResolveUserType(s)
  \/ ResolveSummaryPolicy
  \/ ReadRouting
  \/ FailToRead
  \/ KeepRouting
  \/ ExpireRouting
  \/ RestartInstance

RouteSpec == RouteInit /\ [][RouteNext]_routeVars

\* The kinds of user that configurations name, and what an instance holds of an item.
MapTypes == UNION {{c.map[s] : s \in DOMAIN c.map} : c \in RoutingConfigs}
UserTypes == {c.default : c \in RoutingConfigs} \cup MapTypes \cup {"learner", "throws"}
HeldRoutes == RoutingConfigs \cup {NoConfig, PolicyDocument}
CachedRoutes == [state : {"fresh", "expired"}, config : HeldRoutes]
AnsweredReads == [state : {"answered"}, config : HeldRoutes]
RouteAnswers == [ask : {"evaluation", "summary"}, cached : BOOLEAN, by : {"table", "file"}, type : UserTypes]

\* The answers are user types of a configuration, whatever was stored under the key of the routing.
RouteTypeOK ==
  /\ routeWrites \in Seq(RoutingItems) /\ Len(routeWrites) \in 1..MaxRoutingWrites
  /\ routeFile \in RoutingFiles
  /\ routeCache \in {NoRoute} \cup CachedRoutes
  /\ routeRead \in {NoRead, [NoRead EXCEPT !.state = "sent"]} \cup AnsweredReads
  /\ routeFailed \in BOOLEAN
  /\ routed = NothingRouted \/ routed \in RouteAnswers

\* An instance that has read the table goes back to the file, or to no routing at all,
\* only when a read failed (which forgets the configuration the cache had: policy-loader.ts
\* 301) or the key held at some time something that is not in use; expiry alone, and
\* a refresh under way, never send it back.
FileHasCause ==
  routed.by = "file" /\ routed.cached /\ (\A n \in DOMAIN routeWrites : Usable(routeWrites[n]) # NoConfig)
    => routeFailed

\* An evaluation throws only once a policy was put under the key of the routing: neither a
\* file, nor a disabled item, nor one that is no object breaks decisions, however old.
ThrowsByPolicyDocument ==
  routed.type = "throws" =>
    /\ routed.ask = "evaluation" /\ routed.by = "table"
    /\ \E n \in DOMAIN routeWrites : routeWrites[n] = Active(PolicyDocument)

\* The user type of a signal is that of a configuration that was in force or is bundled, and an
\* instance falls back, or throws, for a reason only.
RoutesHaveCause ==
  /\ RouteTypeOK /\ FileHasCause /\ ThrowsByPolicyDocument
================================================================================
