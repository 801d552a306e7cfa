----------------------------- MODULE ModuleWiring -----------------------------
(***************************************************************************)
(* How an application comes up with the profiler in it: what each module   *)
(* brings when it is on and when it is off (nest-profiler.module.ts,       *)
(* collector-module.builder.ts and the packages' *.module.ts), what its    *)
(* providers need injected, how the packages find the core and register    *)
(* with it, where the routes end up under the host's global prefix, and    *)
(* which optional peers are found (utils/optional-peer.util.ts).           *)
(*                                                                         *)
(* Of Nest: a provider sees those of its own module, what the modules it   *)
(* imports export and what the global ones do; ModuleRef.get(strict: false)*)
(* sees every provider; configure() runs before the routes are built, and  *)
(* these before any onModuleInit.                                          *)
(***************************************************************************)
EXTENDS Naturals, Sequences, SequencesExt, FiniteSets

CONSTANTS
    WiHosts,    \* [modules: name -> "on" | "off", isGlobal, wants, prefixed, excluded, twice,
                \*  instruments, listeners, promotes, peers]
    WiPeers,    \* specifier -> how it is installed
    WiPaths     \* the host's own paths

VARIABLES
    wiHost,
    wiStage,        \* "built", "failed", "instantiated", "configured", "routed", "started"
    wiExcluded,     \* the exclusions of the global prefix: [path, deep]
    wiPrefixed,     \* the paths that got the prefix
    wiInits,        \* module -> how often its onModuleInit has run
    wiBooted,       \* modules whose onApplicationBootstrap has run
    wiCore,         \* what is registered with the core, in the order it was
    wiPeers         \* specifier -> status, of those asked for

wiVars == <<wiHost, wiStage, wiExcluded, wiPrefixed, wiInits, wiBooted, wiCore, wiPeers>>

-----------------------------------------------------------------------------
(* A provider: what its constructor must be given, what it takes if it is  *)
(* there, and whether its class is decorated as a collector.               *)
Provider(name, needs) == [name |-> name, needs |-> needs, collects |-> FALSE]
Collecting(name, needs) == [name |-> name, needs |-> needs, collects |-> TRUE]
Simple(names) == {Provider(name, {}) : name \in names}
Named(providers) == {p.name : p \in providers}

(* A module: built is FALSE of those not made by buildCollectorModule.     *)
ModuleShape(imports, providers) ==
    [imports |-> imports, providers |-> providers, exports |-> {}, kept |-> {}, built |-> TRUE]

Discovering == {"DiscoveryService", "MetadataScanner"}

CoreOptions == "NEST_PROFILER_MODULE_OPTIONS"
TracerAlone == Simple({"TracerService"})

ProfilerModule(isGlobal) ==
    [imports |-> {"ClsModule", "DiscoveryModule"},
     providers |-> Simple({CoreOptions, "PROFILER_STORAGE_ADAPTER", "ProfilerStorageService",
                           "TracerService", "ProfilerGuard", "ExplainRunnerRegistry",
                           "RuntimeMetricsService", "ClientAssetRegistry", "ProfilerExceptionFilter"})
         \cup {Provider("ProfilerMiddleware", {"ClsService"}),
               Provider("CollectorRegistry", Discovering), Collecting("RouteCollector", Discovering),
               Collecting("RuntimeCollector", {"RuntimeMetricsService"}),
               Provider("TemplateRendererService", {"ClientAssetRegistry"}),
               Provider("ProfilerCoreService",
                        {"ProfilerStorageService", "CollectorRegistry", "RouteCollector"}),
               Provider("ProfilerInterceptor", {"ClsService", "ProfilerCoreService"}),
               Provider("ProfilerController",
                        {"ProfilerCoreService", "TemplateRendererService", "ClientAssetRegistry",
                         "ExplainRunnerRegistry", CoreOptions})},
     exports |-> {"TracerService", "ProfilerStorageService", "CollectorRegistry",
                  "ExplainRunnerRegistry", "TemplateRendererService", "ClientAssetRegistry",
                  "ProfilerCoreService", "RuntimeMetricsService"},
     global |-> isGlobal, branded |-> TRUE]

InertProfiler(isGlobal) ==
    [imports |-> {}, providers |-> TracerAlone, exports |-> {"TracerService"},
     global |-> isGlobal, branded |-> TRUE]

ProfilerNoopModule(isGlobal) ==
    [imports |-> {}, providers |-> TracerAlone, exports |-> {"TracerService"},
     global |-> isGlobal, branded |-> FALSE]

HttpShape(instruments) ==
    LET recorder == Provider("HttpProfilerRecorder", {"HTTP_COLLECTOR_OPTIONS"})
        options == Provider("HTTP_COLLECTOR_OPTIONS", {})
        axios == IF "axios" \in instruments
                 THEN {Provider("AxiosInstrumentation", {"DiscoveryService"})} ELSE {}
    IN  [imports |-> {"DiscoveryModule"},
         providers |-> axios \cup {options, recorder, Collecting("HttpClientCollector", {}),
             Provider("HttpClientAssetRegistrar", {}), Provider("HTTP_INSTRUMENTATIONS", Named(axios)),
             Provider("HttpInstrumentationRunner", {"HTTP_INSTRUMENTATIONS", "HttpProfilerRecorder"})},
         exports |-> {"HttpProfilerRecorder"}, kept |-> {options, recorder}, built |-> TRUE]

AiModuleShape(instruments) ==
    LET harness == IF "harness" \in instruments THEN Simple({"HarnessInstrumentation"}) ELSE {}
    IN  ModuleShape({}, harness \cup {Collecting("AiCollector", {}),
                                Provider("AI_INSTRUMENTATIONS", Named(harness))})

GraphqlShape == ModuleShape({}, Simple({"GraphQLContextAdapter", "GraphqlDiscoverSource"}))
RabbitMqShape ==
    ModuleShape({"DiscoveryModule"},
          {Provider("RabbitMqContextAdapter", {}), Provider("RabbitMqDiscoverSource", Discovering)})
RabbitMqPublishShape ==
    ModuleShape({}, {Provider("RabbitMqPublishPatch", {}), Collecting("RabbitMqPublishCollector", {})})
EventEmitterShape ==
    ModuleShape({"DiscoveryModule"},
          {Provider("EventEmitterPatch", {}), Collecting("EventEmitterCollector", {}),
           Provider("EventProfilerService", Discovering), Provider("EventDiscoverSource", Discovering)})
CommanderShape ==
    [ModuleShape({"DiscoveryModule"},
           {Provider("CommandProfiler", {}), Provider("CommanderDiscoverSource", Discovering),
            Provider("CommandProfilerExplorer", {"DiscoveryService", "CommandProfiler"})})
     EXCEPT !.built = FALSE]
CacheShape ==
    [ModuleShape({}, {Provider("CacheManagerPatch", {}), Collecting("CacheCollector", {})})
     EXCEPT !.built = FALSE]
RoutesShape ==
    ModuleShape({"DiscoveryModule"},
          {Collecting("RoutesCollector", {}), Provider("HttpDiscoverSource", Discovering)})
TypeOrmShape ==
    ModuleShape({}, Simple({"TypeOrmDriverPatch", "TypeOrmExplainRunner"})
              \cup {Collecting("TypeOrmCollector", {})})
TypeOrmSchemaShape == ModuleShape({}, {Collecting("TypeOrmSchemaCollector", {})})
MikroOrmShape ==
    ModuleShape({}, Simple({"MikroOrmLoggerPatch", "MikroOrmExplainRunner"})
              \cup {Collecting("MikroOrmCollector", {})})
MikroOrmSchemaShape == ModuleShape({}, {Collecting("MikroOrmSchemaCollector", {})})
MongooseShape ==
    ModuleShape({}, {Provider("MongooseConnectionPatch", {}), Collecting("MongooseCollector", {})})
MongooseSchemaShape == ModuleShape({}, {Collecting("MongooseSchemaCollector", {})})
AuthShape == ModuleShape({}, {Collecting("AuthCollector", {})})
ConfigShape == ModuleShape({}, {Collecting("ConfigCollector", {})})
ValidatorShape == ModuleShape({}, {Collecting("ValidatorCollector", {})})

Shapes(host) ==
    [http |-> HttpShape(host.instruments), ai |-> AiModuleShape(host.instruments),
     graphql |-> GraphqlShape, rabbitmq |-> RabbitMqShape, publish |-> RabbitMqPublishShape,
     events |-> EventEmitterShape, commander |-> CommanderShape, cache |-> CacheShape,
     routes |-> RoutesShape, typeorm |-> TypeOrmShape, typeormSchema |-> TypeOrmSchemaShape,
     mikro |-> MikroOrmShape, mikroSchema |-> MikroOrmSchemaShape, mongoose |-> MongooseShape,
     mongooseSchema |-> MongooseSchemaShape, auth |-> AuthShape, config |-> ConfigShape,
     validator |-> ValidatorShape]

ASSUME WiAssumption ==
    \A host \in WiHosts : DOMAIN host.modules \subseteq {"core", "noop"} \cup DOMAIN Shapes(host)

BuildCollectorModule(shape, on) ==
    [imports |-> IF on THEN shape.imports ELSE {},
     providers |-> IF on THEN shape.providers ELSE shape.kept,
     exports |-> shape.exports, global |-> FALSE, branded |-> on /\ shape.built]

NestModules ==
    [DiscoveryModule |-> [imports |-> {}, providers |-> Simple(Discovering), exports |-> Discovering,
                          global |-> FALSE, branded |-> FALSE],
     ClsModule |-> [imports |-> {}, providers |-> Simple({"ClsService"}), exports |-> {"ClsService"},
                    global |-> TRUE, branded |-> FALSE]]

IsOn(name) == name \in DOMAIN wiHost.modules /\ wiHost.modules[name] = "on"

Module(name) ==
    IF name = "core" THEN IF IsOn("core") THEN ProfilerModule(wiHost.isGlobal)
                          ELSE InertProfiler(wiHost.isGlobal)
    ELSE IF name = "noop" THEN ProfilerNoopModule(wiHost.isGlobal)
    ELSE IF name \in DOMAIN NestModules THEN NestModules[name]
    ELSE BuildCollectorModule(Shapes(wiHost)[name], IsOn(name))

Modules ==
    LET named == DOMAIN wiHost.modules
    IN  named \cup UNION {Module(name).imports : name \in named}

-----------------------------------------------------------------------------
(* What is in sight of a module, and of the application; a module may only *)
(* export what it provides.                                                *)
Exported(names) == UNION {Module(name).exports : name \in names}
GlobalOnes == {name \in Modules : Module(name).global}

Scope(name) ==
    Named(Module(name).providers) \cup Exported(Module(name).imports \cup GlobalOnes)

Anywhere == UNION {Named(Module(name).providers) : name \in Modules}

Missing ==
    UNION {UNION {p.needs \ Scope(name) : p \in Module(name).providers} : name \in Modules}
    \cup UNION {Module(name).exports \ Named(Module(name).providers) : name \in Modules}
    \cup (wiHost.wants \ Exported(DOMAIN wiHost.modules))

Instantiate ==
    /\ wiStage = "built"
    /\ wiStage' = IF Missing = {} THEN "instantiated" ELSE "failed"
    /\ UNCHANGED <<wiHost, wiExcluded, wiPrefixed, wiInits, wiBooted, wiCore, wiPeers>>

-----------------------------------------------------------------------------
(* The global prefix.                                                      *)
Base == <<"_profiler">>
Matches(pattern, path) ==
    IF pattern.deep THEN Len(path) > Len(pattern.path) /\ IsPrefix(pattern.path, path)
    ELSE path = pattern.path

ProfilerExclusions == {[path |-> Base, deep |-> FALSE], [path |-> Base, deep |-> TRUE]}

ExcludeFromGlobalPrefix(excluded) ==
    IF \E pattern \in excluded : Matches(pattern, Base) THEN excluded
    ELSE excluded \cup ProfilerExclusions

Configure ==
    /\ wiStage = "instantiated"
    /\ wiStage' = "configured"
    /\ wiExcluded' = IF IsOn("core") THEN ExcludeFromGlobalPrefix(wiExcluded) ELSE wiExcluded
    /\ UNCHANGED <<wiHost, wiPrefixed, wiInits, wiBooted, wiCore, wiPeers>>

ProfilerPaths == IF IsOn("core") THEN {Base, Append(Base, "token")} ELSE {}

RegisterRouter ==
    /\ wiStage = "configured"
    /\ wiStage' = "routed"
    /\ wiPrefixed' = {path \in WiPaths \cup ProfilerPaths :
                         wiHost.prefixed /\ \A pattern \in wiExcluded : ~Matches(pattern, path)}
    /\ UNCHANGED <<wiHost, wiExcluded, wiInits, wiBooted, wiCore, wiPeers>>

-----------------------------------------------------------------------------
(* Registrations with the core; each list keeps the first of a key.        *)
Once(list, key) == IF Contains(list, key) THEN list ELSE Append(list, key)

(* What a module registers, as <<list, key>>, and how it finds the core.   *)
AtInit(name) ==
    CASE name = "graphql"   -> {<<"adapters", name>>, <<"types", name>>, <<"sources", name>>}
      [] name = "rabbitmq"  -> {<<"adapters", name>>, <<"types", name>>}
      [] name = "commander" -> {<<"types", name>>}
      [] name = "ai"        -> IF wiHost.promotes THEN {<<"types", name>>} ELSE {}
      [] name \in {"typeorm", "mikro"} -> {<<"runners", name>>}
      [] name = "http"      -> {<<"scripts", name>>}
      [] OTHER -> {}

AtBootstrap(name) ==
    CASE name = "rabbitmq"  -> {<<"sources", name>>}
      [] name = "commander" -> {<<"sources", name>>}
      [] name = "routes"    -> {<<"sources", name>>}
      [] name = "events"    -> {<<"sources", name>>}
                               \cup IF wiHost.listeners THEN {<<"types", name>>} ELSE {}
      [] OTHER -> {}

FindsTheCore(name) ==
    IF name = "http" THEN "ClientAssetRegistry" \in Scope(name) ELSE "ProfilerCoreService" \in Anywhere

RegisterAll(name, items) ==
    IF IsOn(name) /\ FindsTheCore(name)
    THEN [list \in DOMAIN wiCore |->
             IF <<list, name>> \in items THEN Once(wiCore[list], name) ELSE wiCore[list]]
    ELSE wiCore

(* CollectorRegistry looks the whole container over for collectors.        *)
Discovered ==
    UNION {{p.name : p \in {q \in Module(name).providers : q.collects}} : name \in Modules}

Hooked == DOMAIN wiHost.modules

OnModuleInit(name) ==
    /\ wiStage = "routed" /\ name \in Hooked
    /\ wiInits[name] < IF name \in wiHost.twice THEN 2 ELSE 1
    /\ wiInits' = [wiInits EXCEPT ![name] = @ + 1]
    /\ wiCore' = IF name = "core" /\ IsOn(name) THEN [wiCore EXCEPT !.collectors = SetToSeq(Discovered)]
                 ELSE RegisterAll(name, AtInit(name))
    /\ UNCHANGED <<wiHost, wiStage, wiExcluded, wiPrefixed, wiBooted, wiPeers>>

OnApplicationBootstrap(name) ==
    /\ wiStage = "routed" /\ name \in Hooked \ wiBooted
    /\ \A other \in Hooked : wiInits[other] > 0
    /\ wiBooted' = wiBooted \cup {name}
    /\ wiCore' = RegisterAll(name, AtBootstrap(name))
    /\ UNCHANGED <<wiHost, wiStage, wiExcluded, wiPrefixed, wiInits, wiPeers>>

-----------------------------------------------------------------------------
(* An optional peer: [installed, file, subpath, refused, runs, manifests,  *)
(* main]; its manifests are those on the way up from its entry point.      *)
RequireModule(peer) ==
    LET error(code, names) == [status |-> "error", code |-> code, names |-> names]
    IN  IF ~peer.installed THEN error("MODULE_NOT_FOUND", TRUE)
        ELSE IF peer.subpath /\ peer.refused # "no" THEN error(peer.refused, TRUE)
        ELSE IF ~peer.file THEN error("MODULE_NOT_FOUND", TRUE)
        ELSE IF peer.runs = "throws" THEN error("none", FALSE)
        ELSE IF peer.runs = "lacks a dependency" THEN error("MODULE_NOT_FOUND", FALSE)
        ELSE [status |-> "loaded"]

IsMissing(error) == error.code \in {"MODULE_NOT_FOUND", "ERR_MODULE_NOT_FOUND"} /\ error.names

(* The first manifest of its name on the way up is the package's root.     *)
RootFound(peer) ==
    \E i \in DOMAIN peer.manifests :
        /\ peer.manifests[i] = "own" /\ \A j \in 1..(i - 1) : peer.manifests[j] # "own"
        /\ \A j \in (i + 1)..Len(peer.manifests) : peer.manifests[j] # "own"

LoadThroughPackageRoot(peer) ==
    peer.subpath /\ peer.installed /\ peer.main /\ RootFound(peer) /\ peer.file /\ peer.runs = "fine"

ResolveOptionalPeer(peer) ==
    LET required == RequireModule(peer)
    IN  IF required.status = "loaded" \/ LoadThroughPackageRoot(peer) THEN "loaded"
        ELSE IF IsMissing(required) THEN "absent" ELSE "broken"

LoadOptionalPeer(specifier) ==
    /\ wiStage = "routed" /\ specifier \in wiHost.peers \ DOMAIN wiPeers
    /\ wiPeers' = [s \in DOMAIN wiPeers \cup {specifier} |->
                      IF s = specifier THEN ResolveOptionalPeer(WiPeers[specifier]) ELSE wiPeers[s]]
    /\ UNCHANGED <<wiHost, wiStage, wiExcluded, wiPrefixed, wiInits, wiBooted, wiCore>>

Listen ==
    /\ wiStage = "routed" /\ wiBooted = Hooked
    /\ wiStage' = "started"
    /\ UNCHANGED <<wiHost, wiExcluded, wiPrefixed, wiInits, wiBooted, wiCore, wiPeers>>

-----------------------------------------------------------------------------
WiStart(host) ==
    /\ wiHost = host
    /\ wiStage = "built"
    /\ wiExcluded = host.excluded
    /\ wiPrefixed = {}
    /\ wiInits = [name \in DOMAIN host.modules |-> 0]
    /\ wiBooted = {}
    /\ wiCore = [list \in {"adapters", "types", "sources", "runners", "scripts", "collectors"} |-> <<>>]
    /\ wiPeers = [s \in {} |-> "absent"]

WiInit == \E host \in WiHosts : WiStart(host)

WiNext ==
    \/ Instantiate \/ Configure \/ RegisterRouter \/ Listen
    \/ \E name \in DOMAIN wiHost.modules : OnModuleInit(name) \/ OnApplicationBootstrap(name)
    \/ \E specifier \in DOMAIN WiPeers : LoadOptionalPeer(specifier)

-----------------------------------------------------------------------------
WiTypeOK ==
    /\ wiStage \in {"built", "failed", "instantiated", "configured", "routed", "started"}
    /\ \A list \in DOMAIN wiCore : IsInjective(wiCore[list])
    /\ wiBooted \subseteq Hooked

(* Whatever is on, off or left out, and whether the core is global or not, *)
(* every injection is met: a package never keeps an application down, nor  *)
(* does one that is off take away what the host injects.                   *)
ApplicationAlwaysStarts == wiStage # "failed"

(* Once up, the core knows all that the packages that are on have for it,  *)
(* in whatever order they came up, and nothing of the others.              *)
PackagesReachTheCore ==
    wiStage = "started" =>
        /\ \A name \in Hooked : \A item \in AtInit(name) \cup AtBootstrap(name) :
             Contains(wiCore[item[1]], item[2])
             <=> /\ IsOn(name) /\ IsOn("core")
                 /\ item[1] = "scripts" => wiHost.isGlobal
        /\ IsOn("core") <=> Contains(wiCore.collectors, "RouteCollector")
        /\ \A name \in Hooked \ {"core", "noop"} : IsOn("core") /\ IsOn(name) =>
             \A p \in Module(name).providers : p.collects => Contains(wiCore.collectors, p.name)

(* The profiler is served where its links point, whatever prefix the host  *)
(* sets, unless the host excluded the first page alone by hand; and the    *)
(* host's own routes are where it wants them.                              *)
UiKeepsItsPath ==
    wiStage \in {"routed", "started"} =>
        /\ Base \notin wiPrefixed
        /\ ProfilerPaths \cap wiPrefixed # {} =>
             [path |-> Base, deep |-> FALSE] \in wiHost.excluded
        /\ \A path \in WiPaths :
             path \in wiPrefixed
             <=> wiHost.prefixed /\ ~\E pattern \in wiHost.excluded : Matches(pattern, path)

(* Nothing of the profiler is instrumented as the application's, the       *)
(* helpers of the two modules written by hand excepted.                    *)
ProfilerIsNotInstrumented ==
    \A name \in Hooked : IsOn(name) => \A p \in Module(name).providers :
        Module(name).branded \/ p.collects \/ name \in {"cache", "commander", "noop"}

(* A peer that is there is used, one that is not is absent, and one that   *)
(* is there and does not work is neither, unless its own entry cannot be   *)
(* told from a missing one.                                                *)
PeersAreToldApart ==
    \A specifier \in DOMAIN wiPeers :
        LET peer == WiPeers[specifier]
        IN  /\ ~peer.installed => wiPeers[specifier] = "absent"
            /\ peer.installed /\ peer.file /\ peer.runs # "fine" /\ peer.refused # "MODULE_NOT_FOUND" =>
                 wiPeers[specifier] = "broken"
            /\ peer.installed /\ peer.file /\ peer.runs = "fine" =>
                 wiPeers[specifier] = "loaded" \/ (peer.subpath /\ ~(peer.main /\ RootFound(peer)))

(* The whole of it.                                                        *)
ApplicationComesUpWhole ==
    /\ ApplicationAlwaysStarts
    /\ PackagesReachTheCore
    /\ UiKeepsItsPath
    /\ ProfilerIsNotInstrumented
    /\ PeersAreToldApart
==============================================================================
