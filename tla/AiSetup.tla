------------------------------ MODULE AiSetup ------------------------------
(***************************************************************************)
(* What the AI package holds once per process: the registered telemetry    *)
(* integration, the capture levels, the price registry, and the harness    *)
(* agents taught to report to the integration (ai-collector.module.ts,     *)
(* ai-capture.ts, ai-pricing.ts, harness.instrumentation.ts).  Several     *)
(* application instances of one process run onModuleInit.                  *)
(***************************************************************************)
EXTENDS Integers, FiniteSets, Sequences

CONSTANTS
    AsApps,      \* application instances of the process
    AsOptions,   \* app -> [capture, source, ttl]: its module options
    AsAgents,    \* harness agents of the application
    AsUsages,    \* token usages a model call may report
    AsMaxTime,   \* bound: the clock
    AsMaxLoads,  \* bound: price loads started
    AsNone

AsFields == {"messages", "toolResults", "runtimeContext"}
AsLevels == {"none", "metadata", "redacted", "full"}
AsGroupOf == [messages |-> "prompt", toolResults |-> "tools", runtimeContext |-> AsNone]

ASSUME AsAssumption ==
    /\ AsMaxTime \in Nat /\ AsMaxLoads \in Nat
    /\ AsUsages \subseteq [input : Nat, cacheRead : Nat, cacheWrite : Nat, output : Nat,
                          reasoning : Nat]
    /\ \A a \in AsApps : /\ AsOptions[a].ttl \in Nat
                         /\ AsOptions[a].source \in BOOLEAN
                         /\ \A k \in DOMAIN AsOptions[a].capture :
                              AsOptions[a].capture[k] \in AsLevels

VARIABLES
    asStage,     \* app -> "new", "importing", "installing", "ready"
    telemetry,   \* module-level `telemetry`: the app whose integration it is
    registered,  \* integrations handed to the SDK's registerTelemetry
    captureLevels,
    pricing,     \* the price registry's module state
    loads,       \* calls of a pricing source not settled: set of [app, n]
    asStarted,   \* price loads started so far
    asCleanConfig, \* was no load in flight when the registry was configured
    asNow,
    asBill,      \* the last cost estimated: [usage, price, cost]
    harness,     \* the integration HarnessAgent's prototype was patched with
    agentTelemetry \* agent -> its telemetry settings

asVars == <<asStage, telemetry, registered, captureLevels, pricing, loads, asStarted,
            asCleanConfig, asNow, asBill, harness, agentTelemetry>>

-----------------------------------------------------------------------------
(* resolveLevels: a field, then its group, then the default, then the      *)
(* deprecated switch, then `redacted`; an opt-in field only when named.    *)
AsSetting(capture, k) == IF k \in DOMAIN capture THEN capture[k] ELSE AsNone
FirstOf(levels) ==
    LET given == {i \in DOMAIN levels : levels[i] # AsNone}
    IN  IF given = {} THEN "redacted"
        ELSE levels[CHOOSE i \in given : \A j \in given : i <= j]

ResolveLevels(capture) ==
    [f \in AsFields |->
        IF f = "runtimeContext"
        THEN FirstOf(<<AsSetting(capture, f), "none">>)
        ELSE FirstOf(<<AsSetting(capture, f), AsSetting(capture, AsGroupOf[f]),
                       AsSetting(capture, "default"), AsSetting(capture, "legacy")>>)]

-----------------------------------------------------------------------------
(* The price registry.  Rates are in price units per token.                *)

ConfiguredPricing(a) ==
    [app |-> a, source |-> AsOptions[a].source, ttl |-> AsOptions[a].ttl,
     loaded |-> AsNone, loadedAt |-> 0, loading |-> FALSE]

IsStale(p) == p.loadedAt = 0 \/ (p.ttl > 0 /\ asNow - p.loadedAt >= p.ttl)

(* load of a source that answers with a promise, up to its call.           *)
SourceAsked(p) ==
    /\ pricing' = [p EXCEPT !.loading = TRUE]
    /\ loads' = loads \cup {[app |-> p.app, n |-> asStarted + 1]}

(* load of a source that throws before it returns a promise: nothing is    *)
(* awaited, so load clears `loading` and the caller then assigns it the    *)
(* promise of this finished load.  Nothing clears it again but another     *)
(* configureAiPricing.                                                     *)
SourceThrows(p) ==
    /\ pricing' = [p EXCEPT !.loaded = AsNone, !.loadedAt = asNow, !.loading = TRUE]
    /\ UNCHANGED loads

StartLoad(p) ==
    /\ SourceAsked(p) \/ SourceThrows(p)
    /\ asStarted' = asStarted + 1

(* refreshIfStale, loadAiPricing: both join a load in flight.              *)
NeedsLoad(p) == p.source /\ ~p.loading /\ IsStale(p)
RefreshIfStale(p) ==
    IF NeedsLoad(p) THEN StartLoad(p)
    ELSE pricing' = p /\ UNCHANGED <<loads, asStarted>>

(* load, once the promise settled: a failure empties the table and counts  *)
(* as a load all the same.  Which registry it was started for is not       *)
(* looked at.                                                              *)
LoadSettles(l, answered) ==
    /\ loads' = loads \ {l}
    /\ pricing' = [pricing EXCEPT !.loaded = IF answered THEN l.app ELSE AsNone,
                                  !.loadedAt = asNow, !.loading = FALSE]
    /\ UNCHANGED <<asStage, telemetry, registered, captureLevels, asStarted,
                   asCleanConfig, asNow, asBill, harness, agentTelemetry>>

AtLeastZero(n) == IF n < 0 THEN 0 ELSE n

(* estimateCost: cached and thinking tokens are counted in the totals, so  *)
(* they are taken out of them before each rate applies.                    *)
EstimateCost(usage, price) ==
    AtLeastZero(usage.input - usage.cacheRead - usage.cacheWrite) * price.input
    + usage.cacheRead * price.cacheRead + usage.cacheWrite * price.cacheWrite
    + AtLeastZero(usage.output - usage.reasoning) * price.output
    + usage.reasoning * price.reasoning

AsPrice == [input |-> 2, cacheRead |-> 1, cacheWrite |-> 3, output |-> 4, reasoning |-> 5]

(* A model call is priced: the registry refreshes itself in the background,*)
(* and the call is priced with what is loaded now.                         *)
PriceCall(usage) ==
    /\ pricing.app # AsNone /\ asStarted < AsMaxLoads
    /\ RefreshIfStale(pricing)
    /\ asBill' = IF pricing.loaded = AsNone THEN AsNone
                 ELSE [usage |-> usage, cost |-> EstimateCost(usage, AsPrice)]
    /\ UNCHANGED <<asStage, telemetry, registered, captureLevels, asCleanConfig, asNow,
                   harness, agentTelemetry>>

Tick ==
    /\ asNow < AsMaxTime /\ asNow' = asNow + 1
    /\ UNCHANGED <<asStage, telemetry, registered, captureLevels, pricing, loads, asStarted,
                   asCleanConfig, asBill, harness, agentTelemetry>>

-----------------------------------------------------------------------------
AsStart(settings) ==
    /\ asStage = [a \in AsApps |-> "new"]
    /\ telemetry = AsNone /\ registered = {}
    /\ captureLevels = ResolveLevels(<<>>)
    /\ pricing = [app |-> AsNone, source |-> FALSE, ttl |-> 0, loaded |-> AsNone,
                  loadedAt |-> 0, loading |-> FALSE]
    /\ loads = {} /\ asStarted = 0 /\ asCleanConfig = TRUE /\ asNow = 1
    /\ asBill = AsNone
    /\ harness = AsNone
    /\ agentTelemetry = settings

(* What the telemetry settings of an agent may say: nothing, switched off, *)
(* the process-wide integrations only, or integrations of its own.         *)
AsSettings ==
    [set : {FALSE}, enabled : {TRUE}, local : {FALSE}, integrations : {{}}]
    \cup [set : {TRUE}, enabled : {FALSE}, local : {TRUE}, integrations : {{}}]
    \cup [set : {TRUE}, enabled : {TRUE}, local : {FALSE}, integrations : {{}}]
    \cup [set : {TRUE}, enabled : {TRUE}, local : {TRUE}, integrations : {{"tracing"}}]

AsInit == \E settings \in [AsAgents -> AsSettings] : AsStart(settings)

(* onModuleInit, up to its first await: everything is reset and configured *)
(* again, then the SDK is imported unless an integration is registered.    *)
ModuleInit(a) ==
    /\ asStage[a] = "new" /\ asStarted < AsMaxLoads
    /\ captureLevels' = ResolveLevels(AsOptions[a].capture)
    /\ RefreshIfStale(ConfiguredPricing(a))
    /\ asCleanConfig' = (loads = {})
    /\ asStage' = [asStage EXCEPT ![a] = IF telemetry = AsNone THEN "importing" ELSE "installing"]
    /\ UNCHANGED <<telemetry, registered, asNow, asBill, harness, agentTelemetry>>

(* After the import: register.  ToolLoopAgent's prototype is marked, so the*)
(* agent class is wrapped once whoever gets here.                          *)
Registers(a) ==
    /\ asStage[a] = "importing"
    /\ telemetry' = a
    /\ registered' = registered \cup {a}
    /\ asStage' = [asStage EXCEPT ![a] = "installing"]
    /\ UNCHANGED <<captureLevels, pricing, loads, asStarted, asCleanConfig, asNow, asBill,
                   harness, agentTelemetry>>

(* install: the harness instrumentation patches the prototype once; one    *)
(* that fails (no such peer) is reported and leaves the application up.    *)
Installs(a, installs) ==
    /\ asStage[a] = "installing"
    /\ harness' = IF installs /\ harness = AsNone THEN telemetry ELSE harness
    /\ asStage' = [asStage EXCEPT ![a] = "ready"]
    /\ UNCHANGED <<telemetry, registered, captureLevels, pricing, loads, asStarted,
                   asCleanConfig, asNow, asBill, agentTelemetry>>

(* harnessTelemetryFor *)
HarnessTelemetryFor(settings, integration) ==
    IF ~settings.set
    THEN [set |-> TRUE, enabled |-> TRUE, local |-> TRUE, integrations |-> {integration}]
    ELSE IF ~settings.enabled \/ ~settings.local THEN settings
    ELSE [settings EXCEPT !.integrations = @ \cup {integration}]

(* A harness agent runs a turn: its settings are completed first.          *)
HarnessTurn(g) ==
    /\ harness # AsNone
    /\ agentTelemetry' = [agentTelemetry EXCEPT ![g] = HarnessTelemetryFor(@, harness)]
    /\ UNCHANGED <<asStage, telemetry, registered, captureLevels, pricing, loads, asStarted,
                   asCleanConfig, asNow, asBill, harness>>

AsNext ==
    \/ \E a \in AsApps : \/ ModuleInit(a) \/ Registers(a)
                         \/ \E installs \in BOOLEAN : Installs(a, installs)
    \/ \E l \in loads, answered \in BOOLEAN : LoadSettles(l, answered)
    \/ \E usage \in AsUsages : PriceCall(usage)
    \/ \E g \in AsAgents : HarnessTurn(g)
    \/ Tick

AsSpec == AsInit /\ [][AsNext]_asVars

-----------------------------------------------------------------------------
(* Types: what the variables may hold.                                     *)
AsTypeOK ==
    /\ telemetry \in AsApps \cup {AsNone} /\ registered \subseteq AsApps
    /\ captureLevels \in [AsFields -> AsLevels]
    /\ pricing.loaded \in AsApps \cup {AsNone} /\ pricing.loadedAt <= asNow
    /\ asStarted <= AsMaxLoads

(* Provided no load was in flight when an instance configured the registry *)
(* (else see the README), and at whatever point loads settle: the source is*)
(* asked once at a time, the guard that keeps others from asking is set    *)
(* while it is, and the prices in force are those of that instance.  A     *)
(* guard that outlived its load is that of a source that threw where it was*)
(* called, and no price is served.                                         *)
AiOneLoadAtATime ==
    asCleanConfig => /\ Cardinality(loads) <= 1
                     /\ loads # {} => pricing.loading
                     /\ pricing.loading /\ loads = {} => pricing.loaded = AsNone
                     /\ pricing.loaded \in {pricing.app, AsNone}

(* No token is billed twice: the cost lies between those of the call's     *)
(* distinct tokens at the lowest and at the highest of the rates.          *)
AiBilledOnce ==
    asBill # AsNone =>
        LET u == asBill.usage
            Larger(x, y) == IF x < y THEN y ELSE x
            in  == Larger(u.input, u.cacheRead + u.cacheWrite)
            out == Larger(u.output, u.reasoning)
        IN  /\ asBill.cost >= 1 * in + 4 * out
            /\ asBill.cost <= 3 * in + 5 * out
=============================================================================
