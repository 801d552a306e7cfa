------------------------------ MODULE MCPackages ------------------------------
(***************************************************************************)
(* Model values for the instrumentation packages.  They meet in nothing but*)
(* the profile, where each one owns a key, so one is explored at a time:   *)
(* `subject` says which, and the others stay in an initial state.          *)
(***************************************************************************)
EXTENDS AiTelemetry, AiSetup, HttpClient, ClientRequestTimer, MongoCommands, DriverQueries,
        EventProfiling, Messaging, CommandRuns, Discovery, ModuleWiring, AxiosCalls

VARIABLE subject

CONSTANTS op1, op2, app1, app2, call1, call2  \* operations, applications, HTTP calls

-----------------------------------------------------------------------------
(* AiTelemetry: an agent wrapped under a name, one called by another one   *)
(* and one that declares no id run plain generations, harness turns and    *)
(* object generations, two at a time.                                      *)
AiNamesHere == {"support", "triage"}
Wrapped == AiAgentCall("A", TRUE, "support", "triage")
Plain == AiAgentCall("B", FALSE, AiNone, "triage")
Nameless == AiAgentCall("C", FALSE, AiNone, AiNone)

Shape(events, turn, usage, output) ==
    [events |-> events, harness |-> turn, usage |-> usage, output |-> output]
Generation == Shape(TRUE, FALSE, "call", "promise")
HarnessTurnOnly == Shape(TRUE, TRUE, "turn", "none")
HarnessCalls == Shape(TRUE, TRUE, "call", "none")
ObjectOnly == Shape(FALSE, FALSE, "call", "direct")

Operation(shape, path, profiled) == [shape |-> shape, path |-> path, profiled |-> profiled]
Pair(first, second, entrypoint, promote) ==
    [ops |-> (op1 :> first @@ op2 :> second), entrypoint |-> entrypoint, promote |-> promote]

AiScenariosHere ==
    { Pair(Operation(Generation, <<Wrapped, Plain>>, TRUE),
           Operation(ObjectOnly, <<Wrapped, Nameless>>, TRUE), "http", TRUE),
      Pair(Operation(HarnessTurnOnly, <<Wrapped>>, TRUE),
           Operation(HarnessCalls, <<>>, TRUE), "http", FALSE),
      Pair(Operation(HarnessTurnOnly, <<Plain, Wrapped>>, TRUE),
           Operation(Generation, <<Nameless>>, FALSE), "command", TRUE) }

(* AiSetup: two applications with their own levels and price sources.      *)
AsOptionsHere ==
    app1 :> [capture |-> [messages |-> "none", default |-> "full"], source |-> TRUE, ttl |-> 1]
    @@ app2 :> [capture |-> [legacy |-> "none"], source |-> TRUE, ttl |-> 0]
AsUsagesHere ==
    {[input |-> i, cacheRead |-> c, cacheWrite |-> 1, output |-> 1, reasoning |-> c] :
        i \in {0, 2}, c \in {0, 1}}

(* HttpClient: fetch beside fetch and beside axios.                        *)
Outgoing(client, input, headers, profiled) ==
    [client |-> client, input |-> input, headers |-> headers, profiled |-> profiled]
Traffic(first, second, captureBody, phases) ==
    [calls |-> (call1 :> first @@ call2 :> second), propagate |-> TRUE,
     captureBody |-> captureBody, phases |-> phases]
HcScenariosHere ==
    { Traffic(Outgoing("fetch", "url", {"auth"}, TRUE),
              Outgoing("fetch", "url", {HcTraceId}, TRUE), TRUE, TRUE),
      Traffic(Outgoing("fetch", "url", {"auth"}, TRUE),
              Outgoing("axios", "url", {"auth"}, TRUE), FALSE, TRUE),
      Traffic(Outgoing("fetch", "url", {"auth"}, TRUE),
              Outgoing("axios", "url", {"auth"}, FALSE), FALSE, FALSE) }

(* MongoCommands: overlapping saves of a new and of a stored document, and *)
(* every other command.                                                    *)
MgScenariosHere ==
    {[kind |-> [c \in MgCalls |-> "save"], profiled |-> [c \in MgCalls |-> c # 3],
      isNew |-> new] : new \in BOOLEAN}
    \cup {[kind |-> kinds, profiled |-> [c \in MgCalls |-> TRUE], isNew |-> FALSE] :
            kinds \in {<<"find", "findOne", "updateOne">>,
                       <<"deleteMany", "countDocuments", "aggregate">>,
                       <<"insertMany", "bulkWrite", "cursor">>}}

(* DriverQueries: a driver that hands out one runner or a fresh one.       *)
DqScenariosHere ==
    {[kind |-> kinds, profiled |-> [c \in DqCalls |-> TRUE], memoised |-> memoised,
      debug |-> FALSE] :
        kinds \in {<<"query", "stream", "query">>, <<"get", "set", "del">>,
                   <<"logQuery", "pipe", "get">>},
        memoised \in BOOLEAN}

(* EventProfiling: one event with an awaiting and a plain handler, either  *)
(* of which emits a second one, served by two instances of a class.        *)
Listens(instance, class, event, awaits, emits) ==
    [instance |-> instance, class |-> class, method |-> "on", event |-> event,
     awaits |-> awaits, emits |-> emits]
EvScenariosHere ==
    {[handlers |-> << Listens("a", "A", "created", TRUE, IF awaiting THEN "mailed" ELSE EvNone),
                      Listens("b", "B", "created", FALSE, IF awaiting THEN EvNone ELSE "mailed"),
                      Listens("b", "B", "mailed", FALSE, EvNone),
                      Listens("c", "B", "mailed", TRUE, EvNone) >>,
      emits |-> << [event |-> "created", async |-> async], [event |-> "mailed", async |-> TRUE] >>]
        : async \in BOOLEAN, awaiting \in BOOLEAN}

(* Messaging: every pair of header options and every header of a caller.   *)
MqScenariosHere ==
    [publishes : {"default", MqNone}, reads : {"default", "custom"}, header : MqCallerHeaders,
     correlation : MqCorrelations, profiled : BOOLEAN, relays : {TRUE}]

(* CommandRuns: a command listed twice, with and without a core.           *)
CmScenariosHere ==
    {[command |-> [r \in CmRuns |-> IF r = 1 THEN "one" ELSE second],
      providers |-> <<"one", "two", "one">>, crossProcess |-> cross, core |-> core] :
        second \in {"one", "two"}, cross \in BOOLEAN, core \in BOOLEAN}

(* Discovery: handlers plain, pinned, pinned nowhere, named in a module's  *)
(* configuration (twice), named in none; one connection, the same twice, a *)
(* second with a default handler, one that refuses to tell.                *)
Broker(name, handlers, default, readable) ==
    [name |-> name, handlers |-> handlers, defaultHandler |-> default, readable |-> readable,
     uris |-> <<[host |-> name, text |-> readable, secret |-> TRUE]>>, flags |-> {},
     prefetch |-> RsNone, defaultKind |-> "topic",
     exchanges |-> <<[name |-> RsEmpty, kind |-> RsNone, flags |-> {"durable"}, options |-> <<>>]>>,
     queues |-> <<[name |-> RsNone, exchange |-> RsEmpty, routingKeys |-> <<RsEmpty, "b">>,
                   flags |-> {}, options |-> "deadLetterExchange" :> RsEmpty]>>,
     bindings |-> <<>>]
Main == Broker("main", "orders" :> <<"queue" :> "a", "queue" :> "b">>, RsNone, TRUE)
Second == Broker("second", <<>>, "orders", TRUE)
Handles(method, config) == [class |-> "c", method |-> method, config |-> config]
DsHandlers ==
    << Handles("a", [exchange |-> "b", routingKey |-> "a"]),
       Handles("b", [connection |-> "second", queue |-> "a", bindings |-> <<"a">>]),
       Handles("c", [connection |-> "nowhere", exchange |-> RsEmpty]),
       Handles("d", [name |-> "orders", queue |-> "c",
                     queueOptions |-> [durable |-> "true", arguments |-> "x-ttl" :> "1"]]),
       Handles("e", [name |-> "other", errorHandler |-> "(custom function)", type |-> "rpc"]) >>

Argument(kind, data, dto) == [kind |-> kind, data |-> data, dto |-> dto]
Rule(property, rule, conditional) == [property |-> property, rule |-> rule, conditional |-> conditional]
Route(method, prefix, path, handler, args) ==
    [method |-> method, prefix |-> prefix, path |-> path, class |-> "c",
     handler |-> handler, args |-> args, guards |-> <<"guard", RsNone, "guard">>]
DsRoutes ==
    << Route("GET", <<"_profiler">>, <<>>, "a", <<>>), Route(RsNone, <<"b">>, <<>>, "b", <<>>),
       Route("GET", <<"a">>, <<"", ":id", ":id", "">>, "c",
             <<Argument("query", "a", RsNone), Argument("headers", "b", RsNone),
               Argument("query", RsNone, <<Rule("b", "isInt", FALSE), Rule("b", RsNone, TRUE),
                                           Rule("c", "isInt", FALSE)>>)>>),
       Route("PUT", <<"a">>, <<>>, "d",
             <<Argument("body", RsNone, <<Rule("a", "isInt", FALSE), Rule("a", "isInt", FALSE)>>)>>) >>
DsCommands ==
    << [name |-> RsNone, class |-> "c", described |-> <<"a", "b">>, flags |-> <<"-a", "-a", RsEmpty>>,
        arguments |-> <<[name |-> "<b>", required |-> TRUE, holds |-> {"b"}]>>],
       [name |-> "a", class |-> "d", described |-> <<>>, flags |-> <<>>, arguments |-> <<>>] >>
Hears(method, event) == [method |-> method, event |-> event, options |-> {"async"}]
Holds(class, alias, perRequest, listens) ==
    [class |-> class, alias |-> alias, perRequest |-> perRequest, listens |-> listens]
DsHolders ==
    << Holds("c", FALSE, FALSE, <<Hears("b", "b"), Hears("a", "a")>>),
       Holds("c", FALSE, FALSE, <<Hears("a", "a")>>), Holds("d", TRUE, FALSE, <<Hears("a", "c")>>),
       Holds("e", FALSE, TRUE, <<Hears("a", "c")>>) >>
App(core, connections, handlers, routes, commands, holders, fields, custom) ==
    [core |-> core, validator |-> core, connections |-> connections, handlers |-> handlers,
     routes |-> routes, commands |-> commands, holders |-> holders, fields |-> fields,
     custom |-> custom]
Field(operation, field) == [operation |-> operation, field |-> field, arguments |-> <<>>]
DsAppsHere ==
    { App(TRUE, <<Main, Main, Second>>, DsHandlers, DsRoutes, <<>>, <<>>,
          <<Field("query", "b"), Field("mutation", "a"), Field("query", "a")>>, RsNone),
      App(TRUE, <<Main, [Second EXCEPT !.readable = FALSE]>>, DsHandlers, <<>>, DsCommands, DsHolders,
          <<>>, RsNone),
      App(TRUE, <<Second>>, <<>>, <<DsRoutes[1]>>, <<>>, <<DsHolders[4]>>, <<>>,
          <<NoGroup("custom"), Group("custom", <<"entry">>, <<>>)>>),
      App(FALSE, <<Main>>, DsHandlers, DsRoutes, DsCommands, DsHolders, <<Field("query", "a")>>, RsNone) }
DsWordsHere ==
    <<RsEmpty, "(default)", ":id", "_profiler", "a", "b", "c", "command", "custom", "d", "e", "event", "GET",
      "graphql", "http", "mutation", "on", "PUT", "query", "rabbitmq", "rpc", "subscribe">>

(* Hosts: the core on, off, replaced or left out, with packages on and off *)
(* beside it; prefixes with and without exclusions of the host's own.      *)
WiHost(modules, isGlobal) ==
    [modules |-> modules, isGlobal |-> isGlobal, wants |-> {}, prefixed |-> FALSE, excluded |-> {},
     twice |-> {}, instruments |-> {}, listeners |-> FALSE, promotes |-> TRUE, peers |-> {}]

WiExact(path) == [path |-> path, deep |-> FALSE]
WiBelow(path) == [path |-> path, deep |-> TRUE]

WiHostsHere ==
    {[WiHost([core |-> c, http |-> h, typeorm |-> "on", events |-> "on"], g)
        EXCEPT !.wants = {"HttpProfilerRecorder", "TracerService"}, !.instruments = {"axios"},
               !.listeners = l] :
        c \in {"on", "off"}, h \in {"on", "off"}, g \in BOOLEAN, l \in BOOLEAN}
    \cup {[WiHost([core |-> "on", rabbitmq |-> "on", graphql |-> g, commander |-> "on"], TRUE)
             EXCEPT !.twice = {"rabbitmq", "commander"}] : g \in {"on", "off"}}
    \cup {WiHost([noop |-> "on", http |-> "on", rabbitmq |-> "on", commander |-> "on"], FALSE),
          WiHost([ai |-> "on", routes |-> "on", cache |-> "on", mikro |-> "off"], FALSE)}
    \cup {[WiHost([core |-> "on", ai |-> "on", cache |-> "on", mongoose |-> "on"], g)
             EXCEPT !.promotes = p, !.instruments = {"harness"}] : g \in BOOLEAN, p \in BOOLEAN}
    \cup {WiHost([core |-> "on", publish |-> "on", auth |-> "on", validator |-> a], FALSE) :
            a \in {"on", "off"}}
    \cup {[WiHost([core |-> c, config |-> "on"], TRUE) EXCEPT !.prefixed = TRUE, !.excluded = e] :
            c \in {"on", "off"},
            e \in {{}, {WiExact(<<"health">>)}, {WiExact(<<"_profiler">>)}, {WiBelow(<<"_profiler">>)},
                   {WiExact(<<"_profiler">>), WiBelow(<<"_profiler">>)}, {WiBelow(<<>>)}}}
    \cup {[WiHost([core |-> "on", typeormSchema |-> "on", mikroSchema |-> "on",
                   mongooseSchema |-> "on"], FALSE) EXCEPT !.peers = p] :
            p \in {{"typeorm", "amqp", "half"}, {"manifest", "nested", "deep"}, {"partial", "crash"}}}

WiPeersHere ==
    LET peer == [installed |-> TRUE, file |-> TRUE, subpath |-> FALSE, refused |-> "no",
                 runs |-> "fine", manifests |-> <<"own">>, main |-> TRUE]
        manifest == [peer EXCEPT !.subpath = TRUE, !.refused = "ERR_PACKAGE_PATH_NOT_EXPORTED",
                                 !.manifests = <<"none", "other", "own">>]
    IN  [typeorm |-> peer,
         amqp |-> [peer EXCEPT !.installed = FALSE],
         half |-> [peer EXCEPT !.runs = "lacks a dependency"],
         crash |-> [manifest EXCEPT !.runs = "throws"],
         manifest |-> manifest,
         nested |-> [manifest EXCEPT !.manifests = <<"own", "own">>],
         deep |-> [manifest EXCEPT !.refused = "MODULE_NOT_FOUND"],
         partial |-> [manifest EXCEPT !.file = FALSE, !.refused = "no"]]

WiPathsHere == {<<"health">>, <<"orders", "list">>}

(* Providers of axios clients: services and bare instances that share one, *)
(* and one that throws when it is looked at.                               *)
AxProvidersHere ==
    [service |-> [axiosRef |-> "shared", itself |-> FALSE, throws |-> FALSE, id |-> "service"],
     again   |-> [axiosRef |-> "shared", itself |-> FALSE, throws |-> FALSE, id |-> "again"],
     bare    |-> [axiosRef |-> AxNone, itself |-> TRUE, throws |-> FALSE, id |-> "shared"],
     cls     |-> [axiosRef |-> AxNone, itself |-> TRUE, throws |-> TRUE, id |-> "cls"],
     other   |-> [axiosRef |-> AxNone, itself |-> FALSE, throws |-> FALSE, id |-> "other"]]

AxNode(request, hop, timed, throws) ==
    [request |-> request, req |-> AxNone, hop |-> hop, throws |-> throws, instrumented |-> FALSE,
     marks |-> AxNone, timings |-> timed]

AxTiming(n) == [firstByte |-> n * 1000, tcp |-> 3, dns |-> -4, download |-> 12345]
AxTimedOr(timed, n) == IF timed THEN AxTiming(n) ELSE AxNone

(* Three objects that lead to one another in every way, timed or not.      *)
AxGraphs ==
    {[r |-> AxNode(a, b, AxTimedOr("r" \in t, 1), {}), w |-> AxNode(c, d, AxTimedOr("w" \in t, 2), x),
      h |-> AxNode(e, AxNone, AxTimedOr("h" \in t, 3), {})] :
        a \in {AxNone, "w"}, b \in {AxNone, "w", "h"}, c \in {AxNone, "r", "h"},
        d \in {AxNone, "w", "h"}, e \in {AxNone, "r"}, t \in SUBSET {"r", "w", "h"},
        x \in {{}, {"hop"}, {"timings"}}}

AxPlain == [r |-> AxNode("w", AxNone, AxNone, {}),
            w |-> [AxNode(AxNone, "h", [wait |-> 0], {}) EXCEPT !.req = "h"],
            h |-> [AxNode(AxNone, AxNone, AxNone, {}) EXCEPT !.instrumented = TRUE,
                      !.marks = [connect |-> 4, wait |-> 0, firstByte |-> 20600]]]

(* A chain of more objects than are followed.                              *)
AxLong ==
    LET next == [r |-> "w", w |-> "h", h |-> "a", a |-> "b", b |-> "c", c |-> AxNone]
    IN  [n \in DOMAIN next |-> [AxNode(AxNone, AxNone, IF n = "c" THEN AxTiming(6) ELSE AxNone, {})
                                   EXCEPT !.req = next[n]]]

AxScenario(graph, root) ==
    [providers |-> <<{"service"}>>, client |-> "shared", method |-> "POST",
     chain |-> <<"ours", "mapper", "retry">>, requestThrows |-> "no", mapper |-> FALSE,
     fails |-> 0, retries |-> 0, graph |-> graph, root |-> root]

AxScenariosHere ==
    {[AxScenario(AxPlain, "r") EXCEPT !.chain = c, !.fails = f, !.retries = t, !.mapper = m,
                                      !.method = k, !.requestThrows = r] :
        c \in {<<"ours", "mapper", "retry">>, <<"retry", "ours", "mapper">>, <<"mapper", "ours", "retry">>,
               <<"retry", "mapper", "ours">>},
        f \in 0..2, t \in 0..2, m \in BOOLEAN, k \in {"GET", "POST"},
        r \in {"no", "before", "after"}}
    \cup {[AxScenario(AxPlain, "r") EXCEPT !.providers = p, !.client = i] :
            p \in {<<{"service", "again", "bare", "cls", "other"}, {"service", "bare"}>>,
                   <<{"cls", "other"}, {"bare"}>>, <<{"cls"}>>}, i \in {"shared", "cls"}}
    \cup {AxScenario(g, "r") : g \in AxGraphs}
    \cup {AxScenario([AxPlain EXCEPT !.h.marks = [wait |-> 0]], "r")}
    \cup {AxScenario(AxLong, "r"), AxScenario(AxLong, "w")}

-----------------------------------------------------------------------------
Packages == {"ai", "aiSetup", "http", "httpTimer", "mongo", "drivers", "events", "messages",
             "commands", "discovery", "wiring", "axios"}

vars == <<subject, aiVars, asVars, hcVars, crVars, mgVars, dqVars, evVars, mqVars, cmVars,
          dsVars, wiVars, axVars>>

OneOf(scenarios) == CHOOSE s \in scenarios : TRUE
NoSettings == [g \in AsAgents |-> OneOf(AsSettings)]

Init ==
    /\ subject \in Packages
    /\ IF subject = "ai" THEN AiInit ELSE AiStart(OneOf(AiScenarios))
    /\ IF subject = "aiSetup" THEN AsInit ELSE AsStart(NoSettings)
    /\ IF subject = "http" THEN HcInit ELSE HcStart(OneOf(HcScenarios))
    /\ CrInit
    /\ IF subject = "mongo" THEN MgInit ELSE MgStart(OneOf(MgScenarios))
    /\ IF subject = "drivers" THEN DqInit ELSE DqStart(OneOf(DqScenarios))
    /\ IF subject = "events" THEN EvInit ELSE EvStart(OneOf(EvScenarios))
    /\ IF subject = "messages" THEN MqInit ELSE MqStart(OneOf(MqScenarios))
    /\ IF subject = "commands" THEN CmInit ELSE CmStart(OneOf(CmScenarios))
    /\ IF subject = "discovery" THEN DsInit ELSE DsStart(OneOf(DsApps))
    /\ IF subject = "wiring" THEN WiInit ELSE WiStart(OneOf(WiHosts))
    /\ IF subject = "axios" THEN AxInit ELSE AxStart(AxScenario(AxPlain, "r"))

Rests(package) ==
    CASE package = "ai"        -> UNCHANGED aiVars
      [] package = "aiSetup"   -> UNCHANGED asVars
      [] package = "http"      -> UNCHANGED hcVars
      [] package = "httpTimer" -> UNCHANGED crVars
      [] package = "mongo"     -> UNCHANGED mgVars
      [] package = "drivers"   -> UNCHANGED dqVars
      [] package = "events"    -> UNCHANGED evVars
      [] package = "messages"  -> UNCHANGED mqVars
      [] package = "commands"  -> UNCHANGED cmVars
      [] package = "discovery" -> UNCHANGED dsVars
      [] package = "wiring"    -> UNCHANGED wiVars
      [] package = "axios"     -> UNCHANGED axVars

Only(package) ==
    /\ subject = package /\ UNCHANGED subject
    /\ \A other \in Packages \ {package} : Rests(other)

Next ==
    \/ Only("ai") /\ AiNext
    \/ Only("aiSetup") /\ AsNext
    \/ Only("http") /\ HcNext
    \/ Only("httpTimer") /\ CrNext
    \/ Only("mongo") /\ MgNext
    \/ Only("drivers") /\ DqNext
    \/ Only("events") /\ EvNext
    \/ Only("messages") /\ MqNext
    \/ Only("commands") /\ CmNext
    \/ Only("discovery") /\ DsNext
    \/ Only("wiring") /\ WiNext
    \/ Only("axios") /\ AxNext

Spec == Init /\ [][Next]_vars

-----------------------------------------------------------------------------
(* Types: what the variables of every package may hold, the queue of       *)
(* pending connections (undici.phases.ts) within its bound included.       *)
PackagesTypeOK ==
    CASE subject = "ai"        -> AiTypeOK
      [] subject = "aiSetup"   -> AsTypeOK
      [] subject = "http"      -> HcTypeOK
      [] subject = "httpTimer" -> CrTypeOK
      [] subject = "mongo"     -> MgTypeOK
      [] subject = "drivers"   -> DqTypeOK
      [] subject = "events"    -> EvTypeOK
      [] subject = "messages"  -> MqTypeOK
      [] subject = "commands"  -> CmTypeOK
      [] subject = "discovery" -> DsTypeOK
      [] subject = "wiring"    -> WiTypeOK
      [] subject = "axios"     -> AxTypeOK

(* Each instrumented operation leaves exactly one entry, on the profile it *)
(* ran for and with its own outcome: a model call through retries and      *)
(* tools, an outgoing HTTP call, a Mongoose command or cursor, a driver    *)
(* call through wrappers installed by several applications, an emission    *)
(* whose handlers nest, fail or emit in turn.                              *)
OneEntryPerCall ==
    CASE subject = "ai"      -> AiOneEntryPerCall
      [] subject = "http"    -> HttpCallRecordedOnce
      [] subject = "mongo"   -> MongoOneEntryPerCommand
      [] subject = "drivers" -> DriverCallRecordedOnce
      [] subject = "events"  -> EmissionsOnTheirEmitter
      [] OTHER               -> TRUE

(* The HTTP panel: a breakdown never counts an instant twice and never     *)
(* carries what another request on a pooled socket measured: handshakes    *)
(* are reported by one call, no listener outlives its request on a         *)
(* keep-alive socket.                                                      *)
HttpCallsAreTold ==
    CASE subject = "http"      -> HandshakeReportedOnce
      [] subject = "httpTimer" -> PhasesFitTheCall /\ ListenersDetached
      [] OTHER                 -> TRUE

(* What the AI panel says of a generation is true of it, and its cost      *)
(* (ai-pricing.ts) bills each token once, at prices of the source that was *)
(* configured last.                                                        *)
AiPanelIsHonest ==
    CASE subject = "ai"      -> AiEntriesTellTheCall
      [] subject = "aiSetup" -> AiOneLoadAtATime /\ AiBilledOnce
      [] OTHER               -> TRUE

(* The whole application is seen: the home page lists every handler of it, *)
(* a consumer handles a message in the trace it was published in, the      *)
(* profiler comes up whole whatever is on or off beside it, and each       *)
(* attempt of every axios client it can reach has an entry of its own,     *)
(* whatever interceptors the host has.                                     *)
SurfacesAreWhole ==
    CASE subject = "discovery" -> EveryHandlerIsShown
      [] subject = "messages"  -> MessageContinuesTheTrace
      [] subject = "wiring"    -> ApplicationComesUpWhole
      [] subject = "axios"     -> AxiosCallsAreTold
      [] OTHER                 -> TRUE
==============================================================================
