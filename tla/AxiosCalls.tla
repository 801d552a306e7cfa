------------------------------ MODULE AxiosCalls ------------------------------
(***************************************************************************)
(* Calls through axios clients: which of an application's providers are    *)
(* patched and how often (axios.instrumentation.ts), what an entry tells   *)
(* of each attempt when the host's own interceptors fail, replace or retry *)
(* a call, whose timings an entry gets (phases/read-http-phases.ts), and   *)
(* the panel and the spans made of them (http-client.collector.ts).        *)
(*                                                                         *)
(* Of axios: request interceptors run last registered first, response      *)
(* interceptors first registered first; a rejection skips what has no      *)
(* handler for it; a retry sends the same config object, whose data is     *)
(* serialised by then.  Durations are microseconds.                        *)
(***************************************************************************)
EXTENDS Integers, Sequences, SequencesExt, FiniteSets, FiniteSetsExt

CONSTANTS
    AxScenarios,  \* [providers: app -> SUBSET AxProviders, chain, requestThrows, mapper, fails, retries, graph]
                  \* the chain has our pair once, and at most one interceptor that retries
    AxProviders,  \* provider -> [axiosRef: instance or AxNone, itself: BOOLEAN, throws: BOOLEAN, id]
    AxNone

AxHandlers == {"ours", "mapper", "retry"}

ASSUME AxAssumption ==
    /\ AxNone \notin Nat
    /\ \A scenario \in AxScenarios :
         /\ scenario.retries \in Nat /\ scenario.fails \in Nat /\ scenario.mapper \in BOOLEAN
         /\ scenario.requestThrows \in {"no", "before", "after"}
         /\ scenario.chain \in Seq(AxHandlers)
         /\ \E i \in DOMAIN scenario.chain : scenario.chain[i] = "ours"
         /\ \A i, j \in DOMAIN scenario.chain :
              scenario.chain[i] = scenario.chain[j] /\ scenario.chain[i] # "mapper" => i = j

VARIABLES
    axScenario,
    axInstalled,  \* applications whose instrumentation ran
    axPairs,      \* instance -> the interceptor pairs on it, each by the application that put it there
    axCall,       \* the call: its attempt, config, result, place in the chain
    axRecorded,   \* entries under the private key
    axPanel,      \* <<the panel>> once collected, <<>> before
    axNow

axVars == <<axScenario, axInstalled, axPairs, axCall, axRecorded, axPanel, axNow>>

AxApps == DOMAIN axScenario.providers
AxClients == {AxProviders[p].id : p \in DOMAIN AxProviders}

-----------------------------------------------------------------------------
(* Discovery and patching.                                                 *)
AsAxiosInstance(provider) ==
    LET it == AxProviders[provider]
    IN  IF it.throws THEN AxNone
        ELSE IF it.axiosRef # AxNone THEN it.axiosRef
        ELSE IF it.itself THEN it.id ELSE AxNone

AxFound(app) == {AsAxiosInstance(p) : p \in axScenario.providers[app]} \ {AxNone}

AxUnpatched(instance) == axPairs[instance] = <<>>

InstallAxios(app) ==
    /\ axCall.stage = "unsent" /\ app \notin axInstalled
    /\ axInstalled' = axInstalled \cup {app}
    /\ axPairs' = [i \in AxClients |-> IF i \in AxFound(app) /\ AxUnpatched(i)
                                     THEN Append(axPairs[i], app) ELSE axPairs[i]]
    /\ UNCHANGED <<axScenario, axCall, axRecorded, axPanel, axNow>>

-----------------------------------------------------------------------------
(* Timings: an object leads to others by "request", "req" and, for a       *)
(* redirected call, the hop that answered; to read a property may throw.   *)
PhaseSequence == <<"wait", "dns", "tcp", "tls", "connect", "request", "firstByte", "download">>
TimerPhases == {"wait", "dns", "tcp", "tls", "request", "firstByte", "download"}

SumPhases(phases) ==
    MapThenSumSet(LAMBDA n : IF phases[n] > 0 THEN phases[n] ELSE 0, DOMAIN phases)

HasPhases(phases) == SumPhases(phases) > 0

FromTimerTimings(timings) ==
    LET kept == {n \in DOMAIN timings \cap TimerPhases : timings[n] >= 0}
        phases == [n \in kept |-> timings[n]]
    IN  IF HasPhases(phases) THEN phases ELSE AxNone

ReadProperty(node, key) == IF key \in node.throws THEN AxNone ELSE node[key]

OwnPhases(node) ==
    IF node.instrumented THEN node.marks
    ELSE IF ReadProperty(node, "timings") = AxNone THEN AxNone ELSE FromTimerTimings(node.timings)

FirstFound(choices) ==
    LET found == SelectSeq(choices, LAMBDA c : c # AxNone)
    IN  IF found = <<>> THEN AxNone ELSE found[1]

ReadHttpPhases(graph, source) ==
    LET Unwrap[at \in DOMAIN graph \cup {AxNone}, depth \in 0..5] ==
            LET Through(key) ==
                    LET next == ReadProperty(graph[at], key)
                    IN  IF next = at THEN AxNone ELSE Unwrap[next, depth + 1]
            IN  IF at = AxNone \/ depth > 4 THEN AxNone
                ELSE FirstFound(<<Through("hop"), OwnPhases(graph[at]),
                                  Through("request"), Through("req")>>)
    IN  Unwrap[source, 0]

-----------------------------------------------------------------------------
(* One call.  The config carries the profiler's marks from one attempt to  *)
(* the next; a result is what a handler of the response chain is given.    *)
AxPatched == axPairs[axScenario.client] # <<>>

AxChain == axScenario.chain
NoAxConfig == [start |-> AxNone, data |-> AxNone, body |-> AxNone]

RequestInterceptorThrew(when) == axScenario.requestThrows = when

(* The request interceptors, the body's serialisation and the sending.     *)
BeginAttempt(call) ==
    LET ours == AxPatched /\ ~RequestInterceptorThrew("before")
        config == IF ours THEN [call.config EXCEPT !.start = axNow, !.body = call.config.data]
                  ELSE call.config
        thrown == RequestInterceptorThrew("before") \/ RequestInterceptorThrew("after")
    IN  [call EXCEPT
           !.attempt = @ + 1,
           !.stage = IF thrown THEN "answered" ELSE "sent",
           !.place = 1,
           !.result = IF thrown THEN [ok |-> FALSE, attempt |-> call.attempt + 1, known |-> FALSE]
                      ELSE @,
           !.config = IF thrown THEN config ELSE [config EXCEPT !.data = "serialised"]]

AxSend ==
    /\ axCall.stage = "unsent" /\ axInstalled = AxApps
    /\ axCall' = BeginAttempt(axCall)
    /\ axNow' = axNow + 1
    /\ UNCHANGED <<axScenario, axInstalled, axPairs, axRecorded, axPanel>>

AxAnswer ==
    /\ axCall.stage = "sent"
    /\ axNow' = axNow + 1
    /\ axCall' = [axCall EXCEPT !.stage = "answered",
                     !.result = [ok |-> axCall.attempt > axScenario.fails, attempt |-> axCall.attempt,
                                 known |-> TRUE]]
    /\ UNCHANGED <<axScenario, axInstalled, axPairs, axRecorded, axPanel>>

ChainHandler == AxChain[axCall.place]
AxHandling(name) ==
    axCall.stage = "answered" /\ axCall.place <= Len(AxChain) /\ ChainHandler = name

(* What the recorder makes of it: a body only of methods that have one,    *)
(* a breakdown only if it holds something.                                 *)
CaptureEntry(result, config) ==
    [told |-> result.attempt, error |-> ~result.ok,
     url |-> IF result.known THEN "known" ELSE "unknown",
     start |-> IF config.start = AxNone THEN axNow ELSE config.start,
     duration |-> IF config.start = AxNone THEN 0 ELSE axNow - config.start,
     body |-> IF result.known /\ axScenario.method = "POST" THEN config.body ELSE AxNone,
     phases |-> LET found == ReadHttpPhases(axScenario.graph, axScenario.root)
                IN  IF ~result.known \/ found = AxNone THEN AxNone
                    ELSE IF HasPhases(found) THEN found ELSE AxNone]

RequestConfig(result) == IF result.known THEN axCall.config ELSE NoAxConfig

CaptureAttempt ==
    /\ AxHandling("ours")
    /\ axRecorded' = IF AxPatched
                     THEN Append(axRecorded, CaptureEntry(axCall.result, RequestConfig(axCall.result)))
                     ELSE axRecorded
    /\ axCall' = [axCall EXCEPT !.place = @ + 1]
    /\ axNow' = axNow + 1
    /\ UNCHANGED <<axScenario, axInstalled, axPairs, axPanel>>

(* The host's interceptors: one refuses a good answer, the other retries.  *)
HostMaps ==
    /\ AxHandling("mapper")
    /\ axCall' = [axCall EXCEPT !.place = @ + 1,
                     !.result = IF @.ok /\ axScenario.mapper THEN [@ EXCEPT !.ok = FALSE, !.known = FALSE]
                                ELSE @]
    /\ UNCHANGED <<axScenario, axInstalled, axPairs, axRecorded, axPanel, axNow>>

HostMayRetry ==
    ~axCall.result.ok /\ axCall.result.known /\ axCall.attempt <= axScenario.retries

HostRetries ==
    /\ AxHandling("retry")
    /\ axCall' = IF HostMayRetry THEN BeginAttempt([axCall EXCEPT !.outer = <<@, axCall.place>>])
                 ELSE [axCall EXCEPT !.place = @ + 1]
    /\ axNow' = axNow + 1
    /\ UNCHANGED <<axScenario, axInstalled, axPairs, axRecorded, axPanel>>

(* The chain's end: of a retry, where the call it is part of goes on.      *)
AxChainEnds ==
    /\ axCall.stage = "answered" /\ axCall.place > Len(AxChain)
    /\ axCall' = IF axCall.outer = <<>> THEN [axCall EXCEPT !.stage = "done"]
                 ELSE [axCall EXCEPT !.outer = axCall.outer[1], !.place = axCall.outer[2] + 1]
    /\ UNCHANGED <<axScenario, axInstalled, axPairs, axRecorded, axPanel, axNow>>

-----------------------------------------------------------------------------
(* The panel and the spans.                                                *)
Fingerprinted(entry) ==
    [field \in DOMAIN entry \cup {"fingerprint"} |->
        IF field = "fingerprint" THEN <<axScenario.method, entry.url>> ELSE entry[field]]

CollectCalls ==
    /\ axPanel = <<>>
    /\ axPanel' = <<[i \in 1..Len(axRecorded) |-> Fingerprinted(axRecorded[i])]>>
    /\ axRecorded' = <<>>
    /\ UNCHANGED <<axScenario, axInstalled, axPairs, axCall, axNow>>

PanelEntries == IF axPanel = <<>> THEN axRecorded ELSE axPanel[1]
CallsBadge == IF PanelEntries = <<>> THEN AxNone ELSE Len(PanelEntries)

(* A phase as it is shown: ten milliseconds and more in whole ones, less   *)
(* in hundredths.                                                          *)
FormatPhase(value) ==
    IF value >= 10000 THEN ((value + 500) \div 1000) * 1000 ELSE ((value + 5) \div 10) * 10

SpanMeta(entry) ==
    IF entry.phases = AxNone THEN <<>>
    ELSE LET shown == SelectSeq(PhaseSequence,
                          LAMBDA n : n \in DOMAIN entry.phases /\ entry.phases[n] > 0)
         IN  [i \in 1..Len(shown) |-> <<shown[i], FormatPhase(entry.phases[shown[i]])>>]

-----------------------------------------------------------------------------
AxStart(scenario) ==
    /\ axScenario = scenario
    /\ axInstalled = {}
    /\ axPairs = [i \in AxClients |-> <<>>]
    /\ axCall = [stage |-> "unsent", attempt |-> 0, place |-> 1, outer |-> <<>>,
                 config |-> [start |-> AxNone, data |-> "passed", body |-> AxNone],
                 result |-> [ok |-> TRUE, attempt |-> 0, known |-> TRUE]]
    /\ axRecorded = <<>>
    /\ axPanel = <<>>
    /\ axNow = 1

AxInit == \E scenario \in AxScenarios : AxStart(scenario)

AxNext ==
    \/ \E app \in AxApps : InstallAxios(app)
    \/ AxSend \/ AxAnswer \/ CaptureAttempt \/ HostMaps \/ HostRetries \/ AxChainEnds \/ CollectCalls

AxSpec == AxInit /\ [][AxNext]_axVars

-----------------------------------------------------------------------------
AxTypeOK ==
    /\ axCall.stage \in {"unsent", "sent", "answered", "done"}
    /\ axCall.attempt \in 0..(axScenario.retries + 1)
    /\ \A i \in DOMAIN axRecorded : axRecorded[i].told \in 1..axCall.attempt
    /\ CallsBadge = AxNone <=> PanelEntries = <<>>

(* However many providers hand out one client, and however many            *)
(* applications of the process find it, its calls pass one pair.           *)
ClientsPatchedOnce == \A i \in AxClients : Len(axPairs[i]) <= 1

AxEntries == IF axPanel = <<>> THEN axRecorded ELSE axPanel[1] \o axRecorded
AheadOfOurs(name) ==
    \E i, j \in DOMAIN AxChain : i < j /\ AxChain[i] = name /\ AxChain[j] = "ours"

(* As many entries as attempts, in their order.  Each attempt has its own, *)
(* unless the host retries before the profiler sees the answer: then every *)
(* entry of the call is of the last attempt, and the failed ones are never *)
(* seen.                                                                   *)
AttemptsAreRecorded ==
    axCall.stage = "done" /\ AxPatched =>
        /\ Len(AxEntries) = axCall.attempt
        /\ \A i \in DOMAIN AxEntries :
             AxEntries[i].told
             = IF AheadOfOurs("retry") THEN axCall.attempt ELSE i

(* An entry tells whether its attempt failed, what the application passed  *)
(* (a retry: what was sent), and how long that attempt took; an error of   *)
(* the host's own, without a config, leaves an entry of an unknown call.   *)
EntriesTellTheAttempt ==
    \A i \in DOMAIN AxEntries :
        LET entry == AxEntries[i]
            refused == axScenario.mapper /\ entry.told > axScenario.fails
        IN  /\ ~axScenario.mapper /\ axScenario.requestThrows = "no" =>
                 (entry.error <=> entry.told <= axScenario.fails)
            /\ entry.url = "unknown" => \/ axScenario.requestThrows # "no"
                                \/ (refused /\ (AheadOfOurs("mapper") \/ AheadOfOurs("retry")))
            /\ (axScenario.requestThrows # "no" \/ (refused /\ AheadOfOurs("mapper"))) => entry.url = "unknown"
            /\ axScenario.method = "POST" /\ entry.url # "unknown" =>
                 entry.body = IF entry.told = 1 THEN "passed" ELSE "serialised"
            /\ entry.duration >= 0
            /\ entry.url # "unknown" => entry.duration > 0

(* The objects the root leads to in so many steps, in any order.           *)
WithinReach(graph, source, steps) ==
    LET Ring[n \in 0..steps] ==
            IF n = 0 THEN {source}
            ELSE Ring[n - 1] \cup
                 ({ReadProperty(graph[at], key) : at \in Ring[n - 1],
                                                 key \in {"request", "req", "hop"}} \ {AxNone})
    IN  Ring[steps]

(* A breakdown that is there within reach is found, whatever throws or     *)
(* loops on the way, and that of a redirected call is of the hop that      *)
(* answered; what is shown of it is never a row of zeros.                  *)
TimingsAreOfTheAnswer ==
    LET graph == axScenario.graph
        root == axScenario.root
        found == ReadHttpPhases(graph, root)
        timed(at) == OwnPhases(graph[at]) # AxNone
    IN  /\ found = AxNone <=> \A at \in WithinReach(graph, root, 4) : ~timed(at)
        /\ found # AxNone => \E at \in WithinReach(graph, root, 4) : found = OwnPhases(graph[at])
        /\ \A hop \in DOMAIN graph :
             (ReadProperty(graph[root], "hop") = hop /\ hop # root /\ timed(hop)
              /\ ReadProperty(graph[hop], "hop") = AxNone)
             => found = OwnPhases(graph[hop])
        /\ \A i \in DOMAIN AxEntries :
             /\ AxEntries[i].phases # AxNone => SpanMeta(AxEntries[i]) # <<>>
             /\ \A j \in DOMAIN SpanMeta(AxEntries[i]) :
                    LET label == SpanMeta(AxEntries[i])[j]
                    IN  label[2] = 0 => AxEntries[i].phases[label[1]] < 5

(* The whole of it.                                                        *)
AxiosCallsAreTold ==
    ClientsPatchedOnce /\ AttemptsAreRecorded /\ EntriesTellTheAttempt /\ TimingsAreOfTheAnswer
==============================================================================
