----------------------------- MODULE HttpClient -----------------------------
(***************************************************************************)
(* Outgoing HTTP calls recorded by the fetch and axios instrumentations    *)
(* (fetch.instrumentation.ts, axios.instrumentation.ts) through            *)
(* HttpProfilerRecorder.capture, with the phases undici publishes for fetch*)
(* (undici.phases.ts) correlated through an async context slot.  The       *)
(* client, the transport and the upstream are external: a call is sent,    *)
(* answered or refused, and its body may still be arriving.                *)
(***************************************************************************)
EXTENDS Naturals, FiniteSets, SequencesExt

CONSTANTS
    HcCalls,     \* outgoing calls
    HcScenarios, \* what the calls are and how the module is configured
    HcHeaders,   \* header names a caller sets
    HcTraceId,   \* the propagation header
    HcSockets,   \* sockets of the pool, all to one origin
    HcMaxPending,\* MAX_PENDING_CONNECTS
    HcNone

(* A scenario gives each call its client, whether the caller hands fetch a *)
(* Request object, the headers the caller set, and whether a profile is    *)
(* open; and the module's options.                                         *)
ASSUME HcAssumption ==
    /\ HcTraceId \notin HcHeaders /\ HcMaxPending \in Nat \ {0} /\ HcNone \notin HcSockets
    /\ \A s \in HcScenarios :
         /\ {s.propagate, s.captureBody, s.phases} \subseteq BOOLEAN
         /\ \A c \in HcCalls : /\ s.calls[c].client \in {"fetch", "axios"}
                               /\ s.calls[c].input \in {"url", "request"}
                               /\ s.calls[c].headers \subseteq HcHeaders \cup {HcTraceId}
                               /\ s.calls[c].profiled \in BOOLEAN

VARIABLES
    hcScenario,
    hcStage,          \* call -> "new", "sent", "reading", "answered", "failed"
    hcSent,           \* call -> the headers that went out
    hcMarks,          \* call -> the undici marks taken, connect: the socket's
    hcSlot,           \* call -> the phases published into its slot
    hcLog,            \* the profile's entries, in order of capture
    pendingConnects,  \* connection attempts in flight, oldest first
    connectedSockets, \* sockets measured and not yet attributed
    hcSocketOf        \* call -> the socket it was sent on

hcVars == <<hcScenario, hcStage, hcSent, hcMarks, hcSlot, hcLog, pendingConnects,
            connectedSockets, hcSocketOf>>

HcCall(c) == hcScenario.calls[c]
HcIsFetch(c) == HcCall(c).client = "fetch"

HcStart(s) ==
    /\ hcScenario = s
    /\ hcStage = [c \in HcCalls |-> "new"]
    /\ hcSent = [c \in HcCalls |-> {}]
    /\ hcMarks = [c \in HcCalls |-> {}]
    /\ hcSlot = [c \in HcCalls |-> {}]
    /\ hcLog = <<>>
    /\ pendingConnects = <<>> /\ connectedSockets = {}
    /\ hcSocketOf = [c \in HcCalls |-> HcNone]

HcInit == \E s \in HcScenarios : HcStart(s)

-----------------------------------------------------------------------------
(* Trace id propagation.                                                   *)

(* HttpProfilerRecorder.outgoingTraceId: nothing outside a profile.        *)
Propagates(c) == /\ hcScenario.propagate /\ HcCall(c).profiled
                 /\ HcTraceId \notin HcCall(c).headers

(* axios: the header joins the request's own headers.                      *)
AxiosHeaders(c) == HcCall(c).headers \cup (IF Propagates(c) THEN {HcTraceId} ELSE {})

(* withTraceIdHeader: a fresh init whose headers are init's and the trace  *)
(* id.  A Request carries its headers itself and comes without an init, and*)
(* the platform lets an init's headers replace the Request's.              *)
FetchHeaders(c) ==
    IF ~Propagates(c) THEN HcCall(c).headers
    ELSE IF HcCall(c).input = "url" THEN HcCall(c).headers \cup {HcTraceId}
    ELSE {HcTraceId}

(* The call goes out; with a phases provider installed fetch opens a slot  *)
(* and undici creates the request inside it.                               *)
Send(c) ==
    /\ hcStage[c] = "new"
    /\ hcStage' = [hcStage EXCEPT ![c] = "sent"]
    /\ hcSent' = [hcSent EXCEPT ![c] = IF HcIsFetch(c) THEN FetchHeaders(c) ELSE AxiosHeaders(c)]
    /\ UNCHANGED <<hcScenario, hcMarks, hcSlot, hcLog, pendingConnects, connectedSockets, hcSocketOf>>

-----------------------------------------------------------------------------
(* undici's channels.                                                      *)

HcTimed(c) == HcIsFetch(c) /\ hcScenario.phases
HcInFlight(c) == hcStage[c] \in {"sent", "reading"}

BeforeConnectUnbounded ==
    /\ \E c \in HcCalls : HcTimed(c) /\ hcStage[c] = "sent" /\ hcSocketOf[c] = HcNone
    /\ Len(pendingConnects) < Cardinality(HcCalls)
    /\ pendingConnects' = Append(pendingConnects, "started")
    /\ UNCHANGED <<hcScenario, hcStage, hcSent, hcMarks, hcSlot, hcLog, connectedSockets, hcSocketOf>>

(* onBeforeConnect: the queue of an origin is bounded.                     *)
BeforeConnect ==
    /\ \E c \in HcCalls : HcTimed(c) /\ hcStage[c] = "sent" /\ hcSocketOf[c] = HcNone
    /\ Len(pendingConnects) < Cardinality(HcCalls)
    /\ pendingConnects' = Append(IF Len(pendingConnects) >= HcMaxPending
                                 THEN Tail(pendingConnects) ELSE pendingConnects, "started")
    /\ UNCHANGED <<hcScenario, hcStage, hcSent, hcMarks, hcSlot, hcLog, connectedSockets, hcSocketOf>>

(* onConnected: the oldest attempt measures the socket.                    *)
Connected(s) ==
    /\ pendingConnects # <<>>
    /\ s \notin connectedSockets /\ \A c \in HcCalls : hcSocketOf[c] # s
    /\ pendingConnects' = Tail(pendingConnects)
    /\ connectedSockets' = connectedSockets \cup {s}
    /\ UNCHANGED <<hcScenario, hcStage, hcSent, hcMarks, hcSlot, hcLog, hcSocketOf>>

(* onConnectError *)
ConnectError ==
    /\ pendingConnects # <<>>
    /\ pendingConnects' = Tail(pendingConnects)
    /\ UNCHANGED <<hcScenario, hcStage, hcSent, hcMarks, hcSlot, hcLog, connectedSockets, hcSocketOf>>

(* publish: what is known so far goes to the call's own slot.              *)
PublishMarks(c, marks) ==
    /\ hcMarks' = [hcMarks EXCEPT ![c] = marks]
    /\ hcSlot' = [hcSlot EXCEPT ![c] = marks]

(* onSendHeaders: the first request on a measured socket takes the         *)
(* connection, the next ones on it report none.                            *)
SendHeaders(c, s) ==
    /\ HcTimed(c) /\ hcStage[c] = "sent" /\ hcSocketOf[c] = HcNone
    /\ \A d \in HcCalls : hcSocketOf[d] = s => ~HcInFlight(d)
    /\ hcSocketOf' = [hcSocketOf EXCEPT ![c] = s]
    /\ PublishMarks(c, hcMarks[c] \cup {"sendHeaders"}
                  \cup (IF s \in connectedSockets THEN {"connect"} ELSE {}))
    /\ connectedSockets' = connectedSockets \ {s}
    /\ UNCHANGED <<hcScenario, hcStage, hcSent, hcLog, pendingConnects>>

(* onBodySent, onResponseHeaders, onComplete                               *)
Mark(c, mark) ==
    /\ HcTimed(c) /\ hcSocketOf[c] # HcNone /\ mark \notin hcMarks[c]
    /\ mark = "end" => "headers" \in hcMarks[c]
    /\ mark # "end" => hcStage[c] = "sent"
    /\ PublishMarks(c, hcMarks[c] \cup {mark})
    /\ UNCHANGED <<hcScenario, hcStage, hcSent, hcLog, pendingConnects, connectedSockets, hcSocketOf>>

-----------------------------------------------------------------------------
(* HttpProfilerRecorder.capture: the phases are copied; no profile, no     *)
(* entry.                                                                  *)
HcCapture(c, outcome, body) ==
    hcLog' = IF ~HcCall(c).profiled THEN hcLog
             ELSE Append(hcLog, [call |-> c, outcome |-> outcome, body |-> body,
                                 phases |-> hcSlot[c]])

CanAnswer(c) == hcStage[c] = "sent" /\ (HcTimed(c) => "headers" \in hcMarks[c])

(* The response is there: axios has its body, fetch reads a clone of it    *)
(* first when bodies are captured, else records at once.                   *)
Answered(c) ==
    /\ CanAnswer(c)
    /\ IF HcIsFetch(c) /\ hcScenario.captureBody
       THEN hcStage' = [hcStage EXCEPT ![c] = "reading"] /\ UNCHANGED hcLog
       ELSE /\ hcStage' = [hcStage EXCEPT ![c] = "answered"]
            /\ HcCapture(c, "answered", hcScenario.captureBody)
    /\ UNCHANGED <<hcScenario, hcSent, hcMarks, hcSlot, pendingConnects, connectedSockets, hcSocketOf>>

(* safeReadBody settles, with or without a body; it never rejects.         *)
BodyRead(c, body) ==
    /\ hcStage[c] = "reading"
    /\ HcTimed(c) /\ body => "end" \in hcMarks[c]
    /\ hcStage' = [hcStage EXCEPT ![c] = "answered"]
    /\ HcCapture(c, "answered", body)
    /\ UNCHANGED <<hcScenario, hcSent, hcMarks, hcSlot, pendingConnects, connectedSockets, hcSocketOf>>

(* The transport refuses or the call is aborted.                           *)
Refused(c) ==
    /\ hcStage[c] = "sent"
    /\ hcStage' = [hcStage EXCEPT ![c] = "failed"]
    /\ HcCapture(c, "failed", FALSE)
    /\ UNCHANGED <<hcScenario, hcSent, hcMarks, hcSlot, pendingConnects, connectedSockets, hcSocketOf>>

HcNext ==
    \/ \E c \in HcCalls :
         \/ Send(c) \/ Answered(c) \/ Refused(c)
         \/ \E s \in HcSockets : SendHeaders(c, s)
         \/ \E mark \in {"bodySent", "headers", "end"} : Mark(c, mark)
         \/ \E body \in BOOLEAN : BodyRead(c, body)
    \/ BeforeConnect \/ ConnectError
    \/ \E s \in HcSockets : Connected(s)

HcSpec == HcInit /\ [][HcNext]_hcVars

-----------------------------------------------------------------------------
(* Types: what the variables may hold.                                     *)
HcTypeOK ==
    /\ \A c \in HcCalls :
         /\ hcStage[c] \in {"new", "sent", "reading", "answered", "failed"}
         /\ hcSlot[c] \subseteq {"connect", "sendHeaders", "bodySent", "headers", "end"}
         /\ hcSocketOf[c] \in HcSockets \cup {HcNone}
    /\ Len(pendingConnects) <= HcMaxPending

HcEntriesOf(c) == {i \in DOMAIN hcLog : hcLog[i].call = c}

(* A call settles for its caller with exactly one entry in the profile,    *)
(* with its own outcome and only what was measured on its own request by   *)
(* then (the breakdown is copied, a body that ends later adds nothing), and*)
(* leaves none while it is in flight or outside a profile, whatever other  *)
(* calls do on the same pool.                                              *)
HttpCallRecordedOnce ==
    \A c \in HcCalls :
        IF HcCall(c).profiled /\ hcStage[c] \in {"answered", "failed"}
        THEN \E i \in HcEntriesOf(c) :
               /\ HcEntriesOf(c) = {i}
               /\ hcLog[i].outcome = hcStage[c]
               /\ hcLog[i].phases \subseteq hcMarks[c]
        ELSE HcEntriesOf(c) = {}

(* The handshake of one connection is reported by one call at most, the    *)
(* one first sent on the socket, however the pool reuses it.               *)
HandshakeReportedOnce ==
    \A c, d \in HcCalls :
        /\ "connect" \in hcSlot[c] /\ "connect" \in hcSlot[d]
        /\ hcSocketOf[c] = hcSocketOf[d]
        => c = d

(* "A header the caller set explicitly always wins" (the package's README, *)
(* on propagation, which is described as adding a header): every header    *)
(* the caller set goes out, wherever the caller set it.                    *)
CallerHeadersSent ==
    \A c \in HcCalls : hcStage[c] # "new" => HcCall(c).headers \subseteq hcSent[c]
=============================================================================
