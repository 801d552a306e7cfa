-------------------------- MODULE RequestLifecycle --------------------------
(***************************************************************************)
(* The life of one profiled request: the middleware opens the profile, the *)
(* guards, the interceptor, the handler and the exception filters run, the *)
(* transport writes, and up to three actors may close, collect and save    *)
(* the same profile object:                                                *)
(*                                                                         *)
(*   "emit"   the interceptor, when the handler emits                      *)
(*   "error"  the interceptor, when the handler fails and no hook is armed *)
(*   "hook"   the middleware's finish/close listener                       *)
(*                                                                         *)
(* Requests share no state but the store and the set of pending work       *)
(* (module DeferredWork), so one request is modelled.  JavaScript runs one *)
(* callback at a time: an action is the code between two awaits.           *)
(***************************************************************************)
EXTENDS Naturals, Sequences

CONSTANTS
    Handlers,       \* kinds of route the request may reach
    N,              \* number of profile-scope collectors, in priority order
    Taggable,       \* the collectors implementing TaggableCollector
    FailingCollectors, \* the collectors whose collect() may throw or time out
    SaveMayFail,    \* whether the storage adapter may reject a save
    ReplyMayFail,   \* whether the framework may fail to write an emitted value
    Hookable,       \* whether the raw response may support `once` listeners
    CollectBody,    \* the collectBody option
    MaxEmissions,   \* bound: values a plain handler's observable emits
    MaxEntries,     \* bound: entries captured by the instrumentation
    MaxChunks,      \* bound: chunks written to the transport
    MaxBuffered     \* chunks that fit in MAX_BUFFERED_BODY_BYTES

HandlerKinds ==
    { "value",      \* emits a payload the framework serialises
      "void",       \* emits undefined
      "html",       \* emits an HTML page the toolbar is injected into
      "restQuery",  \* a REST route whose request body has a string `query`
      "stream",     \* @Sse(), or emits a StreamableFile / readable
      "res",        \* @Res(): writes the response itself, emits undefined or res
      "graphql",    \* resolvers run under the GraphQL driver
      "invalidGraphql" }  \* the driver answers without running a resolver

ASSUME ConstantsAssumption ==
    /\ Handlers \subseteq HandlerKinds
    /\ N \in Nat \ {0}
    /\ Taggable \subseteq 1..N
    /\ FailingCollectors \subseteq 1..N
    /\ {SaveMayFail, ReplyMayFail, CollectBody} \subseteq BOOLEAN
    /\ Hookable \subseteq BOOLEAN
    /\ {MaxEmissions, MaxEntries, MaxChunks, MaxBuffered} \subseteq Nat

VARIABLES
    handler,    \* the kind of route (never changes)
    phase,      \* where the framework is with the request
    transport,  \* the raw response: what was written, and the listeners' inputs
    response,   \* profile.response
    exceptions, \* profile.exceptions, as the code that pushed each entry
    route,      \* profile.route has been matched
    graphql,    \* profile.entrypoint.data.graphql is set
    measured,   \* when completeProfilePerformance last ran
    deferred,   \* ProfileRuntimeState.deferCollection: the finish hook is armed
    settled,    \* the interceptor's latch on the first emission
    completed,  \* the finish hook's latch
    recorded,   \* ProfileRuntimeState.exceptionRecorded
    raw,        \* entries captured under each collector's private key
    panels,     \* profile.collectors[name]
    jobs,       \* the deferred pipelines and saves
    page,       \* the HTML page as sent
    doc,        \* the stored document
    history     \* observations and bounds, read by no code

profileVars == <<response, exceptions, route, graphql, measured>>
latches == <<deferred, settled, completed, recorded>>
pipelineVars == <<raw, panels, jobs>>
vars == <<handler, phase, transport, profileVars, latches, pipelineVars, page,
          doc, history>>

-----------------------------------------------------------------------------
(* Data *)

Collectors == 1..N
JobIds == {"emit", "error", "hook"}

(* Kinds whose work goes on after the handler has emitted. *)
Streamed == {"stream", "res", "graphql"}
(* Kinds routed through ProfilerInterceptor.processHttp. *)
HttpKinds == HandlerKinds \ {"graphql", "invalidGraphql"}
(* Kinds whose request body carries a string `query`. *)
HasQueryBody == handler \in {"restQuery", "graphql", "invalidGraphql"}

NoResponse == [status |-> "none", body |-> "none", stream |-> "none"]
NoDoc == [present |-> FALSE, response |-> NoResponse, exceptions |-> <<>>,
          route |-> FALSE, measured |-> "never", panels |-> [c \in Collectors |-> [state |-> "none", n |-> 0]]]

Closed == response.status # "none"
TransportOver == transport.finished \/ transport.closed
HeadersSent == transport.chunks > 0 \/ transport.ended

Now == IF TransportOver THEN "over" ELSE "open"

Snapshot == [present |-> TRUE, response |-> response, exceptions |-> exceptions,
             route |-> route, measured |-> measured, panels |-> panels]

(* ProfilerMiddleware.shouldSkip over the facts it reads of a request; `over` *)
(* is the outcome of the sampling roll.                                       *)
FilterFacts == [own : BOOLEAN, ignored : BOOLEAN, path : BOOLEAN, always : BOOLEAN,
                over : BOOLEAN]
ShouldSkip(f) == f.own \/ f.ignored \/ f.path \/ (~f.always /\ f.over)

Init ==
    /\ handler \in Handlers
    /\ phase = "arrived"
    /\ transport = [chunks |-> 0, streaming |-> FALSE, buffered |-> 0,
                    buffering |-> FALSE, body |-> "none", status |-> "ok",
                    ended |-> FALSE, finished |-> FALSE, closed |-> FALSE,
                    aborted |-> FALSE]
    /\ response = NoResponse
    /\ exceptions = <<>>
    /\ route = FALSE /\ graphql = FALSE
    /\ measured = "never"
    /\ deferred = FALSE /\ settled = FALSE /\ completed = FALSE /\ recorded = FALSE
    /\ raw = [c \in Collectors |-> 0]
    /\ panels = [c \in Collectors |-> [state |-> "none", n |-> 0]]
    /\ jobs = [j \in JobIds |-> [pc |-> "idle", at |-> 0, held |-> 0]]
    /\ page = "none"
    /\ doc = NoDoc
    /\ history = [runs |-> 0, failures |-> 0, late |-> FALSE, emissions |-> 0,
                  entries |-> 0, due |-> [c \in Collectors |-> 0]]

-----------------------------------------------------------------------------
(* Building blocks *)

(* schedulePersist / collect up to the first await: collectAll calls the first *)
(* collector's collect() in the same tick, which drains its private key.       *)
StartPipeline(j) ==
    /\ jobs' = [jobs EXCEPT ![j] = [pc |-> "collecting", at |-> 1, held |-> raw[1]]]
    /\ raw' = [raw EXCEPT ![1] = 0]
    /\ UNCHANGED panels

(* scheduleSave: the adapter's save() is called, nothing is collected. *)
ScheduleSave(j) ==
    /\ jobs' = [jobs EXCEPT ![j] = [pc |-> "saving", at |-> 0, held |-> 0]]
    /\ UNCHANGED <<raw, panels>>

(* finalizeHttpProfile *)
Finalize(status, body, stream, when) ==
    /\ response' = [status |-> status, stream |-> stream,
                    body |-> IF CollectBody THEN body ELSE "none"]
    /\ measured' = when

(* What the adapters' enrichHttpResponse pushes for a response body. *)
EnvelopeErrors(body) ==
    IF HasQueryBody /\ body = "errors" THEN <<"envelope">> ELSE <<>>

(* Fault: only the headers tell a stream. *)
HeadersOnly == ~transport.ended /\ HeadersSent

(* ProfilerInterceptor.isStreamedResponse *)
IsStreamedResponse ==
    /\ ~transport.ended
    /\ handler \in {"stream", "res"} \/ HeadersSent

(* readStream: undefined for a one-shot answer. *)
Stream(aborted) ==
    IF transport.chunks >= 2 \/ (transport.chunks = 1 /\ transport.streaming)
    THEN IF aborted THEN "aborted" ELSE "whole"
    ELSE "none"

(* The write() wrapper: measure the chunk, buffer it when the body is JSON that *)
(* will be consumed.  The content type and the decision are latched.            *)
Written(json) ==
    LET first == transport.chunks = 0
        buffering == IF first THEN json /\ (CollectBody \/ graphql)
                     ELSE transport.buffering
    IN  [transport EXCEPT !.chunks = @ + 1,
                          !.streaming = IF first THEN handler = "stream" ELSE @,
                          !.buffering = buffering,
                          !.buffered = IF buffering THEN @ + 1 ELSE @]

(* The json()/send() wrapper followed by end(): the body is captured once, whole. *)
Replied(t, body, status) ==
    [t EXCEPT !.chunks = IF body = "none" THEN @ ELSE @ + 1,
              !.body = IF @ = "none" THEN body ELSE @,
              !.status = status,
              !.ended = TRUE]

(* The end() wrapper called with a last chunk captures that chunk, with none it *)
(* captures the buffered chunks unless they overflowed.                         *)
EndedWith(last) ==
    LET body == IF last
                THEN IF transport.chunks = 0 THEN "whole" ELSE "part"
                ELSE IF transport.buffered \in 1..MaxBuffered THEN "whole" ELSE "none"
    IN  [transport EXCEPT !.chunks = IF last THEN @ + 1 ELSE @,
                          !.body = IF @ = "none" THEN body ELSE @,
                          !.ended = TRUE]

-----------------------------------------------------------------------------
(* ProfilerMiddleware.use *)

Skip ==
    /\ phase = "arrived"
    /\ \E f \in FilterFacts : ShouldSkip(f)
    /\ phase' = "skipped"
    /\ UNCHANGED <<handler, transport, profileVars, latches, pipelineVars, page,
                   doc, history>>

Use ==
    /\ phase = "arrived"
    /\ \E f \in FilterFacts : ~ShouldSkip(f)
    /\ phase' = "opened"
    /\ deferred' \in Hookable
    /\ UNCHANGED <<handler, transport, profileVars, settled, completed, recorded,
                   pipelineVars, page, doc, history>>

(* An entry recorded by an instrumentation running in the request's context.   *)
(* It is due in its panel while the request's own work goes on: before the     *)
(* first emission, and until the end of the response when it is streamed.      *)
Capture(c) ==
    /\ phase \notin {"arrived", "skipped"}
    /\ history.entries < MaxEntries
    /\ raw' = [raw EXCEPT ![c] = @ + 1]
    /\ LET due == /\ ~TransportOver
                  /\ \/ phase \in {"opened", "handling"} /\ ~settled
                     \/ handler \in Streamed /\ ~transport.ended
       IN history' = [history EXCEPT !.entries = @ + 1,
                                     !.due[c] = IF due THEN @ + 1 ELSE @]
    /\ UNCHANGED <<handler, phase, transport, profileVars, latches, panels, jobs,
                   page, doc>>

(* A guard, or anything else that runs before the interceptor, throws. *)
GuardRejects ==
    /\ phase = "opened"
    /\ handler # "invalidGraphql"
    /\ phase' = "failing"
    /\ history' = [history EXCEPT !.failures = @ + 1]
    /\ UNCHANGED <<handler, transport, profileVars, latches, pipelineVars, page, doc>>

(* intercept(): processHttp subscribes to the handler; for a resolver the       *)
(* adapter's enrichProfile marks the operation first.                           *)
Intercept ==
    /\ phase = "opened"
    /\ handler # "invalidGraphql"
    /\ phase' = "handling"
    /\ graphql' = (graphql \/ handler = "graphql")
    /\ UNCHANGED <<handler, transport, response, exceptions, route, measured,
                   latches, pipelineVars, page, doc, history>>

-----------------------------------------------------------------------------
(* ProfilerInterceptor.processHttp: an emission *)

Emitting(more) ==
    /\ phase = "handling"
    /\ handler \in HttpKinds
    /\ more => handler = "value" /\ history.emissions + 1 < MaxEmissions

AfterEmission(more) ==
    /\ phase' = IF more THEN "handling"
                ELSE IF handler = "res" /\ transport.ended THEN "done" ELSE "emitted"
    /\ history' = [history EXCEPT !.emissions = @ + 1]

(* Every emission but the first, and any emission that finds the profile closed. *)
EmitForwarded(more) ==
    /\ Emitting(more)
    /\ settled \/ Closed
    /\ settled' = TRUE
    /\ AfterEmission(more)
    /\ UNCHANGED <<handler, transport, profileVars, deferred, completed, recorded,
                   pipelineVars, page, doc>>

(* The response has only started: the profile is left to the finish hook. *)
EmitStreamed(more) ==
    /\ Emitting(more)
    /\ ~settled /\ ~Closed
    /\ deferred /\ IsStreamedResponse
    /\ settled' = TRUE
    /\ route' = TRUE
    /\ AfterEmission(more)
    /\ UNCHANGED <<handler, transport, response, exceptions, graphql, measured,
                   deferred, completed, recorded, pipelineVars, page, doc>>

EmittedBody ==
    CASE handler = "void" -> "none"
      [] handler = "res"  -> transport.body
      [] OTHER            -> "whole"

CloseOnEmission ==
    /\ ~settled /\ ~Closed
    /\ ~(deferred /\ IsStreamedResponse)
    /\ settled' = TRUE
    /\ route' = TRUE
    /\ Finalize(transport.status, EmittedBody, "none", Now)
    /\ graphql' = (graphql \/ HasQueryBody)
    /\ UNCHANGED <<exceptions, deferred, completed, recorded>>

(* Anything but an HTML page: finalized, emitted at once, persisted afterwards. *)
EmitPersisted(more) ==
    /\ Emitting(more)
    /\ handler # "html"
    /\ CloseOnEmission
    /\ StartPipeline("emit")
    /\ phase' = IF more THEN "handling"
                ELSE IF handler = "res" /\ transport.ended THEN "done" ELSE "emitted"
    /\ history' = [history EXCEPT !.emissions = @ + 1, !.runs = @ + 1]
    /\ UNCHANGED <<handler, transport, page, doc>>

(* Fault: the page is sent while the collectors run. *)
EmitPageAtOnce ==
    /\ Emitting(FALSE)
    /\ handler = "html"
    /\ CloseOnEmission
    /\ StartPipeline("emit")
    /\ phase' = "emitted" /\ page' = "toolbar"
    /\ history' = [history EXCEPT !.emissions = @ + 1, !.runs = @ + 1]
    /\ UNCHANGED <<handler, transport, doc>>

(* An HTML page waits for the collectors before it is sent. *)
EmitPage ==
    /\ Emitting(FALSE)
    /\ handler = "html"
    /\ CloseOnEmission
    /\ StartPipeline("emit")
    /\ phase' = "awaiting"
    /\ history' = [history EXCEPT !.emissions = @ + 1, !.runs = @ + 1]
    /\ UNCHANGED <<handler, transport, page, doc>>

(* ProfilerInterceptor.processNonHttp: the root resolver returns. *)
Resolve ==
    /\ phase = "handling" /\ handler = "graphql"
    /\ phase' = "emitted"
    /\ IF deferred
       THEN UNCHANGED <<response, measured, pipelineVars, history>>
       ELSE /\ response' = [status |-> "ok", body |-> "whole", stream |-> "none"]
            /\ measured' = Now
            /\ StartPipeline("emit")
            /\ history' = [history EXCEPT !.runs = @ + 1]
    /\ UNCHANGED <<handler, transport, exceptions, route, graphql, latches, page, doc>>

-----------------------------------------------------------------------------
(* Failures *)

(* processHttp's catchError.  `late` remembers that the profile was closed. *)
CatchError(runs) ==
    /\ exceptions' = Append(exceptions, "interceptor")
    /\ recorded' = TRUE
    /\ route' = TRUE
    /\ phase' = "failing"
    /\ history' = [history EXCEPT !.failures = @ + 1, !.late = @ \/ Closed,
                                  !.runs = @ + runs]

(* Fault: a failure closes the profile before the filters have answered. *)
ThrowCloses ==
    /\ handler \in HttpKinds
    /\ phase = "handling" \/ (phase = "emitted" /\ handler = "stream")
    /\ history.failures = 0
    /\ CatchError(1)
    /\ Finalize(transport.status, "none", "none", Now)
    /\ StartPipeline("error")
    /\ UNCHANGED <<handler, transport, graphql, deferred, settled, completed, page, doc>>

(* The handler's observable fails; a stream may fail after it has emitted. *)
Throw ==
    /\ handler \in HttpKinds
    /\ phase = "handling" \/ (phase = "emitted" /\ handler = "stream")
    /\ history.failures = 0
    /\ IF deferred
       THEN /\ CatchError(0)
            /\ UNCHANGED <<response, measured, pipelineVars>>
       ELSE /\ CatchError(1)
            /\ Finalize("error", "none", "none", Now)
            /\ StartPipeline("error")
    /\ UNCHANGED <<handler, transport, graphql, deferred, settled, completed, page, doc>>

(* processNonHttp's catchError; the filter rethrows and the driver formats the  *)
(* failure into its envelope.                                                   *)
ResolverThrows ==
    /\ phase = "handling" /\ handler = "graphql"
    /\ phase' = "emitted"
    /\ exceptions' = Append(exceptions, "interceptor")
    /\ IF deferred
       THEN /\ history' = [history EXCEPT !.failures = @ + 1, !.late = @ \/ Closed]
            /\ UNCHANGED <<response, measured, pipelineVars>>
       ELSE /\ history' = [history EXCEPT !.failures = @ + 1, !.runs = @ + 1]
            /\ Finalize("error", "none", "none", Now)
            /\ StartPipeline("error")
    /\ UNCHANGED <<handler, transport, route, graphql, latches, page, doc>>

(* What the filter chain leaves on the wire: super.catch() replies unless the   *)
(* headers are out, in which case it only ends the response.                    *)
ErrorReply ==
    IF HeadersSent THEN [transport EXCEPT !.ended = TRUE]
                   ELSE Replied(transport, "whole", "error")

(* Fault: `profile.response` alone tells what the interceptor recorded. *)
RecordedWhenClosed == Closed

(* recordHttpException: the interceptor has pushed it, or closed the profile. *)
AlreadyRecorded == Closed \/ recorded

(* ProfilerExceptionFilter.catch *)
FilterCatches ==
    /\ phase = "failing"
    /\ phase' = IF handler = "graphql" THEN "emitted" ELSE "done"
    /\ IF handler = "graphql"
       THEN UNCHANGED <<exceptions, transport>>   \* not http: rethrown to the driver
       ELSE /\ exceptions' = IF AlreadyRecorded THEN exceptions
                             ELSE Append(exceptions, "filter")
            /\ transport' = ErrorReply
    /\ UNCHANGED <<handler, response, route, graphql, measured, latches,
                   pipelineVars, page, doc, history>>

(* A more specific filter of the application answers instead. *)
AppFilterCatches ==
    /\ phase = "failing"
    /\ handler # "graphql"
    /\ phase' = "done"
    /\ transport' = ErrorReply
    /\ UNCHANGED <<handler, profileVars, latches, pipelineVars, page, doc, history>>

-----------------------------------------------------------------------------
(* The transport *)

(* The framework writes what was emitted; the GraphQL driver writes its envelope. *)
Reply ==
    /\ \/ phase = "emitted" /\ handler \notin {"stream", "res"}
       \/ phase = "opened" /\ handler = "invalidGraphql"
    /\ LET failed == handler = "invalidGraphql" \/ history.failures > 0
           body == CASE handler = "void" -> "none"
                     [] handler \in {"graphql", "invalidGraphql"} /\ failed -> "errors"
                     [] OTHER -> "whole"
       IN transport' = Replied(transport, body, transport.status)
    /\ phase' = "done"
    /\ history' = IF handler = "invalidGraphql"
                  THEN [history EXCEPT !.failures = @ + 1] ELSE history
    /\ UNCHANGED <<handler, profileVars, latches, pipelineVars, page, doc>>

(* Serialising the emitted value throws (a BigInt, a cycle) outside the          *)
(* interceptor's chain, straight into the exception filters; the json() wrapper  *)
(* has captured the value by then.                                               *)
ReplyFails ==
    /\ ReplyMayFail
    /\ phase = "emitted" /\ handler \in {"value", "restQuery"}
    /\ phase' = "failing"
    /\ transport' = [transport EXCEPT !.body = "whole"]
    /\ history' = [history EXCEPT !.failures = @ + 1]
    /\ UNCHANGED <<handler, profileVars, latches, pipelineVars, page, doc>>

CanWrite ==
    /\ ~transport.ended
    /\ \/ phase = "emitted" /\ handler \in {"stream", "res"}
       \/ phase = "handling" /\ handler = "res"

Write(json) ==
    /\ CanWrite
    /\ transport.chunks < MaxChunks
    /\ json => handler = "res"
    /\ transport' = Written(json)
    /\ UNCHANGED <<handler, phase, profileVars, latches, pipelineVars, page, doc,
                   history>>

EndResponse(last) ==
    /\ CanWrite
    /\ last => handler = "res" /\ transport.chunks < MaxChunks
    /\ transport' = EndedWith(last)
    /\ phase' = IF phase = "handling" THEN phase ELSE "done"
    /\ UNCHANGED <<handler, profileVars, latches, pipelineVars, page, doc, history>>

-----------------------------------------------------------------------------
(* ProfilerMiddleware.completeProfile, called by the finish/close listeners *)

(* backfillResponseBody's condition *)
BodyChanged ==
    /\ transport.body # "none"
    /\ graphql \/ (CollectBody /\ response.body = "none")

Completed(stream) ==
    [status |-> IF BodyChanged /\ graphql THEN transport.status ELSE response.status,
     body |-> IF ~BodyChanged THEN response.body
              ELSE IF CollectBody \/ graphql THEN transport.body ELSE "none",
     stream |-> IF stream # "none" THEN stream ELSE response.stream]

(* Faults: the pipeline is run again; the clock is not read again; the change is *)
(* not saved.                                                                    *)
BackfillCollects(stream) ==
    /\ response' = Completed(stream)
    /\ measured' = IF stream # "none" THEN "over" ELSE measured
    /\ IF BodyChanged \/ stream # "none"
       THEN /\ StartPipeline("hook")
            /\ history' = [history EXCEPT !.runs = @ + 1]
       ELSE UNCHANGED <<pipelineVars, history>>
    /\ UNCHANGED <<exceptions, graphql>>
BackfillUnmeasured(stream) ==
    /\ response' = Completed(stream)
    /\ IF BodyChanged \/ stream # "none" THEN ScheduleSave("hook")
                                         ELSE UNCHANGED pipelineVars
    /\ UNCHANGED <<exceptions, graphql, measured, history>>
BackfillUnsaved(stream) ==
    /\ response' = Completed(stream)
    /\ measured' = IF stream # "none" THEN "over" ELSE measured
    /\ UNCHANGED <<exceptions, graphql, pipelineVars, history>>

(* A profile the interceptor closed: the late body, the stream's measure. *)
Backfill(stream) ==
    /\ response' = Completed(stream)
    /\ measured' = IF stream # "none" THEN "over" ELSE measured
    /\ IF BodyChanged \/ stream # "none" THEN ScheduleSave("hook")
                                         ELSE UNCHANGED pipelineVars
    /\ UNCHANGED <<exceptions, graphql, history>>

(* A profile the interceptor left open, or never reached. *)
CloseFromTransport(stream) ==
    /\ Finalize(transport.status, transport.body, stream, "over")
    /\ graphql' = (graphql \/ HasQueryBody)
    /\ exceptions' = exceptions \o EnvelopeErrors(transport.body)
    /\ StartPipeline("hook")
    /\ history' = [history EXCEPT !.runs = @ + 1]

(* Fault: the hook closes whatever it finds. *)
CompleteAlways(aborted) ==
    IF completed \/ ~deferred
    THEN UNCHANGED <<response, exceptions, graphql, measured, pipelineVars, history,
                     completed>>
    ELSE completed' = TRUE /\ CloseFromTransport(Stream(aborted))

CompleteProfile(aborted) ==
    IF completed \/ ~deferred
    THEN UNCHANGED <<response, exceptions, graphql, measured, pipelineVars, history,
                     completed>>
    ELSE /\ completed' = TRUE
         /\ IF Closed THEN Backfill(Stream(aborted))
                      ELSE CloseFromTransport(Stream(aborted))

Finish ==
    /\ phase \notin {"arrived", "skipped"}
    /\ transport.ended /\ ~TransportOver
    /\ transport' = [transport EXCEPT !.finished = TRUE]
    /\ CompleteProfile(FALSE)
    /\ UNCHANGED <<handler, phase, route, deferred, settled, recorded, page, doc>>

(* Fault: only `finish` is listened for. *)
CloseUnheard ==
    /\ phase \notin {"arrived", "skipped"}
    /\ ~transport.closed
    /\ transport' = [transport EXCEPT !.closed = TRUE, !.aborted = ~transport.ended]
    /\ UNCHANGED <<handler, phase, profileVars, latches, pipelineVars, page, doc,
                   history>>

(* The connection closes: after `finish`, or because the client went away. *)
Close ==
    /\ phase \notin {"arrived", "skipped"}
    /\ ~transport.closed
    /\ transport' = [transport EXCEPT !.closed = TRUE, !.aborted = ~transport.ended]
    /\ CompleteProfile(~transport.ended)
    /\ UNCHANGED <<handler, phase, route, deferred, settled, recorded, page, doc>>

-----------------------------------------------------------------------------
(* ProfilerCoreService.collect / persist, and the store *)

(* A collector answers, fails or times out; the next one is called in the same *)
(* tick and drains what was captured meanwhile.                                *)
Panel(j, ok) == IF ok THEN [state |-> "ok", n |-> jobs[j].held]
                      ELSE [state |-> "failed", n |-> 0]

(* Fault: a failed collector keeps what it drained beside its error. *)
SetPanelWithEntries(j, ok) ==
    panels' = [panels EXCEPT ![jobs[j].at] =
                  [state |-> IF ok THEN "ok" ELSE "failed", n |-> jobs[j].held]]

SetPanel(j, ok) == panels' = [panels EXCEPT ![jobs[j].at] = Panel(j, ok)]

Collecting(j, ok) ==
    /\ jobs[j].pc = "collecting"
    /\ ok \/ jobs[j].at \in FailingCollectors
    /\ SetPanel(j, ok)

CollectNext(j, ok) ==
    /\ Collecting(j, ok)
    /\ jobs[j].at < N
    /\ LET next == jobs[j].at + 1 IN
         /\ jobs' = [jobs EXCEPT ![j] = [pc |-> "collecting", at |-> next,
                                         held |-> raw[next]]]
         /\ raw' = [raw EXCEPT ![next] = 0]
    /\ UNCHANGED <<handler, phase, transport, profileVars, latches, page, doc, history>>

(* analyzeProfile iterates every taggable collector's entries outside the rules' *)
(* try/catch; `{ error }` has no iterator.                                       *)
AnalysisThrows(p) == \E c \in Taggable : p[c].state = "failed"

Toolbar(j) == j = "emit" /\ handler = "html"

(* The last collector answers: analysis, trace, then the save is called. *)
CollectLast(j, ok) ==
    /\ Collecting(j, ok)
    /\ jobs[j].at = N
    /\ ~AnalysisThrows(panels')
    /\ jobs' = [jobs EXCEPT ![j] = [pc |-> "saving", at |-> 0, held |-> 0]]
    /\ IF Toolbar(j)
       THEN page' = "toolbar" /\ phase' = "emitted"
       ELSE UNCHANGED <<page, phase>>
    /\ UNCHANGED <<handler, transport, profileVars, latches, raw, doc, history>>

(* The analysis throws: the pipeline rejects.  A deferred one is only logged; on *)
(* the toolbar path the rejection travels into processHttp's catchError.         *)
CollectRejects(j, ok) ==
    /\ Collecting(j, ok)
    /\ jobs[j].at = N
    /\ AnalysisThrows(panels')
    /\ IF ~Toolbar(j)
       THEN /\ jobs' = [jobs EXCEPT ![j] = [pc |-> "lost", at |-> 0, held |-> 0]]
            /\ UNCHANGED <<phase, response, measured, exceptions, route, recorded,
                           raw, history>>
       ELSE IF deferred
       THEN /\ CatchError(0)
            /\ jobs' = [jobs EXCEPT ![j] = [pc |-> "lost", at |-> 0, held |-> 0]]
            /\ UNCHANGED <<response, measured, raw>>
       ELSE /\ CatchError(1)
            /\ Finalize("error", "none", "none", Now)
            /\ jobs' = [jobs EXCEPT
                  ![j] = [pc |-> "lost", at |-> 0, held |-> 0],
                  !["error"] = [pc |-> "collecting", at |-> 1, held |-> raw[1]]]
            /\ raw' = [raw EXCEPT ![1] = 0]
    /\ UNCHANGED <<handler, transport, graphql, deferred, settled, completed, page, doc>>

(* The adapter serialises the live profile and writes it. *)
Save(j) ==
    /\ jobs[j].pc = "saving"
    /\ doc' = Snapshot
    /\ jobs' = [jobs EXCEPT ![j].pc = "saved"]
    /\ UNCHANGED <<handler, phase, transport, profileVars, latches, raw, panels,
                   page, history>>

(* track() swallows a rejected save. *)
SaveFails(j) ==
    /\ SaveMayFail
    /\ jobs[j].pc = "saving"
    /\ jobs' = [jobs EXCEPT ![j].pc = "lost"]
    /\ UNCHANGED <<handler, phase, transport, profileVars, latches, raw, panels,
                   page, doc, history>>

-----------------------------------------------------------------------------
Emission ==
    \/ \E more \in BOOLEAN : EmitForwarded(more) \/ EmitStreamed(more)
                             \/ EmitPersisted(more)
    \/ EmitPage
    \/ Resolve

Pipeline(j) ==
    \/ \E ok \in BOOLEAN : CollectNext(j, ok) \/ CollectLast(j, ok)
                           \/ CollectRejects(j, ok)
    \/ Save(j)
    \/ SaveFails(j)

Next ==
    \/ Skip
    \/ Use
    \/ \E c \in Collectors : Capture(c)
    \/ GuardRejects
    \/ Intercept
    \/ Emission
    \/ Throw
    \/ ResolverThrows
    \/ FilterCatches
    \/ AppFilterCatches
    \/ Reply
    \/ ReplyFails
    \/ \E json \in BOOLEAN : Write(json)
    \/ \E last \in BOOLEAN : EndResponse(last)
    \/ Finish
    \/ Close
    \/ \E j \in JobIds : Pipeline(j)

(* Promises settle (a collector by its timeout), the handler eventually emits  *)
(* or throws, the framework answers, and Node emits `finish` or `close`.       *)
Fairness ==
    /\ \A j \in JobIds : WF_vars(Pipeline(j))
    /\ WF_vars(Use \/ Skip)
    /\ WF_vars(Intercept \/ GuardRejects)
    /\ WF_vars(Emission \/ Throw \/ ResolverThrows)
    /\ WF_vars(FilterCatches \/ AppFilterCatches)
    /\ WF_vars(Reply \/ ReplyFails)
    /\ WF_vars(\E last \in BOOLEAN : EndResponse(last))
    /\ WF_vars(Finish \/ Close)

Spec == Init /\ [][Next]_vars
FairSpec == Spec /\ Fairness

-----------------------------------------------------------------------------
(* Properties *)

PanelType == [state : {"none", "failed"}, n : {0}] \cup [state : {"ok"}, n : Nat]
BodyType == {"none", "whole", "part", "errors"}
ResponseType == [status : {"none", "ok", "error"}, body : BodyType,
                 stream : {"none", "whole", "aborted"}]
ExceptionsType == Seq({"interceptor", "filter", "envelope"})
MeasuredType == {"never", "open", "over"}
TransportType == [chunks : Nat, streaming : BOOLEAN, buffered : Nat, buffering : BOOLEAN,
                  body : BodyType, status : {"ok", "error"}, ended : BOOLEAN,
                  finished : BOOLEAN, closed : BOOLEAN, aborted : BOOLEAN]
JobType == [pc : {"idle", "collecting", "saving", "saved", "lost"}, at : 0..N, held : Nat]
DocType == [present : BOOLEAN, response : ResponseType, exceptions : ExceptionsType,
            route : BOOLEAN, measured : MeasuredType, panels : [Collectors -> PanelType]]
HistoryType == [runs : Nat, failures : Nat, late : BOOLEAN, emissions : Nat,
                entries : Nat, due : [Collectors -> Nat]]

(* Every variable stays in its domain; a failed collector's panel holds the  *)
(* error and no entries (CollectorRegistry.safeCollect).                     *)
TypeOK ==
    /\ handler \in Handlers
    /\ phase \in {"arrived", "skipped", "opened", "handling", "awaiting", "emitted",
                  "failing", "done"}
    /\ transport \in TransportType
    /\ response \in ResponseType
    /\ exceptions \in ExceptionsType
    /\ route \in BOOLEAN /\ graphql \in BOOLEAN /\ deferred \in BOOLEAN
    /\ settled \in BOOLEAN /\ completed \in BOOLEAN /\ recorded \in BOOLEAN
    /\ measured \in MeasuredType
    /\ raw \in [Collectors -> Nat]
    /\ panels \in [Collectors -> PanelType]
    /\ jobs \in [JobIds -> JobType]
    /\ page \in {"none", "toolbar"}
    /\ doc \in DocType
    /\ history \in HistoryType

(* Collectors drain destructively, so the pipeline runs at most once over a   *)
(* profile the finish hook watches, whichever of the interceptor, the toolbar *)
(* and the hook gets to it first.                                             *)
PipelineRunsOnce == deferred => history.runs <= 1

Collected == \E j \in JobIds : jobs[j].pc \in {"saving", "saved"}
CollectionRuns == \E j \in JobIds : jobs[j].pc = "collecting"

(* What the request's own work recorded (for a stream, an @Res() handler or a *)
(* GraphQL operation: all of it until the response ended) is in the panels    *)
(* once the pipeline is through, unless the collector failed.                 *)
DueEntriesReachPanels ==
    (deferred /\ Collected /\ ~CollectionRuns) =>
        \A c \in Collectors :
            panels[c].state = "failed" \/ panels[c].n >= history.due[c]

(* Interceptor, exception filter and finish hook never record one failure of  *)
(* an HTTP route twice.                                                       *)
OneEntryPerFailure == handler \in HttpKinds => Len(exceptions) <= history.failures

(* A page carrying the toolbar is sent only once every panel is there.        *)
ToolbarShowsFinishedPanels ==
    page = "toolbar" => \A c \in Collectors : panels[c].state # "none"

(* The duration of a response recorded as a stream was read after its end.    *)
StreamMeasuredToItsEnd == response.stream # "none" => measured = "over"

Terminal == \A j \in JobIds : jobs[j].pc \in {"idle", "saved", "lost"}
Quiet == phase = "done" /\ TransportOver /\ Terminal
NothingLost == \A j \in JobIds : jobs[j].pc # "lost"

(* A request that failed before it emitted anything is recorded with the      *)
(* status the exception filters chose, not with what the transport read when  *)
(* it was thrown.                                                             *)
FailureStatusIsServed ==
    (Quiet /\ deferred /\ ~settled /\ ~transport.aborted /\ handler \in HttpKinds)
        => response.status = transport.status

(* profile.response is built once: afterwards only the finish hook completes  *)
(* it, and it never turns a plain route's status into another.                *)
ClosedOnce ==
    [][(Closed /\ deferred) =>
          /\ response'.status # "none"
          /\ response'.status # response.status => graphql
          /\ response.body \notin {"none", response'.body} => graphql
      ]_vars

(* Once everything has settled, the stored document of a request the finish   *)
(* hook watches is the profile, whoever changed it last, unless a save was    *)
(* refused or the pipeline rejected, or the handler failed on a profile       *)
(* already closed.                                                            *)
StoredIsFinal ==
    (Quiet /\ deferred /\ NothingLost /\ ~history.late) => doc = Snapshot

(* Every request the finish hook watches is stored in the end, whichever way  *)
(* it ends (a guard, a failure, an abort, a framework that answers by itself),*)
(* unless the storage adapter refused it or the pipeline rejected.            *)
EventuallyStored ==
    (phase = "opened" /\ deferred) ~> (doc.present \/ ~NothingLost)

(* What nest-profiler.builder.ts:154 says of `collectorTimeout`: a collector  *)
(* that times out or throws costs its own panel, never the profile.           *)
FailedCollectorCostsItsPanelOnly == (Quiet /\ deferred) => doc.present

(* What http-capture.util.ts:69 says of `statusCode`: the recorded status is  *)
(* the one the client is served.                                              *)
RecordedStatusIsServed ==
    (Quiet /\ deferred /\ ~transport.aborted) => response.status = transport.status

=============================================================================
