----------------------------- MODULE MethodSpans -----------------------------
(***************************************************************************)
(* Spans opened around running code: the automatic instrumentation that    *)
(* puts a Proxy on every provider (instrument/profiler-instrument.ts), the *)
(* @Span decorator (trace/span.decorator.ts), TracerService and the one    *)
(* implementation under them, runInSpan (trace/run-in-span.ts).            *)
(*                                                                         *)
(* JavaScript runs one call stack at a time: spStack.  An async method     *)
(* leaves it at its first await and comes back on an empty stack, so the   *)
(* executions of several requests interleave at awaits, and they share the *)
(* providers, hence the re-entrancy guard of each.  The CLS store a frame  *)
(* runs in says which span is active; `inherit` copies it.  A decorated    *)
(* method of an instrumented provider goes through both wrappers, and a    *)
(* call of it opens two spans: the method's, and @Span's own inside it.    *)
(***************************************************************************)
EXTENDS Naturals, Sequences, SequencesExt

CONSTANTS
    SpTasks,      \* executions: requests, or work nothing profiles
    SpMethods,    \* the methods of the providers
    SpScenarios,  \* how the providers are instrumented
    SpMaxDepth    \* the maxDepth option

ASSUME SpAssumption ==
    /\ SpMaxDepth \in Nat
    /\ \A s \in SpScenarios :
         /\ DOMAIN s = {"instance", "raw", "skipped", "excluded", "decorated", "profiled",
                      "tracer", "calls"}
         /\ s.tracer \in BOOLEAN
         /\ s.calls \in Nat         \* bound: calls made in one behaviour
         /\ DOMAIN s.instance = SpMethods
         /\ s.excluded \subseteq SpMethods /\ s.profiled \subseteq SpTasks
         /\ s.decorated \subseteq SpMethods

VARIABLES
    spConfig,
    spStack,     \* the calls on the JavaScript stack, the innermost last
    spCalls,     \* every call made, in order
    spStores,    \* the CLS stores: the active span and the depth
    spTracing,   \* the methods whose wrapper is on the stack
    spSpans      \* every span opened: parent, kind, marked failed, its records

spVars == <<spConfig, spStack, spCalls, spStores, spTracing, spSpans>>

SpStart(s) ==
    /\ spConfig = s
    /\ spStack = <<>> /\ spCalls = <<>> /\ spStores = <<>> /\ spTracing = {}
    /\ spSpans = <<>>

SpInit == \E s \in SpScenarios : SpStart(s)

SpEntry == "entry"
Running == spCalls[Last(spStack)]
NoSpan == 0

(* openSpan: the parent is the span active in the caller's store.  records *)
(* are what manualSpansOf(profile) holds of the span: its statuses.        *)
OpenedSpan(active, kind) ==
    [parent |-> active, kind |-> kind, failed |-> FALSE, records |-> <<>>]

(* A recorded span is closed: getOpenSpan no longer finds it.              *)
IsClosed(id) == spSpans[id].records # <<>>

-----------------------------------------------------------------------------
(* Which wrapper a call goes through.                                      *)

(* instrumentInstance: a skipped or internal provider is handed back as it *)
(* is.  A method of a provider with private members runs on the raw        *)
(* instance, so its calls to `this` do not come back through the Proxy.    *)
ThroughProxy(m, self) ==
    /\ spConfig.instance[m] \notin spConfig.skipped
    /\ ~(self /\ spConfig.instance[m] \in spConfig.raw)

(* The Proxy's get trap, then the wrapper's guards: a method excluded by   *)
(* name, one already being traced on this stack, a tree deep enough.       *)
OpensMethodSpan(m, self, depth) ==
    /\ ThroughProxy(m, self)
    /\ m \notin spConfig.excluded
    /\ m \notin spTracing
    /\ depth < SpMaxDepth

(* @Span: the class holds a function that opens a span around the method.  *)
IsDecorated(m) == m \in spConfig.decorated

-----------------------------------------------------------------------------
(* Entering.                                                               *)

(* An execution starts: its entry point runs in a fresh store.             *)
Enter(t) ==
    /\ spStack = <<>>
    /\ \A c \in DOMAIN spCalls : spCalls[c].task # t \/ spCalls[c].method # SpEntry
    /\ Len(spCalls) < spConfig.calls
    /\ spCalls' = Append(spCalls, [task |-> t, method |-> SpEntry, caller |-> 0,
                                   self |-> FALSE, span |-> NoSpan, inner |-> NoSpan,
                                   wrapped |-> FALSE, store |-> Len(spStores) + 1, under |-> {},
                                   state |-> "first", failed |-> FALSE])
    /\ spStores' = Append(spStores, [span |-> NoSpan, depth |-> 0])
    /\ spStack' = <<Len(spCalls) + 1>>
    /\ UNCHANGED <<spConfig, spTracing, spSpans>>

(* A frame calls a method, on another provider or on its own `this`.       *)
(* runInSpan runs it in a copy of the store where its span is the active   *)
(* one and it is a level deeper; without a profile it runs where it is,    *)
(* and only the depth is written, into the caller's own store.  The        *)
(* decorator's span opens inside the method's, at the same depth: `inner`. *)
Invoke(m, self) ==
    /\ spStack # <<>> /\ Len(spCalls) < spConfig.calls
    /\ self => Running.method # SpEntry /\ spConfig.instance[Running.method] = spConfig.instance[m]
    /\ LET store == Running.store
           active == spStores[store].span
           depth == spStores[store].depth
           method == OpensMethodSpan(m, self, depth)
           both == method /\ IsDecorated(m)
           recorded == (method \/ IsDecorated(m)) /\ Running.task \in spConfig.profiled
           deeper == IF method THEN depth + 1 ELSE depth
           id == Len(spSpans) + 1
           innermost == IF both THEN id + 1 ELSE id
           opened == Append(spSpans, OpenedSpan(active, IF method THEN "method" ELSE "custom"))
       IN  /\ spCalls' = Append(spCalls,
                [task |-> Running.task, method |-> m, caller |-> Last(spStack), self |-> self,
                 span |-> IF recorded THEN id ELSE NoSpan,
                 inner |-> IF recorded /\ both THEN innermost ELSE NoSpan, wrapped |-> method,
                 store |-> IF recorded THEN Len(spStores) + 1 ELSE store,
                 under |-> {spCalls[spStack[i]].method : i \in DOMAIN spStack},
                 state |-> "first", failed |-> FALSE])
           /\ spSpans' = IF ~recorded THEN spSpans
                         ELSE IF both THEN Append(opened, OpenedSpan(id, "custom")) ELSE opened
           /\ spStores' = IF recorded THEN Append(spStores, [span |-> innermost, depth |-> deeper])
                          ELSE [spStores EXCEPT ![store].depth = deeper]
           /\ spTracing' = IF method THEN spTracing \cup {m} ELSE spTracing
           /\ spStack' = Append(spStack, Len(spCalls) + 1)
    /\ UNCHANGED spConfig

-----------------------------------------------------------------------------
(* Leaving.                                                                *)

(* end: once; a mark left by captureError wins over the outcome.           *)
RecordSpans(ids, failed) ==
    [id \in DOMAIN spSpans |->
        IF id \notin ids \/ IsClosed(id) THEN spSpans[id]
        ELSE [spSpans[id] EXCEPT !.records = Append(@, failed \/ spSpans[id].failed)]]

GuardKept(call) == spTracing

(* The wrapper's `finally`: it runs when the call hands back control, with *)
(* a value, an error or a promise.                                         *)
ReleaseGuard(call) ==
    IF call.wrapped /\ call.state = "first" THEN spTracing \ {call.method} ELSE spTracing

(* The innermost frame reaches an await: its caller goes on with a promise.*)
AwaitInside ==
    /\ spStack # <<>>
    /\ spCalls' = [spCalls EXCEPT ![Last(spStack)].state = "awaiting"]
    /\ spTracing' = ReleaseGuard(Running)
    /\ spStack' = Front(spStack)
    /\ UNCHANGED <<spConfig, spStores, spSpans>>

Continue(c) ==
    /\ spStack = <<>> /\ spCalls[c].state = "awaiting"
    /\ spCalls' = [spCalls EXCEPT ![c].state = "resumed"]
    /\ spStack' = <<c>>
    /\ UNCHANGED <<spConfig, spStores, spTracing, spSpans>>

(* The innermost frame returns or throws.  Before its first await its spans*)
(* end with it; after, its promise settles and a microtask ends each span, *)
(* the decorator's first, whose promise is the one the method's waits for. *)
Leave(failed) ==
    /\ spStack # <<>>
    /\ failed => Running.span # NoSpan   \* bound: a failure nothing records is not told
    /\ spCalls' = [spCalls EXCEPT ![Last(spStack)].failed = failed,
                                  ![Last(spStack)].state =
                                     IF @ = "first" \/ Running.span = NoSpan THEN "over"
                                     ELSE "settled"]
    /\ spTracing' = ReleaseGuard(Running)
    /\ spSpans' = IF Running.state = "first" THEN RecordSpans({Running.span, Running.inner}, failed)
                  ELSE spSpans
    /\ spStack' = Front(spStack)
    /\ UNCHANGED <<spConfig, spStores>>

SettleSpan(c) ==
    /\ spStack = <<>> /\ spCalls[c].state \in {"settled", "unwinding"}
    /\ LET call == spCalls[c]
           two == call.state = "settled" /\ call.inner # NoSpan
       IN  /\ spCalls' = [spCalls EXCEPT ![c].state = IF two THEN "unwinding" ELSE "over"]
           /\ spSpans' = RecordSpans({IF two THEN call.inner ELSE call.span}, call.failed)
    /\ UNCHANGED <<spConfig, spStack, spStores, spTracing>>

-----------------------------------------------------------------------------
(* TracerService, called by the innermost frame.                           *)

(* captureError marks the active span, if it is still open.                *)
CaptureError ==
    /\ spConfig.tracer /\ spStack # <<>> /\ Running.task \in spConfig.profiled
    /\ LET active == spStores[Running.store].span
       IN  /\ active # NoSpan /\ ~IsClosed(active)
           /\ spSpans' = [spSpans EXCEPT ![active].failed = TRUE]
    /\ UNCHANGED <<spConfig, spStack, spCalls, spStores, spTracing>>

(* startSpan: nothing runs inside it, so it is never the active span.      *)
StartSpan ==
    /\ spConfig.tracer /\ spStack # <<>> /\ Running.task \in spConfig.profiled
    /\ \A i \in DOMAIN spSpans : spSpans[i].kind # "manual"   \* bound: one
    /\ spSpans' = Append(spSpans, OpenedSpan(spStores[Running.store].span, "manual"))
    /\ UNCHANGED <<spConfig, spStack, spCalls, spStores, spTracing>>

(* ... and its delegate is ended from anywhere, twice just as well.        *)
EndSpan(id) ==
    /\ spStack # <<>> /\ spSpans[id].kind = "manual"
    /\ spSpans' = RecordSpans({id}, FALSE)
    /\ UNCHANGED <<spConfig, spStack, spCalls, spStores, spTracing>>

SpNext ==
    \/ \E t \in SpTasks : Enter(t)
    \/ \E m \in SpMethods, self \in BOOLEAN : Invoke(m, self)
    \/ AwaitInside
    \/ \E c \in DOMAIN spCalls : Continue(c) \/ SettleSpan(c)
    \/ \E failed \in BOOLEAN : Leave(failed)
    \/ CaptureError \/ StartSpan
    \/ \E id \in DOMAIN spSpans : EndSpan(id)

SpSpec == SpInit /\ [][SpNext]_spVars

-----------------------------------------------------------------------------
(* Types: what the variables may hold.                                     *)
SpTypeOK ==
    /\ spConfig \in SpScenarios
    /\ \A i \in DOMAIN spStack : spStack[i] \in DOMAIN spCalls
    /\ spTracing \subseteq SpMethods
    /\ \A c \in DOMAIN spCalls :
         /\ spCalls[c].state \in {"first", "awaiting", "resumed", "settled", "unwinding", "over"}
         /\ spCalls[c].span \in 0..Len(spSpans) /\ spCalls[c].inner \in 0..Len(spSpans)
         /\ spCalls[c].store \in DOMAIN spStores
    /\ \A i \in DOMAIN spSpans : spSpans[i].parent \in 0..(i - 1)

(* What is above a call: the innermost span of the nearest caller that has *)
(* one, and the method spans of all its callers.                           *)
Innermost(call) == IF call.inner # NoSpan THEN call.inner ELSE call.span
SpanAbove(c) ==
    LET above[x \in DOMAIN spCalls] ==
          LET caller == spCalls[x].caller
          IN  IF caller = 0 THEN NoSpan
              ELSE IF spCalls[caller].span # NoSpan THEN Innermost(spCalls[caller])
                   ELSE above[caller]
    IN  above[c]
MethodSpansAbove(c) ==
    LET above[x \in DOMAIN spCalls] ==
          LET caller == spCalls[x].caller
          IN  IF caller = 0 THEN 0
              ELSE above[caller] + (IF spCalls[caller].span # NoSpan /\ spCalls[caller].wrapped
                                    THEN 1 ELSE 0)
    IN  above[c]

(* "Turning the waterfall into a full call tree": whatever runs between    *)
(* two awaits and in whichever execution, the span of a call hangs under   *)
(* that of its nearest caller that has one, never under a sibling's and    *)
(* never under another request's, and a decorator's span under that of the *)
(* method it decorates; in a profiled execution a call has its method span *)
(* unless its own callers explain why not: excluded, skipped, private,     *)
(* deep enough, or already on this very stack.                             *)
SpansMirrorCalls ==
    \A c \in {x \in DOMAIN spCalls : spCalls[x].method # SpEntry} :
        LET call == spCalls[c]
        IN  /\ call.span # NoSpan => spSpans[call.span].parent = SpanAbove(c)
            /\ call.inner # NoSpan => spSpans[call.inner].parent = call.span
            /\ call.task \in spConfig.profiled =>
                 IF call.wrapped THEN call.span # NoSpan /\ MethodSpansAbove(c) < SpMaxDepth
                 ELSE \/ ~ThroughProxy(call.method, call.self)
                      \/ call.method \in spConfig.excluded \cup call.under
                      \/ MethodSpansAbove(c) >= SpMaxDepth

(* "The span is closed however `work` ends", and a second end() records    *)
(* nothing: a call that is over has exactly one record of each of its      *)
(* spans, failed if the call failed or captured an error there, and a call *)
(* still running, or awaiting, has none; an outer span never ends before   *)
(* the one inside it.                                                      *)
RecordedOnce(id, over, failed) ==
    spSpans[id].records = IF over THEN <<failed \/ spSpans[id].failed>> ELSE <<>>
SpanClosedOnce ==
    /\ \A id \in DOMAIN spSpans : Len(spSpans[id].records) <= 1
    /\ \A c \in DOMAIN spCalls :
         LET call == spCalls[c]
         IN  /\ call.span # NoSpan => RecordedOnce(call.span, call.state = "over", call.failed)
             /\ call.inner # NoSpan =>
                  RecordedOnce(call.inner, call.state \in {"unwinding", "over"}, call.failed)

(* The waterfall is the calls: nested as they were, closed as they ended.  *)
SpansAreTheCalls == SpansMirrorCalls /\ SpanClosedOnce
=============================================================================
