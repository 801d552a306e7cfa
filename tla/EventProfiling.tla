---------------------------- MODULE EventProfiling ----------------------------
(***************************************************************************)
(* The event-emitter package: what an emission leaves on the emitting      *)
(* profile (event-emitter.patch.ts), the handlers found by scanning the    *)
(* container (event-listener-scan.ts) and the profile of its own each      *)
(* wrapped handler runs in (event-profiler.service.ts).                    *)
(*                                                                         *)
(* JavaScript runs to completion: an emission dispatches its handlers one  *)
(* after another on the stack, a handler may emit in turn, and a handler   *)
(* that awaits leaves the stack and settles later.  EventEmitter2 is       *)
(* external.                                                               *)
(***************************************************************************)
EXTENDS Naturals, Sequences, FiniteSets

CONSTANTS
    EvScenarios,  \* the handlers, what the request emits
    EvMaxExecs,   \* bound: handler executions
    EvNone

(* A scenario: the subscriptions in the order EventEmitter2 calls them --  *)
(* the instance, its class, the method, the event, whether the handler     *)
(* awaits, what it emits -- and the request's emissions, in order.         *)
ASSUME EvAssumption ==
    /\ EvMaxExecs \in Nat
    /\ \A s \in EvScenarios :
         /\ DOMAIN s = {"handlers", "emits"}
         /\ \A i \in DOMAIN s.handlers :
              DOMAIN s.handlers[i] = {"instance", "class", "method", "event", "awaits", "emits"}
         /\ \A i \in DOMAIN s.emits : s.emits[i].async \in BOOLEAN

VARIABLES
    evHandlers, evEmits,
    evExec,       \* execution -> the handler, its profile's owner, where it stands
    evBranch,     \* execution -> the profiler branch of its CLS store
    evProfileIn,  \* branch -> the profile it names
    evEmission,   \* the emissions so far
    evStack,      \* what is running: emissions and executions, innermost last
    evEntries,    \* EVENT_EMITTER_EVENTS_KEY of every profile
    evStored      \* profiles persisted

evVars == <<evHandlers, evEmits, evExec, evBranch, evProfileIn, evEmission, evStack,
            evEntries, evStored>>

Request == 0
EvExecs == DOMAIN evExec

-----------------------------------------------------------------------------
(* scanEventListeners: the subscriptions found, one per class, method and  *)
(* event; the first instance holding them is the one listed.               *)
ScanEventListeners ==
    {i \in DOMAIN evHandlers :
       ~ \E j \in 1..(i - 1) : /\ evHandlers[j].class = evHandlers[i].class
                               /\ evHandlers[j].method = evHandlers[i].method
                               /\ evHandlers[j].event = evHandlers[i].event}

(* groupByHandler and wrapListener: a method is wrapped once, whatever the *)
(* number of events it serves.                                             *)
WrappedHandler(h) ==
    \E i \in ScanEventListeners : /\ evHandlers[i].instance = evHandlers[h].instance
                                  /\ evHandlers[i].method = evHandlers[h].method

(* The event a profile is filed under: every event its method serves.      *)
EventsOf(h) == {evHandlers[i].event : i \in {j \in ScanEventListeners :
                  /\ evHandlers[j].instance = evHandlers[h].instance
                  /\ evHandlers[j].method = evHandlers[h].method}}

ListenersOf(event) ==
    SelectSeq([i \in DOMAIN evHandlers |-> i], LAMBDA i : evHandlers[i].event = event)

-----------------------------------------------------------------------------
EvStart(s) ==
    /\ evHandlers = s.handlers /\ evEmits = s.emits
    /\ evExec = [x \in {Request} |->
                   [handler |-> 0, owner |-> Request, parent |-> 0, emitted |-> 0,
                    stage |-> "running", failed |-> FALSE]]
    /\ evBranch = [x \in {Request} |-> Request]
    /\ evProfileIn = [x \in {Request} |-> Request]
    /\ evEmission = <<>> /\ evStack = <<>> /\ evEntries = <<>> /\ evStored = {}

EvInit == \E s \in EvScenarios : EvStart(s)

Top == evStack[Len(evStack)]
Under == SubSeq(evStack, 1, Len(evStack) - 1)
OnTop(kind, id) == evStack # <<>> /\ Top = [kind |-> kind, id |-> id]

(* Who may run: the execution on top, or one that is off the stack when    *)
(* nothing is on it.                                                       *)
Runs(x) ==
    /\ evExec[x].stage = "running"
    /\ IF evStack = <<>> THEN x = Request ELSE OnTop("exec", x)
Resumes(x) == evExec[x].stage = "awaiting" /\ evStack = <<>>

NextEmission(x) ==
    IF x = Request THEN evEmits[evExec[x].emitted + 1]
    ELSE [event |-> evHandlers[evExec[x].handler].emits, async |-> FALSE]
MayEmit(x) ==
    IF x = Request THEN evExec[x].emitted < Len(evEmits)
    ELSE evExec[x].emitted = 0 /\ evHandlers[evExec[x].handler].emits # EvNone

(* The patched emit / emitAsync: the profile is read at entry.             *)
Emit(x) ==
    /\ Runs(x) \/ Resumes(x)
    /\ MayEmit(x)
    /\ evEmission' = Append(evEmission,
         [by |-> x, event |-> NextEmission(x).event, async |-> NextEmission(x).async,
          profile |-> evProfileIn[evBranch[x]],
          todo |-> ListenersOf(NextEmission(x).event), waiting |-> {}, state |-> "dispatching",
          failed |-> FALSE])
    /\ evExec' = [evExec EXCEPT ![x].emitted = @ + 1]
    /\ evStack' = Append(evStack, [kind |-> "emission", id |-> Len(evEmission) + 1])
    /\ UNCHANGED <<evHandlers, evEmits, evBranch, evProfileIn, evEntries, evStored>>

(* buildClsStore: the wrapper runs the handler under a branch of its own.  *)
BuildClsStore(parent, x) == x

(* The next handler is called: a wrapped one in a new profile, another one *)
(* in the emitter's context.                                               *)
CallHandler(m) ==
    /\ OnTop("emission", m) /\ evEmission[m].todo # <<>>
    /\ Cardinality(EvExecs) <= EvMaxExecs
    /\ LET set(f, key, value) == [k \in DOMAIN f \cup {key} |-> IF k = key THEN value ELSE f[k]]
           x == Cardinality(EvExecs)
           h == Head(evEmission[m].todo)
           parent == evEmission[m].by
           branch == IF WrappedHandler(h) THEN BuildClsStore(evBranch[parent], x)
                     ELSE evBranch[parent]
       IN  /\ evExec' = set(evExec, x,
                [handler |-> h, owner |-> IF WrappedHandler(h) THEN x ELSE evExec[parent].owner,
                 parent |-> m, emitted |-> 0, stage |-> "running", failed |-> FALSE])
           /\ evBranch' = set(evBranch, x, branch)
           /\ evProfileIn' = IF WrappedHandler(h) THEN set(evProfileIn, branch, x) ELSE evProfileIn
           /\ evStack' = Append(evStack, [kind |-> "exec", id |-> x])
    /\ evEmission' = [evEmission EXCEPT ![m].todo = Tail(@)]
    /\ UNCHANGED <<evHandlers, evEmits, evEntries, evStored>>

EmissionEntry(m, failed) ==
    [emission |-> m, profile |-> evEmission[m].profile, failed |-> failed]

(* A handler returns without awaiting: its profile is finalised and its    *)
(* persistence scheduled.                                                  *)
ReturnSync(x) ==
    /\ x # Request /\ Runs(x) /\ ~evHandlers[evExec[x].handler].awaits
    /\ evExec' = [evExec EXCEPT ![x].stage = "returned"]
    /\ evStack' = Under
    /\ UNCHANGED <<evHandlers, evEmits, evBranch, evProfileIn, evEmission, evEntries, evStored>>

(* It throws: its profile keeps the exception, and the throw unwinds the   *)
(* emission.  emit records the failure; emitAsync returned no promise to   *)
(* observe, and records nothing.                                           *)
ThrowSync(x) ==
    /\ x # Request /\ Runs(x) /\ ~evHandlers[evExec[x].handler].awaits
    /\ evExec' = [evExec EXCEPT ![x].stage = "returned", ![x].failed = TRUE]
    /\ LET m == evExec[x].parent
       IN  /\ evStack' = SubSeq(evStack, 1, Len(evStack) - 2)
           /\ evEmission' = [evEmission EXCEPT ![m].state = IF evEmission[m].async THEN "thrown"
                                                            ELSE "done",
                                               ![m].failed = TRUE]
           /\ evEntries' = IF evEmission[m].async THEN evEntries
                           ELSE Append(evEntries, EmissionEntry(m, TRUE))
    /\ UNCHANGED <<evHandlers, evEmits, evBranch, evProfileIn, evStored>>

(* It awaits: the emission goes on with its promise.                       *)
Await(x) ==
    /\ x # Request /\ Runs(x) /\ evHandlers[evExec[x].handler].awaits
    /\ evExec' = [evExec EXCEPT ![x].stage = "awaiting"]
    /\ evEmission' = [evEmission EXCEPT ![evExec[x].parent].waiting = @ \cup {x}]
    /\ evStack' = Under
    /\ UNCHANGED <<evHandlers, evEmits, evBranch, evProfileIn, evEntries, evStored>>

(* emit and emitAsync return once every handler was called: emit records at*)
(* once, emitAsync when the handlers it waits for have settled.            *)
EmissionReturns(m) ==
    /\ OnTop("emission", m) /\ evEmission[m].todo = <<>>
    /\ evStack' = Under
    /\ IF evEmission[m].async /\ evEmission[m].waiting # {}
       THEN evEmission' = [evEmission EXCEPT ![m].state = "waiting"] /\ UNCHANGED evEntries
       ELSE /\ evEmission' = [evEmission EXCEPT ![m].state = "done"]
            /\ evEntries' = Append(evEntries, EmissionEntry(m, FALSE))
    /\ UNCHANGED <<evHandlers, evEmits, evExec, evBranch, evProfileIn, evStored>>

(* The promise of handler x settles for its emission.  A first rejection   *)
(* settles emitAsync; the last fulfilment does otherwise.                  *)
PromiseSettles(x, failed) ==
    LET m == evExec[x].parent
        left == evEmission[m].waiting \ {x}
        settles == evEmission[m].state = "waiting" /\ (failed \/ left = {})
    IN  /\ evEmission' = [evEmission EXCEPT ![m].waiting = left,
                            ![m].state = IF settles THEN "done" ELSE @,
                            ![m].failed = IF settles THEN failed ELSE @]
        /\ evEntries' = IF settles THEN Append(evEntries, EmissionEntry(m, failed)) ELSE evEntries

HandlerSettlesUnstored(x, failed) ==
    /\ Resumes(x)
    /\ evExec' = [evExec EXCEPT ![x].stage = "returned", ![x].failed = failed]
    /\ PromiseSettles(x, failed)
    /\ UNCHANGED <<evHandlers, evEmits, evBranch, evProfileIn, evStack, evStored>>

(* The awaited work ends: the wrapper finalises the profile and persists it*)
(* before its own promise settles; an unwrapped handler's settles at once. *)
HandlerSettles(x, failed) ==
    /\ Resumes(x)
    /\ IF WrappedHandler(evExec[x].handler)
       THEN /\ evExec' = [evExec EXCEPT ![x].stage = "persisting", ![x].failed = failed]
            /\ UNCHANGED <<evEmission, evEntries>>
       ELSE /\ evExec' = [evExec EXCEPT ![x].stage = "settled", ![x].failed = failed]
            /\ PromiseSettles(x, failed)
    /\ UNCHANGED <<evHandlers, evEmits, evBranch, evProfileIn, evStack, evStored>>

(* The core's pipeline has run; a failing save is only logged.             *)
HandlerPersisted(x, saved) ==
    /\ evStack = <<>> /\ evExec[x].stage = "persisting"
    /\ evExec' = [evExec EXCEPT ![x].stage = IF saved THEN "settled" ELSE "unsaved"]
    /\ evStored' = IF saved THEN evStored \cup {x} ELSE evStored
    /\ PromiseSettles(x, evExec[x].failed)
    /\ UNCHANGED <<evHandlers, evEmits, evBranch, evProfileIn, evStack>>

(* A scheduled persistence runs once the stack is empty.                   *)
ScheduledPersist(x) ==
    /\ evStack = <<>> /\ evExec[x].stage = "returned" /\ WrappedHandler(evExec[x].handler)
    /\ evExec' = [evExec EXCEPT ![x].stage = "settled"]
    /\ evStored' = evStored \cup {x}
    /\ UNCHANGED <<evHandlers, evEmits, evBranch, evProfileIn, evEmission, evStack, evEntries>>

EvNext ==
    \/ \E x \in EvExecs :
         \/ Emit(x) \/ ReturnSync(x) \/ ThrowSync(x) \/ Await(x) \/ ScheduledPersist(x)
         \/ \E b \in BOOLEAN : HandlerSettles(x, b) \/ HandlerPersisted(x, b)
    \/ \E m \in DOMAIN evEmission : CallHandler(m) \/ EmissionReturns(m)

EvSpec == EvInit /\ [][EvNext]_evVars

-----------------------------------------------------------------------------
(* Types: what the variables may hold.                                     *)
EvTypeOK ==
    /\ EvExecs = 0..(Cardinality(EvExecs) - 1)
    /\ \A x \in EvExecs :
         /\ evExec[x].stage \in {"running", "returned", "awaiting", "persisting", "settled",
                                 "unsaved"}
         /\ evExec[x].owner \in EvExecs /\ evBranch[x] \in EvExecs
    /\ \A b \in DOMAIN evProfileIn : evProfileIn[b] \in EvExecs
    /\ \A m \in DOMAIN evEmission :
         /\ evEmission[m].waiting \subseteq EvExecs
         /\ evEmission[m].state \in {"dispatching", "waiting", "done", "thrown"}
    /\ evStored \subseteq EvExecs

(* "a shared branch would replace the emitting request's own profile": an  *)
(* emission that returned or whose promise settled is listed once, on the  *)
(* profile of the execution that emitted it and with its own outcome,      *)
(* however handlers nest, fail, await or emit in turn.                     *)
EmissionsOnTheirEmitter ==
    /\ \A m \in DOMAIN evEmission :
         Cardinality({i \in DOMAIN evEntries : evEntries[i].emission = m}) =
           IF evEmission[m].state = "done" THEN 1 ELSE 0
    /\ \A i \in DOMAIN evEntries :
         LET m == evEmission[evEntries[i].emission]
         IN  evEntries[i].profile = evExec[m.by].owner /\ evEntries[i].failed = m.failed

(* "emitAsync callers still observe a stored profile once they have        *)
(* awaited": when emitAsync fulfils, every awaiting handler it called and  *)
(* the profiler wraps has its profile stored, unless the save failed.      *)
AwaitedHandlersStored ==
    \A m \in DOMAIN evEmission :
        evEmission[m].async /\ evEmission[m].state = "done" /\ ~evEmission[m].failed
        => \A x \in EvExecs \ {Request} :
             /\ evExec[x].parent = m /\ evHandlers[evExec[x].handler].awaits
             /\ WrappedHandler(evExec[x].handler) /\ evExec[x].stage # "unsaved"
             => x \in evStored
=============================================================================
