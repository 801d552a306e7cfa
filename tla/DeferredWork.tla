---------------------------- MODULE DeferredWork ----------------------------
(***************************************************************************)
(* The work ProfilerCoreService keeps off the response path: each deferred *)
(* pipeline or save is tracked in `pending` until it settles; a flush      *)
(* waits for the set to empty; shutdown flushes for a bounded time, then   *)
(* closes the storage.  Work may be tracked at any moment, during a flush  *)
(* and during shutdown included.                                           *)
(***************************************************************************)
EXTENDS Naturals, FiniteSets

CONSTANTS
    Work,       \* the promises handed to track()
    Hanging,    \* those whose adapter call may never settle
    Flushers,   \* callers of flushPendingProfiles() without a timeout
    Shutdown    \* the flush made by onApplicationShutdown()

ASSUME WorkAssumption ==
    /\ Hanging \subseteq Work
    /\ Shutdown \notin Flushers

VARIABLES
    work,       \* how far each promise is
    pending,    \* the set of tracked promises
    flush,      \* each flush: where it is and the promises its Promise.all awaits
    timer,      \* the shutdown flush's timeout
    storage,    \* "open", "closed": the adapter's handle
    stored,     \* the work whose save the adapter completed
    tracked     \* what was pending when each flush was called (read by no code)

vars == <<work, pending, flush, timer, storage, stored, tracked>>

Drains == Flushers \cup {Shutdown}

InFlight == {w \in Work : work[w] \in {"collecting", "saving", "settled"}}

Init ==
    /\ work = [w \in Work |-> "none"]
    /\ pending = {}
    /\ flush = [f \in Drains |-> [pc |-> "none", awaits |-> {}]]
    /\ timer = "off"
    /\ storage = "open"
    /\ stored = {}
    /\ tracked = [f \in Drains |-> {}]

-----------------------------------------------------------------------------
(* Fault: the promise is added once it has settled. *)
TrackLate(w) == UNCHANGED pending

Track(w) == pending' = pending \cup {w}

(* schedulePersist: the pipeline starts, then track() adds it to the set. *)
SchedulePersist(w) ==
    /\ work[w] = "none"
    /\ work' = [work EXCEPT ![w] = "collecting"]
    /\ Track(w)
    /\ UNCHANGED <<flush, timer, storage, stored, tracked>>

(* scheduleSave: the adapter's save() is called at once. *)
ScheduleSave(w) ==
    /\ work[w] = "none"
    /\ work' = [work EXCEPT ![w] = "saving"]
    /\ Track(w)
    /\ UNCHANGED <<flush, timer, storage, stored, tracked>>

(* The collectors are through (persist), or the pipeline rejected. *)
Collected(w) ==
    /\ work[w] = "collecting"
    /\ work' \in {[work EXCEPT ![w] = "saving"], [work EXCEPT ![w] = "settled"]}
    /\ UNCHANGED <<pending, flush, timer, storage, stored, tracked>>

(* The adapter answers: a closed handle refuses, an open one may fail. *)
SaveSettles(w) ==
    /\ work[w] = "saving"
    /\ work' = [work EXCEPT ![w] = "settled"]
    /\ \/ storage = "open" /\ stored' = stored \cup {w}
       \/ UNCHANGED stored
    /\ UNCHANGED <<pending, flush, timer, storage, tracked>>

(* Fault: a rejected promise is never removed. *)
ForgetNothing(w) ==
    /\ work[w] = "settled"
    /\ work' = [work EXCEPT ![w] = "done"]
    /\ UNCHANGED <<pending, flush, timer, storage, stored, tracked>>

(* track()'s catch and finally: resolved or rejected, the promise is forgotten. *)
Forget(w) ==
    /\ work[w] = "settled"
    /\ work' = [work EXCEPT ![w] = "done"]
    /\ pending' = pending \ {w}
    /\ UNCHANGED <<flush, timer, storage, stored, tracked>>

-----------------------------------------------------------------------------
(* One turn of the drain loop: over when the set is empty, else await it all. *)
Turn == IF pending = {} THEN [pc |-> "drained", awaits |-> {}]
                        ELSE [pc |-> "waiting", awaits |-> pending]

(* flushPendingProfiles(): the loop's first turn runs in the caller's tick. *)
Flush(f) ==
    /\ f \in Flushers
    /\ flush[f].pc = "none"
    /\ flush' = [flush EXCEPT ![f] = Turn]
    /\ tracked' = [tracked EXCEPT ![f] = pending]
    /\ UNCHANGED <<work, pending, timer, storage, stored>>

(* Fault: the set is awaited once. *)
ResumeOnce(f) ==
    /\ flush[f].pc = "waiting"
    /\ flush[f].awaits \cap InFlight = {}
    /\ flush' = [flush EXCEPT ![f] = [pc |-> "drained", awaits |-> {}]]
    /\ UNCHANGED <<work, pending, timer, storage, stored, tracked>>

(* Promise.all resolves when everything awaited has been forgotten; the loop    *)
(* looks at the set again.                                                      *)
Resume(f) ==
    /\ flush[f].pc = "waiting"
    /\ flush[f].awaits \cap InFlight = {}
    /\ flush' = [flush EXCEPT ![f] = Turn]
    /\ UNCHANGED <<work, pending, timer, storage, stored, tracked>>

(* onApplicationShutdown(): the same loop, raced against a timer. *)
BeginShutdown ==
    /\ flush[Shutdown].pc = "none"
    /\ flush' = [flush EXCEPT ![Shutdown] = Turn]
    /\ tracked' = [tracked EXCEPT ![Shutdown] = pending]
    /\ timer' = "armed"
    /\ UNCHANGED <<work, pending, storage, stored>>

(* Fault: the flush is not raced. *)
NoTimeout == FALSE /\ UNCHANGED vars

Timeout ==
    /\ timer = "armed"
    /\ timer' = "fired"
    /\ UNCHANGED <<work, pending, flush, storage, stored, tracked>>

(* Fault: the storage is closed without waiting. *)
CloseEarly ==
    /\ flush[Shutdown].pc # "none"
    /\ storage = "open"
    /\ storage' = "closed"
    /\ UNCHANGED <<work, pending, flush, timer, stored, tracked>>

(* The race is over: storage.close(), whose failure is only logged. *)
CloseStorage ==
    /\ flush[Shutdown].pc = "drained" \/ timer = "fired"
    /\ storage = "open"
    /\ storage' = "closed"
    /\ UNCHANGED <<work, pending, flush, timer, stored, tracked>>

Next ==
    \/ \E w \in Work : SchedulePersist(w) \/ ScheduleSave(w)
    \/ \E w \in Work : Collected(w)
    \/ \E w \in Work : SaveSettles(w)
    \/ \E w \in Work : Forget(w)
    \/ \E f \in Flushers : Flush(f)
    \/ \E f \in Drains : Resume(f)
    \/ BeginShutdown
    \/ Timeout
    \/ CloseStorage

(* Collectors settle by their timeout and a promise's callbacks run; a hanging   *)
(* adapter call need not settle.  The timer fires.                               *)
Fairness ==
    /\ \A w \in Work : WF_vars(Collected(w) \/ Forget(w))
    /\ \A w \in Work \ Hanging : WF_vars(SaveSettles(w))
    /\ \A f \in Drains : WF_vars(Resume(f))
    /\ WF_vars(Timeout)
    /\ WF_vars(CloseStorage)

Spec == Init /\ [][Next]_vars
FairSpec == Spec /\ Fairness

-----------------------------------------------------------------------------
(* Properties *)

DrainType == [pc : {"none", "waiting", "drained"}, awaits : SUBSET Work]

(* The variables' domains, and the set is exactly the work still in flight: a  *)
(* promise forgotten twice or never would make a flush return early or hang.   *)
TypeOK ==
    /\ work \in [Work -> {"none", "collecting", "saving", "settled", "done"}]
    /\ pending = InFlight
    /\ flush \in [Drains -> DrainType]
    /\ timer \in {"off", "armed", "fired"}
    /\ storage \in {"open", "closed"}
    /\ stored \in SUBSET Work
    /\ tracked \in [Drains -> SUBSET Work]

(* flushPendingProfiles() "awaits every deferred collect/save still in flight": *)
(* the moment it returns nothing is in flight, whatever was tracked while it    *)
(* waited.                                                                      *)
FlushLeavesNothing ==
    [][\A f \in Drains : flush'[f].pc = "drained" /\ flush[f].pc # "drained"
                            => InFlight' = {}]_vars

(* What was tracked before shutdown is closed upon only if the timer has fired. *)
ClosedAfterDrain ==
    (storage = "closed" /\ timer # "fired") => tracked[Shutdown] \cap InFlight = {}

(* The storage is closed in the end, though an adapter call hangs and requests  *)
(* keep tracking more work.                                                     *)
ShutdownEnds == (flush[Shutdown].pc # "none") ~> (storage = "closed")

(* A flush without a timeout returns once no adapter call hangs and no more     *)
(* work is tracked (the set of promises is finite).                             *)
FlushEnds ==
    \A f \in Flushers :
        (flush[f].pc = "waiting" /\ Hanging \cap InFlight = {})
            ~> (flush[f].pc = "drained" \/ Hanging \cap InFlight # {})
=============================================================================
