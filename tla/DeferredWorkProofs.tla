------------------------- MODULE DeferredWorkProofs -------------------------
(* Proofs about DeferredWork, for any number of promises and flushes. *)
EXTENDS DeferredWork, TLAPS

States == {"none", "collecting", "saving", "settled", "done"}

LEMMA ShutdownDrains == Shutdown \in Drains
  BY DEF Drains

(* Starting a promise adds it to what is in flight; settling leaves it there; *)
(* forgetting it takes it out.                                                *)
LEMMA InFlightStarts ==
  ASSUME work \in [Work -> States], NEW w \in Work, NEW s \in {"collecting", "saving"},
         work' = [work EXCEPT ![w] = s]
  PROVE  InFlight' = InFlight \cup {w}
  BY DEF InFlight

LEMMA InFlightStays ==
  ASSUME work \in [Work -> States], NEW w \in InFlight, NEW s \in {"saving", "settled"},
         work' = [work EXCEPT ![w] = s]
  PROVE  InFlight' = InFlight
  BY DEF InFlight

LEMMA InFlightEnds ==
  ASSUME work \in [Work -> States], NEW w \in Work, work' = [work EXCEPT ![w] = "done"]
  PROVE  InFlight' = InFlight \ {w}
  BY DEF InFlight

LEMMA InFlightKept ==
  ASSUME work' = work
  PROVE  InFlight' = InFlight
  BY DEF InFlight

LEMMA TurnType ==
  ASSUME TypeOK
  PROVE  Turn \in DrainType
  BY DEF TypeOK, Turn, DrainType, InFlight

LEMMA InitType == Init => TypeOK
  BY DEF Init, TypeOK, InFlight, DrainType

LEMMA NextType == TypeOK /\ [Next]_vars => TypeOK'
<1> SUFFICES ASSUME TypeOK, [Next]_vars PROVE TypeOK'
  OBVIOUS
<1>0. work \in [Work -> States] /\ pending = InFlight /\ pending \in SUBSET Work
  BY DEF TypeOK, States, InFlight
<1>1. ASSUME NEW w \in Work, SchedulePersist(w) PROVE TypeOK'
  BY <1>0, <1>1, InFlightStarts DEF SchedulePersist, Track, TypeOK, States
<1>2. ASSUME NEW w \in Work, ScheduleSave(w) PROVE TypeOK'
  BY <1>0, <1>2, InFlightStarts DEF ScheduleSave, Track, TypeOK, States
<1>3. ASSUME NEW w \in Work, Collected(w) PROVE TypeOK'
  <2>1. w \in InFlight
    BY <1>3 DEF Collected, InFlight
  <2> QED
    BY <1>0, <1>3, <2>1, InFlightStays DEF Collected, TypeOK, States
<1>4. ASSUME NEW w \in Work, SaveSettles(w) PROVE TypeOK'
  <2>1. w \in InFlight
    BY <1>4 DEF SaveSettles, InFlight
  <2> QED
    BY <1>0, <1>4, <2>1, InFlightStays DEF SaveSettles, TypeOK, States
<1>5. ASSUME NEW w \in Work, Forget(w) PROVE TypeOK'
  BY <1>0, <1>5, InFlightEnds DEF Forget, TypeOK, States
<1>6. ASSUME NEW f \in Flushers, Flush(f) PROVE TypeOK'
  BY <1>0, <1>6, TurnType, InFlightKept DEF Flush, TypeOK, Drains
<1>7. ASSUME NEW f \in Drains, Resume(f) PROVE TypeOK'
  BY <1>0, <1>7, TurnType, InFlightKept DEF Resume, TypeOK
<1>8. CASE BeginShutdown
  BY <1>0, <1>8, TurnType, InFlightKept, ShutdownDrains DEF BeginShutdown, TypeOK
<1>9. CASE Timeout \/ CloseStorage \/ UNCHANGED vars
  BY <1>9, InFlightKept DEF Timeout, CloseStorage, vars, TypeOK
<1> QED
  BY <1>1, <1>2, <1>3, <1>4, <1>5, <1>6, <1>7, <1>8, <1>9 DEF Next

(* The set of pending promises is exactly the work in flight. *)
THEOREM PendingIsInFlight == Spec => []TypeOK
  BY InitType, NextType, PTL DEF Spec

-----------------------------------------------------------------------------
(* A drain ends only in a turn that finds the set empty. *)
LEMMA TurnEmpties ==
  ASSUME TypeOK, Turn.pc = "drained"
  PROVE  InFlight = {}
  BY DEF TypeOK, Turn

LEMMA DrainStep ==
  ASSUME TypeOK, [Next]_vars, NEW f \in Drains,
         flush'[f].pc = "drained", flush[f].pc # "drained"
  PROVE  InFlight' = {}
<1>1. flush' # flush
  OBVIOUS
<1>2. /\ \E g \in Drains : flush' = [flush EXCEPT ![g] = Turn]
      /\ work' = work
  BY <1>1, ShutdownDrains
     DEF Next, SchedulePersist, ScheduleSave, Collected, SaveSettles, Forget, Flush,
         Resume, BeginShutdown, Timeout, CloseStorage, vars, Drains
<1>3. Turn.pc = "drained"
  BY <1>2 DEF TypeOK
<1> QED
  BY <1>2, <1>3, TurnEmpties, InFlightKept

(* The moment a flush returns, nothing is in flight. *)
THEOREM FlushIsComplete == Spec => FlushLeavesNothing
<1>1. TypeOK /\ [Next]_vars =>
        [\A f \in Drains : flush'[f].pc = "drained" /\ flush[f].pc # "drained"
                              => InFlight' = {}]_vars
  BY DrainStep
<1> QED
  BY <1>1, PendingIsInFlight, PTL DEF Spec, FlushLeavesNothing

-----------------------------------------------------------------------------
(* The inductive invariant of the shutdown: what was pending when it began has *)
(* started, so it cannot come back once it is forgotten; a drained flush left  *)
(* none of it; only the end of the race closes the storage.                    *)
ShutdownInv ==
    /\ \A w \in tracked[Shutdown] : work[w] # "none"
    /\ flush[Shutdown].pc = "drained" => tracked[Shutdown] \cap InFlight = {}
    /\ storage = "closed" => flush[Shutdown].pc = "drained" \/ timer = "fired"
    /\ flush[Shutdown].pc = "none" => timer = "off"

LEMMA InitShutdown == Init => ShutdownInv
  BY ShutdownDrains DEF Init, ShutdownInv

LEMMA NextShutdown == TypeOK /\ TypeOK' /\ ShutdownInv /\ [Next]_vars => ShutdownInv'
<1> SUFFICES ASSUME TypeOK, TypeOK', ShutdownInv, [Next]_vars PROVE ShutdownInv'
  OBVIOUS
<1>0. work \in [Work -> States] /\ tracked[Shutdown] \subseteq Work
  BY ShutdownDrains DEF TypeOK, States
<1>1. ASSUME NEW w \in Work, NEW s \in States \ {"none"}, work' = [work EXCEPT ![w] = s],
             work[w] = "none" \/ w \in InFlight,
             UNCHANGED <<flush, timer, storage, tracked>>
      PROVE  ShutdownInv'
  <2>1. \A v \in tracked[Shutdown] : work'[v] # "none"
    BY <1>0, <1>1 DEF ShutdownInv
  <2>2. InFlight' \subseteq InFlight \cup {w}
    BY <1>0, <1>1 DEF InFlight
  <2>3. work[w] = "none" => w \notin tracked[Shutdown]
    BY DEF ShutdownInv
  <2>4. flush[Shutdown].pc = "drained" => tracked[Shutdown] \cap InFlight' = {}
    BY <1>1, <2>2, <2>3 DEF ShutdownInv
  <2> QED
    BY <1>1, <2>1, <2>4 DEF ShutdownInv
<1>2. ASSUME NEW w \in Work,
             SchedulePersist(w) \/ ScheduleSave(w) \/ Collected(w) \/ SaveSettles(w) \/ Forget(w)
      PROVE  ShutdownInv'
  <2>1. \E s \in States \ {"none"} : work' = [work EXCEPT ![w] = s]
    BY <1>2 DEF SchedulePersist, ScheduleSave, Collected, SaveSettles, Forget, States
  <2>2. work[w] = "none" \/ w \in InFlight
    BY <1>2 DEF SchedulePersist, ScheduleSave, Collected, SaveSettles, Forget, InFlight
  <2>3. UNCHANGED <<flush, timer, storage, tracked>>
    BY <1>2 DEF SchedulePersist, ScheduleSave, Collected, SaveSettles, Forget
  <2> QED
    BY <1>1, <2>1, <2>2, <2>3
<1>3. ASSUME NEW f \in Flushers, Flush(f) PROVE ShutdownInv'
  BY <1>3, WorkAssumption, ShutdownDrains, InFlightKept DEF Flush, ShutdownInv, TypeOK, Drains
<1>4. ASSUME NEW f \in Drains, Resume(f) PROVE ShutdownInv'
  <2>1. CASE f # Shutdown
    BY <1>4, <2>1, InFlightKept DEF Resume, ShutdownInv, TypeOK
  <2>2. CASE f = Shutdown
    <3>1. flush'[Shutdown] = Turn /\ flush[Shutdown].pc = "waiting"
      BY <1>4, <2>2, ShutdownDrains DEF Resume, TypeOK
    <3>2. flush'[Shutdown].pc = "drained" => InFlight' = {}
      BY <1>4, <3>1, TurnEmpties, InFlightKept DEF Resume
    <3>3. flush'[Shutdown].pc # "none"
      BY <3>1 DEF Turn
    <3> QED
      BY <1>4, <3>1, <3>2, <3>3 DEF Resume, ShutdownInv
  <2> QED
    BY <2>1, <2>2
<1>5. CASE BeginShutdown
  <2>1. flush'[Shutdown] = Turn /\ tracked'[Shutdown] = pending /\ flush[Shutdown].pc = "none"
    BY <1>5, ShutdownDrains DEF BeginShutdown, TypeOK
  <2>2. flush'[Shutdown].pc = "drained" => InFlight' = {}
    BY <1>5, <2>1, TurnEmpties, InFlightKept DEF BeginShutdown
  <2>3. \A w \in tracked'[Shutdown] : work'[w] # "none"
    BY <1>5, <2>1 DEF BeginShutdown, TypeOK, InFlight
  <2>4. storage' # "closed"
    BY <1>5, <2>1 DEF BeginShutdown, ShutdownInv
  <2>5. flush'[Shutdown].pc # "none"
    BY <2>1 DEF Turn
  <2> QED
    BY <1>5, <2>1, <2>2, <2>3, <2>4, <2>5 DEF BeginShutdown, ShutdownInv
<1>6. CASE Timeout \/ CloseStorage \/ UNCHANGED vars
  BY <1>6, InFlightKept DEF Timeout, CloseStorage, vars, ShutdownInv
<1> QED
  BY <1>2, <1>3, <1>4, <1>5, <1>6 DEF Next

(* Shutdown closes the storage upon none of the work it found, unless its timer *)
(* fired first.                                                                 *)
THEOREM ShutdownWaits == Spec => []ClosedAfterDrain
<1>1. ShutdownInv => ClosedAfterDrain
  BY DEF ShutdownInv, ClosedAfterDrain
<1> QED
  BY <1>1, PendingIsInFlight, InitShutdown, NextShutdown, PTL DEF Spec
=============================================================================
