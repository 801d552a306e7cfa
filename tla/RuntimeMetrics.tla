---------------------------- MODULE RuntimeMetrics ----------------------------
(***************************************************************************)
(* The process sampler (runtime/runtime-metrics.service.ts) and the usage  *)
(* each profile is charged with (utils/profile-metrics.util.ts): garbage   *)
(* collections reach an observer some time after they happened, are folded *)
(* into a running total and into the current window, a sample closes the   *)
(* window into a bounded history, and a profile is charged the difference  *)
(* of the total between its start and its end.                             *)
(*                                                                         *)
(* The V8 collector, the observer's delivery and the interval's tick are   *)
(* external.  A collection counts for itself: durations are left out.      *)
(***************************************************************************)
EXTENDS Naturals, Sequences, FiniteSets, SequencesExt

CONSTANTS
    RtProfiles,
    RtHistory,     \* historySize
    RtMaxPauses,   \* bound: collections the process makes
    RtMaxSamples,  \* bound: ticks of the interval
    RtNone

ASSUME RtAssumption ==
    RtHistory \in Nat \ {0} /\ {RtMaxPauses, RtMaxSamples} \subseteq Nat /\ RtNone \notin Nat

Kinds == {"minor", "major"}
Pauses == Kinds \cup {"weakcb"}  \* a weak-callback pass belongs to no bucket

NoPauses == [count |-> 0, byKind |-> [k \in Kinds |-> 0]]

VARIABLES
    rtOn,       \* off, on, shut down
    rtPending,  \* collections that happened, not delivered to the observer
    rtTotal,    \* gcTotal.count
    rtWindow,   \* gcWindow
    rtSamples,  \* the samples kept
    rtProfile,  \* profile -> its baseline and what it was charged with
    rtTicks, rtPauses, \* history: ticks so far, collections so far
    rtShifted,  \* history: collections in samples that left the history
    rtSeen      \* history: collections observed while the profile was open

rtVars == <<rtOn, rtPending, rtTotal, rtWindow, rtSamples, rtProfile, rtTicks, rtPauses,
            rtShifted, rtSeen>>

RtStart(on) ==
    /\ rtOn = on
    /\ rtPending = 0 /\ rtTotal = 0 /\ rtWindow = NoPauses /\ rtSamples = <<>>
    /\ rtProfile = [p \in RtProfiles |-> [stage |-> "new", gc |-> RtNone, charged |-> RtNone]]
    /\ rtTicks = 0 /\ rtPauses = 0 /\ rtShifted = 0
    /\ rtSeen = [p \in RtProfiles |-> 0]

RtInit == \E on \in {"off", "disabled"} : RtStart(on)

(* The counters profiles difference against: published while the sampler   *)
(* runs, absent before and after.                                          *)
GcCounter == IF rtOn = "on" THEN rtTotal ELSE RtNone

(* The history the samples go to, its first one giving way to the next.    *)
KeptSamples(samples) ==
    IF Len(samples) > RtHistory THEN Tail(samples) ELSE samples

CloseNothing ==
    LET samples == Append(rtSamples, rtWindow)
    IN  /\ rtSamples' = KeptSamples(samples)
        /\ rtWindow' = rtWindow
        /\ rtShifted' = rtShifted + (IF Len(samples) > RtHistory THEN Head(samples).count ELSE 0)

(* sample(): the window becomes a sample and a new one is opened.  A       *)
(* reading that throws leaves all of it for the next tick.                 *)
CloseWindow ==
    LET samples == Append(rtSamples, rtWindow)
    IN  /\ rtSamples' = KeptSamples(samples)
        /\ rtWindow' = NoPauses
        /\ rtShifted' = rtShifted + (IF Len(samples) > RtHistory THEN Head(samples).count ELSE 0)

(* onModuleInit: the observer, the counter, the timer and a first sample.  *)
StartSampling ==
    /\ rtOn = "off" /\ rtOn' = "on"
    /\ \/ CloseWindow
       \/ UNCHANGED <<rtSamples, rtWindow, rtShifted>>
    /\ UNCHANGED <<rtPending, rtTotal, rtProfile, rtTicks, rtPauses, rtSeen>>

Sample ==
    /\ rtOn = "on" /\ rtTicks < RtMaxSamples
    /\ rtTicks' = rtTicks + 1
    /\ \/ CloseWindow
       \/ UNCHANGED <<rtSamples, rtWindow, rtShifted>>
    /\ UNCHANGED <<rtOn, rtPending, rtTotal, rtProfile, rtPauses, rtSeen>>

(* The collector runs whether or not anyone observes it.                   *)
CollectGarbage ==
    /\ rtPauses < RtMaxPauses /\ rtPauses' = rtPauses + 1
    /\ rtPending' = rtPending + (IF rtOn = "on" THEN 1 ELSE 0)
    /\ UNCHANGED <<rtOn, rtTotal, rtWindow, rtSamples, rtProfile, rtTicks, rtShifted, rtSeen>>

(* The observer's callback gets everything that is pending.                *)
ObservePauses ==
    /\ rtOn = "on" /\ rtPending > 0
    /\ \E kinds \in [1 .. rtPending -> Pauses] :
         rtWindow' = [count |-> rtWindow.count + rtPending,
                      byKind |-> [k \in Kinds |->
                          rtWindow.byKind[k]
                            + Cardinality({i \in DOMAIN kinds : kinds[i] = k})]]
    /\ rtTotal' = rtTotal + rtPending
    /\ rtSeen' = [p \in RtProfiles |->
                    rtSeen[p] + (IF rtProfile[p].stage = "open" THEN rtPending ELSE 0)]
    /\ rtPending' = 0
    /\ UNCHANGED <<rtOn, rtSamples, rtProfile, rtTicks, rtPauses, rtShifted>>

(* onApplicationShutdown, with what the observer had not been given yet.   *)
StopSampling ==
    /\ rtOn = "on" /\ rtOn' = "stopped"
    /\ rtPending' = 0
    /\ UNCHANGED <<rtTotal, rtWindow, rtSamples, rtProfile, rtTicks, rtPauses, rtShifted, rtSeen>>

(* markProfileStart *)
MarkStart(p) ==
    /\ rtProfile[p].stage = "new"
    /\ rtProfile' = [rtProfile EXCEPT ![p] = [@ EXCEPT !.stage = "open", !.gc = GcCounter]]
    /\ UNCHANGED <<rtOn, rtPending, rtTotal, rtWindow, rtSamples, rtTicks, rtPauses, rtShifted,
                   rtSeen>>

(* completeProfilePerformance: no charge without a counter at both ends.   *)
CompletePerformance(p) ==
    /\ rtProfile[p].stage = "open"
    /\ rtProfile' = [rtProfile EXCEPT ![p] = [@ EXCEPT
          !.stage = "done",
          !.charged = IF GcCounter = RtNone \/ rtProfile[p].gc = RtNone THEN RtNone
                      ELSE GcCounter - rtProfile[p].gc]]
    /\ UNCHANGED <<rtOn, rtPending, rtTotal, rtWindow, rtSamples, rtTicks, rtPauses, rtShifted,
                   rtSeen>>

RtNext ==
    \/ StartSampling \/ Sample \/ CollectGarbage \/ ObservePauses \/ StopSampling
    \/ \E p \in RtProfiles : MarkStart(p) \/ CompletePerformance(p)

RtSpec == RtInit /\ [][RtNext]_rtVars

-----------------------------------------------------------------------------
(* Types: what the variables may hold.                                     *)
RtTypeOK ==
    /\ rtOn \in {"disabled", "off", "on", "stopped"}
    /\ rtPending \in Nat /\ rtTotal \in Nat /\ Len(rtSamples) <= RtHistory
    /\ \A p \in RtProfiles : rtProfile[p].stage \in {"new", "open", "done"}

(* The Runtime panel and the per-profile delta read two accounts of the    *)
(* same collections: what the samples, those that left the history and the *)
(* open window hold adds up to the running total, through failed readings  *)
(* and late deliveries; and a profile is charged what was observed while   *)
(* it was open, or nothing at all.                                         *)
PausesCountedOnce ==
    /\ rtTotal = rtShifted + rtWindow.count
                   + FoldSeq(LAMBDA s, sum : s.count + sum, 0, rtSamples)
    /\ \A s \in Range(rtSamples) \cup {rtWindow} :
         s.byKind["minor"] + s.byKind["major"] <= s.count
    /\ \A p \in RtProfiles : rtProfile[p].charged \in {RtNone, rtSeen[p]}
=============================================================================
