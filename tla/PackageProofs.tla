---------------------------- MODULE PackageProofs ----------------------------
(***************************************************************************)
(* Proofs about the instrumentation packages, one section per package.     *)
(***************************************************************************)
EXTENDS CommandRuns, EventProfiling, MongoCommands, TLAPS, FiniteSetTheorems,
        SequenceTheorems

-----------------------------------------------------------------------------
(* CommandRuns: every provider is wrapped once, so what a run leaves is    *)
(* known from where the run stands.                                        *)

CmNames == {"one", "two"}
CmOutcomes == {CmNone, "ok", "error", "rejected"}
CmStages == {"new", "parsed", "running", "persisting", "over", "unsaved"}
CmLast == Len(cmConfig.providers)

CmTyped ==
    /\ cmConfig \in CmScenarios /\ cmApp \in 1..(CmLast + 3)
    /\ cmSeen \subseteq CmNames
    /\ cmRun \in [CmRuns -> [stage : CmStages, outcome : CmOutcomes, told : CmOutcomes]]
    /\ cmProfiles \subseteq [run : CmRuns, layer : Nat, success : BOOLEAN]
    /\ cmDeferred \subseteq cmProfiles /\ cmStored \subseteq cmProfiles

(* The WeakSet lets no provider be wrapped twice.                          *)
WrappedOnce == cmWrapped = [c \in CmNames |-> IF c \in cmSeen THEN 1 ELSE 0]

(* No command runs before every provider was looked at.                    *)
BootsFirst == \A r \in CmRuns : cmRun[r].stage # "new" => cmApp > CmLast

Profiled(r) == cmConfig.core /\ cmConfig.command[r] \in cmSeen

(* A run that ended, and no other, has its profile.                        *)
Built(r) ==
    IF cmRun[r].stage \in {"persisting", "over", "unsaved"} /\ Profiled(r)
    THEN {[run |-> r, layer |-> 1, success |-> cmRun[r].outcome = "ok"]} ELSE {}
BuiltAsItEnds == \A r \in CmRuns : {p \in cmProfiles : p.run = r} = Built(r)

(* The caller is told the outcome when the run is over, and not before.    *)
ToldWhenOver ==
    \A r \in CmRuns :
        /\ cmRun[r].stage \in {"new", "parsed", "running"} => cmRun[r].outcome = CmNone
        /\ cmRun[r].stage = "persisting" => cmRun[r].outcome \in {"ok", "error"}
        /\ cmRun[r].told = IF cmRun[r].stage \in {"over", "unsaved"} THEN cmRun[r].outcome ELSE CmNone

(* Where the profile of a run that is over is.                             *)
OutcomeKept ==
    /\ \A r \in CmRuns : cmRun[r].stage = "over" =>
         \A p \in Built(r) : p \in IF cmRun[r].outcome = "rejected" THEN cmDeferred \cup cmStored
                                   ELSE cmStored
    /\ cmApp = CmLast + 3 => cmDeferred = {}

CmInv == CmTyped /\ WrappedOnce /\ BootsFirst /\ BuiltAsItEnds /\ ToldWhenOver /\ OutcomeKept

-----------------------------------------------------------------------------
(* The providers are numbered from one on.                                 *)
LEMMA CmCounted ==
    ASSUME cmConfig \in CmScenarios
    PROVE  /\ cmConfig.command \in [CmRuns -> CmNames]
           /\ cmConfig.core \in BOOLEAN
           /\ cmConfig.providers \in Seq(CmNames)
           /\ CmLast \in Nat /\ DOMAIN cmConfig.providers = 1..CmLast
           /\ Cardinality(DOMAIN cmConfig.providers) = CmLast
<1>1. /\ cmConfig.command \in [CmRuns -> CmNames] /\ cmConfig.core \in BOOLEAN
      /\ cmConfig.providers \in Seq(CmNames)
  BY CmAssumption DEF CmNames
<1>2. CmLast \in Nat /\ DOMAIN cmConfig.providers = 1..CmLast
  BY <1>1, LenProperties DEF CmLast
<1>3. Cardinality(1..CmLast) = CmLast
  BY <1>2, FS_Interval
<1> QED  BY <1>1, <1>2, <1>3

(* The invariant says more than the property.                              *)
LEMMA CmEnough == ASSUME CmInv PROVE CommandOutcomeKept
<1>1. SUFFICES ASSUME NEW r \in CmRuns, cmRun[r].told # CmNone
               PROVE  LET mine == {p \in cmProfiles : p.run = r}
                          profiled == cmConfig.core /\ cmWrapped[cmConfig.command[r]] > 0
                          storedByNow == /\ cmRun[r].stage # "unsaved"
                                         /\ cmRun[r].outcome # "rejected" \/ cmApp = CmClosed
                      IN  /\ cmRun[r].told = cmRun[r].outcome
                          /\ Cardinality(mine) = (IF profiled THEN 1 ELSE 0)
                          /\ \A p \in mine : p.success = (cmRun[r].outcome = "ok")
                          /\ storedByNow => mine \subseteq cmStored
  BY DEF CommandOutcomeKept
<1>2. cmRun[r].stage \in {"over", "unsaved"} /\ cmRun[r].told = cmRun[r].outcome
  BY <1>1 DEF CmInv, ToldWhenOver
<1>3. cmConfig.command[r] \in CmNames /\ Cardinality(DOMAIN cmConfig.providers) = CmLast
  BY CmCounted DEF CmInv, CmTyped
<1>4. (cmConfig.core /\ cmWrapped[cmConfig.command[r]] > 0) <=> Profiled(r)
  BY <1>3 DEF CmInv, WrappedOnce, Profiled
<1>5. {p \in cmProfiles : p.run = r} = Built(r)
  BY DEF CmInv, BuiltAsItEnds
<1>6. /\ Cardinality(Built(r)) = (IF Profiled(r) THEN 1 ELSE 0)
      /\ \A p \in Built(r) : p.success = (cmRun[r].outcome = "ok")
  <2>1. CASE Profiled(r)
    <3> DEFINE p == [run |-> r, layer |-> 1, success |-> cmRun[r].outcome = "ok"]
    <3>1. Built(r) = {p}
      BY <1>2, <2>1 DEF Built
    <3>2. p.success = (cmRun[r].outcome = "ok")
      OBVIOUS
    <3> HIDE DEF p
    <3>3. Cardinality({p}) = 1
      BY FS_Singleton
    <3> QED  BY <2>1, <3>1, <3>2, <3>3
  <2>2. CASE ~Profiled(r)
    BY <2>2, FS_EmptySet DEF Built
  <2> QED  BY <2>1, <2>2
<1>7. ASSUME cmRun[r].stage # "unsaved", cmRun[r].outcome # "rejected" \/ cmApp = CmClosed
      PROVE  Built(r) \subseteq cmStored
  BY <1>2, <1>3, <1>7 DEF CmInv, OutcomeKept, CmClosed
<1> QED  BY <1>2, <1>4, <1>5, <1>6, <1>7

LEMMA CmInitially == CmInit => CmInv
<1> SUFFICES ASSUME NEW s \in CmScenarios, CmStart(s) PROVE CmInv
  BY DEF CmInit
<1>1. cmConfig \in CmScenarios /\ CmLast \in Nat
  BY CmCounted DEF CmStart
<1>2. CmTyped /\ ToldWhenOver /\ BootsFirst
  BY <1>1 DEF CmStart, CmTyped, ToldWhenOver, BootsFirst, CmOutcomes, CmStages
<1>3. WrappedOnce
  BY DEF CmStart, WrappedOnce, CmNames
<1>4. BuiltAsItEnds /\ OutcomeKept
  BY <1>1 DEF CmStart, BuiltAsItEnds, OutcomeKept, Built
<1> QED  BY <1>2, <1>3, <1>4 DEF CmInv

(* Bootstrap: no command runs yet.                                        *)
LEMMA CmBoots == ASSUME CmInv, Bootstrap PROVE CmInv'
<1>1. CmLast \in Nat /\ CmLast' = CmLast /\ cmApp \in 1..CmLast
      /\ \A r \in CmRuns : cmRun[r].stage = "new"
  BY CmCounted DEF CmInv, CmTyped, Bootstrap, CmLast, BootsFirst
<1>2. cmConfig.providers[cmApp] \in CmNames
  BY <1>1, CmCounted, ElementOfSeq DEF CmInv, CmTyped
<1>3. CmTyped'
  BY <1>1, <1>2 DEF CmInv, CmTyped, Bootstrap
<1>4. WrappedOnce'
  <2>1. PICK command \in CmNames :
          /\ cmWrapped' = IF command \in cmSeen THEN cmWrapped
                           ELSE [cmWrapped EXCEPT ![command] = @ + 1]
          /\ cmSeen' = cmSeen \cup {command}
    BY <1>2 DEF Bootstrap
  <2>2. cmWrapped = [c \in CmNames |-> IF c \in cmSeen THEN 1 ELSE 0]
    BY DEF CmInv, WrappedOnce
  <2>3. CASE command \in cmSeen
    BY <2>1, <2>2, <2>3 DEF WrappedOnce
  <2>4. CASE command \notin cmSeen
    <3>1. cmWrapped' = [cmWrapped EXCEPT ![command] = 1]
      <4>1. cmWrapped[command] + 1 = 1
        BY <2>2, <2>4
      <4> QED  BY <2>1, <2>4, <4>1
    <3>2. \A c \in CmNames : c \in cmSeen' <=> c \in cmSeen \/ c = command
      BY <2>1
    <3>3. cmWrapped' = [c \in CmNames |-> IF c = command THEN 1 ELSE cmWrapped[c]]
      BY <2>2, <3>1
    <3>4. \A c \in CmNames : (IF c = command THEN 1 ELSE cmWrapped[c]) = IF c \in cmSeen' THEN 1 ELSE 0
      BY <2>2, <3>2
    <3> QED  BY <3>3, <3>4 DEF WrappedOnce
  <2> QED  BY <2>3, <2>4
<1>5. \A r \in CmRuns : Built(r) = {} /\ Built(r)' = {}
  BY <1>1 DEF Built, Bootstrap
<1>6. BootsFirst' /\ ToldWhenOver'
  BY <1>1 DEF CmInv, BootsFirst, ToldWhenOver, Bootstrap
<1>7. BuiltAsItEnds'
  BY <1>5 DEF CmInv, BuiltAsItEnds, Bootstrap
<1>8. OutcomeKept'
  <2>1. cmApp' = cmApp + 1 /\ cmRun' = cmRun
    BY DEF Bootstrap
  <2>2. cmApp' # CmLast' + 3
    BY <1>1, <2>1
  <2>3. \A r \in CmRuns : cmRun'[r].stage # "over"
    BY <1>1, <2>1
  <2> QED  BY <2>2, <2>3 DEF OutcomeKept
<1> QED  BY <1>3, <1>4, <1>6, <1>7, <1>8 DEF CmInv

(* A step of run r moves it from one known stage to another: what is left  *)
(* to show is what it says of r.                                           *)
LEMMA CmRunMoves ==
    ASSUME CmInv, NEW r \in CmRuns, NEW stage \in CmStages, NEW outcome \in CmOutcomes,
           NEW told \in CmOutcomes,
           CmUp \/ cmRun[r].stage # "new", stage # "new",
           cmRun' = [cmRun EXCEPT ![r] = [stage |-> stage, outcome |-> outcome, told |-> told]],
           UNCHANGED <<cmConfig, cmWrapped, cmSeen, cmApp>>
    PROVE  /\ CmLast \in Nat /\ CmLast' = CmLast
           /\ cmRun' \in [CmRuns -> [stage : CmStages, outcome : CmOutcomes, told : CmOutcomes]]
           /\ WrappedOnce' /\ BootsFirst'
           /\ cmRun'[r] = [stage |-> stage, outcome |-> outcome, told |-> told]
           /\ \A q \in CmRuns \ {r} : cmRun'[q] = cmRun[q] /\ Built(q)' = Built(q)
<1>1. CmLast \in Nat /\ CmLast' = CmLast /\ Cardinality(DOMAIN cmConfig.providers) = CmLast
  BY CmCounted DEF CmInv, CmTyped, CmLast
<1>2. cmRun' \in [CmRuns -> [stage : CmStages, outcome : CmOutcomes, told : CmOutcomes]]
  BY DEF CmInv, CmTyped
<1>3. /\ cmRun'[r] = [stage |-> stage, outcome |-> outcome, told |-> told]
      /\ \A q \in CmRuns \ {r} : cmRun'[q] = cmRun[q]
  BY DEF CmInv, CmTyped
<1>4. \A q \in CmRuns \ {r} : Built(q)' = Built(q)
  BY <1>3 DEF Built, Profiled
<1>5. WrappedOnce'
  BY DEF CmInv, WrappedOnce
<1>6. cmApp > CmLast
  BY <1>1 DEF CmInv, BootsFirst, CmUp
<1>7. BootsFirst'
  BY <1>1, <1>3, <1>6 DEF CmInv, BootsFirst
<1> QED  BY <1>1, <1>2, <1>3, <1>4, <1>5, <1>7

(* Parse and Run: nothing is built and nobody is told yet.                 *)
LEMMA CmStarts ==
    ASSUME CmInv, NEW r \in CmRuns, Parse(r) \/ Run(r)
    PROVE  CmInv'
<1>1. PICK stage \in {"parsed", "running"} :
         cmRun[r].stage \in {"new", "parsed"} /\ cmRun' = [cmRun EXCEPT ![r].stage = stage]
  BY DEF Parse, Run, CmMove
<1>2. cmRun' = [cmRun EXCEPT ![r] = [stage |-> stage, outcome |-> CmNone, told |-> CmNone]]
  <2>1. cmRun[r].outcome = CmNone /\ cmRun[r].told = CmNone
    BY <1>1 DEF CmInv, ToldWhenOver
  <2>2. cmRun[r] \in [stage : CmStages, outcome : CmOutcomes, told : CmOutcomes]
    BY DEF CmInv, CmTyped
  <2>3. [cmRun[r] EXCEPT !.stage = stage] = [stage |-> stage, outcome |-> CmNone, told |-> CmNone]
    BY <2>1, <2>2
  <2> QED  BY <1>1, <2>3
<1>3. CmUp /\ UNCHANGED <<cmConfig, cmWrapped, cmSeen, cmApp, cmProfiles, cmDeferred, cmStored>>
  BY DEF Parse, Run
<1>4. /\ CmLast \in Nat /\ CmLast' = CmLast
      /\ cmRun' \in [CmRuns -> [stage : CmStages, outcome : CmOutcomes, told : CmOutcomes]]
      /\ WrappedOnce' /\ BootsFirst'
      /\ cmRun'[r] = [stage |-> stage, outcome |-> CmNone, told |-> CmNone]
      /\ \A q \in CmRuns \ {r} : cmRun'[q] = cmRun[q] /\ Built(q)' = Built(q)
  BY <1>2, <1>3, CmRunMoves DEF CmStages, CmOutcomes
<1>5. Built(r) = {} /\ Built(r)' = {}
  BY <1>1, <1>4 DEF Built
<1>6. CmTyped'
  BY <1>3, <1>4 DEF CmInv, CmTyped
<1>7. ToldWhenOver'
  BY <1>4 DEF CmInv, ToldWhenOver
<1>8. BuiltAsItEnds'
  BY <1>3, <1>4, <1>5 DEF CmInv, BuiltAsItEnds
<1>9. OutcomeKept'
  BY <1>3, <1>4, <1>5 DEF CmInv, OutcomeKept
<1> QED  BY <1>4, <1>6, <1>7, <1>8, <1>9 DEF CmInv

(* What a run builds of itself, one profile per wrapper, is one profile.   *)
LEMMA CmOneLayer ==
    ASSUME CmInv, NEW r \in CmRuns, NEW success, cmConfig.core
    PROVE  {[run |-> r, layer |-> i, success |-> success] : i \in 1..cmWrapped[cmConfig.command[r]]}
             = IF Profiled(r) THEN {[run |-> r, layer |-> 1, success |-> success]} ELSE {}
<1>1. cmWrapped[cmConfig.command[r]] = IF Profiled(r) THEN 1 ELSE 0
  BY CmCounted DEF CmInv, CmTyped, WrappedOnce, Profiled
<1>2. 1..1 = {1} /\ 1..0 = {}
  OBVIOUS
<1> QED  BY <1>1, <1>2

LEMMA CmRejected == ASSUME CmInv, NEW r \in CmRuns, ParserRejects(r) PROVE CmInv'
<1> DEFINE built == IF Profiled(r) THEN {[run |-> r, layer |-> 1, success |-> FALSE]} ELSE {}
<1>1. cmRun' = [cmRun EXCEPT ![r] = [stage |-> "over", outcome |-> "rejected",
                                     told |-> "rejected"]]
      /\ CmUp /\ UNCHANGED <<cmConfig, cmWrapped, cmSeen, cmApp, cmStored>> /\ cmRun[r].stage = "new"
  BY DEF ParserRejects
<1>2. /\ CmLast \in Nat /\ CmLast' = CmLast
      /\ cmRun' \in [CmRuns -> [stage : CmStages, outcome : CmOutcomes, told : CmOutcomes]]
      /\ WrappedOnce' /\ BootsFirst'
      /\ cmRun'[r] = [stage |-> "over", outcome |-> "rejected", told |-> "rejected"]
      /\ \A q \in CmRuns \ {r} : cmRun'[q] = cmRun[q] /\ Built(q)' = Built(q)
  BY <1>1, CmRunMoves DEF CmStages, CmOutcomes
<1>3. cmProfiles' = cmProfiles \cup built /\ cmDeferred' = cmDeferred \cup built
  <2>1. CASE cmConfig.core
    BY <2>1, CmOneLayer DEF ParserRejects, ProfileParseFailure
  <2>2. CASE ~cmConfig.core
    BY <2>2 DEF ParserRejects, ProfileParseFailure, Profiled
  <2> QED  BY <2>1, <2>2
<1>4. Built(r) = {}
  BY <1>1 DEF Built
<1>5. Profiled(r)' = Profiled(r)
  BY <1>1 DEF Profiled
<1>6. Built(r)' = built
  <2>1. cmRun'[r] = [stage |-> "over", outcome |-> "rejected", told |-> "rejected"]
    BY <1>2
  <2>2. cmRun'[r].stage = "over" /\ (cmRun'[r].outcome = "ok") = FALSE
    BY <2>1
  <2> QED  BY <1>5, <2>2 DEF Built
<1>7. cmApp # CmLast + 3
  <2>1. cmApp = CmLast + 1
    BY <1>1, CmCounted DEF CmInv, CmTyped, CmUp
  <2>2. CmLast \in Nat
    BY <1>2
  <2> QED  BY <2>1, <2>2
<1>8. built \subseteq [run : CmRuns, layer : Nat, success : BOOLEAN] /\ \A p \in built : p.run = r
  <2>1. /\ [run |-> r, layer |-> 1, success |-> FALSE] \in [run : CmRuns, layer : Nat, success : BOOLEAN]
        /\ [run |-> r, layer |-> 1, success |-> FALSE].run = r
    OBVIOUS
  <2> QED  BY <2>1
<1> HIDE DEF built
<1>9. CmTyped'
  BY <1>1, <1>2, <1>3, <1>8 DEF CmInv, CmTyped
<1>10. ToldWhenOver'
  <2> SUFFICES ASSUME NEW q \in CmRuns
               PROVE  /\ cmRun'[q].stage \in {"new", "parsed", "running"} => cmRun'[q].outcome = CmNone
                      /\ cmRun'[q].stage = "persisting" => cmRun'[q].outcome \in {"ok", "error"}
                      /\ cmRun'[q].told = IF cmRun'[q].stage \in {"over", "unsaved"}
                                          THEN cmRun'[q].outcome ELSE CmNone
    BY DEF ToldWhenOver
  <2>1. CASE q = r
    <3>1. cmRun'[q] = [stage |-> "over", outcome |-> "rejected", told |-> "rejected"]
      BY <1>2, <2>1
    <3> QED  BY <3>1
  <2>2. CASE q # r
    BY <1>2, <2>2 DEF CmInv, ToldWhenOver
  <2> QED  BY <2>1, <2>2
<1>11. BuiltAsItEnds'
  <2> SUFFICES ASSUME NEW q \in CmRuns PROVE {p \in cmProfiles' : p.run = q} = Built(q)'
    BY DEF BuiltAsItEnds
  <2>1. {p \in cmProfiles : p.run = q} = Built(q)
    BY DEF CmInv, BuiltAsItEnds
  <2>2. CASE q = r
    BY <1>3, <1>4, <1>6, <1>8, <2>1, <2>2
  <2>3. CASE q # r
    BY <1>2, <1>3, <1>8, <2>1, <2>3
  <2> QED  BY <2>2, <2>3
<1>12. OutcomeKept'
  BY <1>1, <1>2, <1>3, <1>6, <1>7 DEF CmInv, OutcomeKept
<1> QED  BY <1>2, <1>9, <1>10, <1>11, <1>12 DEF CmInv

(* A run ends: profiled, its profile is built and it waits for the save;   *)
(* otherwise it is over.                                                   *)
LEMMA CmEnds ==
    ASSUME CmInv, NEW r \in CmRuns, NEW o \in {"ok", "error"}, CommandEnds(r, o)
    PROVE  CmInv'
<1> DEFINE stage == IF Profiled(r) THEN "persisting" ELSE "over"
           told == IF Profiled(r) THEN CmNone ELSE o
           built == IF Profiled(r) THEN {[run |-> r, layer |-> 1, success |-> o = "ok"]} ELSE {}
<1>1. cmRun[r].stage = "running"
      /\ UNCHANGED <<cmConfig, cmWrapped, cmSeen, cmDeferred, cmStored, cmApp>>
  BY DEF CommandEnds
<1>2. cmRun[r] = [stage |-> "running", outcome |-> CmNone, told |-> CmNone]
  <2>1. cmRun[r].outcome = CmNone /\ cmRun[r].told = CmNone
    BY <1>1 DEF CmInv, ToldWhenOver
  <2>2. cmRun[r] \in [stage : CmStages, outcome : CmOutcomes, told : CmOutcomes]
    BY DEF CmInv, CmTyped
  <2> QED  BY <1>1, <2>1, <2>2
<1>3. (cmConfig.core /\ cmWrapped[cmConfig.command[r]] > 0) <=> Profiled(r)
  BY CmCounted DEF CmInv, CmTyped, WrappedOnce, Profiled
<1>4. cmRun' = [cmRun EXCEPT ![r] = [stage |-> stage, outcome |-> o, told |-> told]]
      /\ cmProfiles' = cmProfiles \cup built
  <2>1. CASE Profiled(r)
    <3>1. /\ cmRun' = [cmRun EXCEPT ![r].stage = "persisting", ![r].outcome = o]
          /\ cmProfiles' = cmProfiles \cup
               {[run |-> r, layer |-> i, success |-> o = "ok"] : i \in 1..cmWrapped[cmConfig.command[r]]}
      BY <1>3, <2>1 DEF CommandEnds
    <3>2. [[cmRun[r] EXCEPT !.stage = "persisting"] EXCEPT !.outcome = o]
            = [stage |-> "persisting", outcome |-> o, told |-> CmNone]
      <4>1. [cmRun[r] EXCEPT !.stage = "persisting"]
              = [stage |-> "persisting", outcome |-> CmNone, told |-> CmNone]
        BY <1>2
      <4>2. [[stage |-> "persisting", outcome |-> CmNone, told |-> CmNone] EXCEPT !.outcome = o]
              = [stage |-> "persisting", outcome |-> o, told |-> CmNone]
        OBVIOUS
      <4> QED  BY <4>1, <4>2
    <3>3. cmRun' = [cmRun EXCEPT ![r] = [[cmRun[r] EXCEPT !.stage = "persisting"] EXCEPT !.outcome = o]]
      BY <3>1 DEF CmInv, CmTyped
    <3>4. cmConfig.core
      BY <2>1 DEF Profiled
    <3>5. cmProfiles' = cmProfiles \cup built
      BY <2>1, <3>1, <3>4, CmOneLayer
    <3> QED  BY <2>1, <3>2, <3>3, <3>5
  <2>2. CASE ~Profiled(r)
    BY <1>3, <2>2 DEF CommandEnds
  <2> QED  BY <2>1, <2>2
<1>5. /\ stage \in {"persisting", "over"} /\ told \in CmOutcomes
      /\ told = IF stage = "over" THEN o ELSE CmNone
      /\ stage = "over" => built = {}
  BY DEF CmOutcomes
<1>6. /\ built \subseteq [run : CmRuns, layer : Nat, success : BOOLEAN] /\ \A p \in built : p.run = r
  <2>1. /\ [run |-> r, layer |-> 1, success |-> o = "ok"] \in [run : CmRuns, layer : Nat, success : BOOLEAN]
        /\ [run |-> r, layer |-> 1, success |-> o = "ok"].run = r
    OBVIOUS
  <2> QED  BY <2>1
<1>7. /\ CmLast \in Nat /\ CmLast' = CmLast
      /\ cmRun' \in [CmRuns -> [stage : CmStages, outcome : CmOutcomes, told : CmOutcomes]]
      /\ WrappedOnce' /\ BootsFirst'
      /\ cmRun'[r] = [stage |-> stage, outcome |-> o, told |-> told]
      /\ \A q \in CmRuns \ {r} : cmRun'[q] = cmRun[q] /\ Built(q)' = Built(q)
  <2>1. /\ stage \in CmStages /\ o \in CmOutcomes /\ told \in CmOutcomes
        /\ stage # "new" /\ cmRun[r].stage # "new"
    BY <1>1, <1>5 DEF CmStages, CmOutcomes
  <2> HIDE DEF stage, told
  <2> QED  BY <1>1, <1>4, <2>1, CmRunMoves
<1>8. Built(r) = {}
  BY <1>1 DEF Built
<1>9. Built(r)' = built
  <2>1. cmRun'[r] = [stage |-> stage, outcome |-> o, told |-> told]
    BY <1>7
  <2>2. cmRun'[r].stage \in {"persisting", "over"} /\ cmRun'[r].outcome = o
    BY <1>5, <2>1
  <2>3. Profiled(r)' = Profiled(r)
    BY <1>1 DEF Profiled
  <2> QED  BY <2>2, <2>3 DEF Built
<1> HIDE DEF built, stage, told
<1>10. CmTyped'
  BY <1>1, <1>4, <1>6, <1>7 DEF CmInv, CmTyped
<1>11. ToldWhenOver'
  <2> SUFFICES ASSUME NEW q \in CmRuns
               PROVE  /\ cmRun'[q].stage \in {"new", "parsed", "running"} => cmRun'[q].outcome = CmNone
                      /\ cmRun'[q].stage = "persisting" => cmRun'[q].outcome \in {"ok", "error"}
                      /\ cmRun'[q].told = IF cmRun'[q].stage \in {"over", "unsaved"}
                                          THEN cmRun'[q].outcome ELSE CmNone
    BY DEF ToldWhenOver
  <2>1. CASE q = r
    <3>1. cmRun'[q] = [stage |-> stage, outcome |-> o, told |-> told]
      BY <1>7, <2>1
    <3> QED  BY <1>5, <3>1
  <2>2. CASE q # r
    BY <1>7, <2>2 DEF CmInv, ToldWhenOver
  <2> QED  BY <2>1, <2>2
<1>12. BuiltAsItEnds'
  <2> SUFFICES ASSUME NEW q \in CmRuns PROVE {p \in cmProfiles' : p.run = q} = Built(q)'
    BY DEF BuiltAsItEnds
  <2>1. {p \in cmProfiles : p.run = q} = Built(q)
    BY DEF CmInv, BuiltAsItEnds
  <2>2. CASE q = r
    BY <1>4, <1>6, <1>8, <1>9, <2>1, <2>2
  <2>3. CASE q # r
    BY <1>4, <1>6, <1>7, <2>1, <2>3
  <2> QED  BY <2>2, <2>3
<1>13. OutcomeKept'
  <2>1. cmRun'[r].stage = "over" => Built(r)' = {}
    <3>1. cmRun'[r].stage = stage
      BY <1>7
    <3> QED  BY <1>5, <1>9, <3>1
  <2>2. \A q \in CmRuns : cmRun'[q].stage = "over" =>
          \A p \in Built(q)' : p \in IF cmRun'[q].outcome = "rejected" THEN cmDeferred' \cup cmStored'
                                     ELSE cmStored'
    BY <1>1, <1>7, <2>1 DEF CmInv, OutcomeKept
  <2>3. cmApp' = CmLast' + 3 => cmDeferred' = {}
    BY <1>1, <1>7 DEF CmInv, OutcomeKept
  <2> QED  BY <2>2, <2>3 DEF OutcomeKept
<1> QED  BY <1>7, <1>10, <1>11, <1>12, <1>13 DEF CmInv

(* The save settles: the caller is told what the command did.              *)
LEMMA CmSettles ==
    ASSUME CmInv, NEW r \in CmRuns, NEW saved \in BOOLEAN, PersistSettles(r, saved)
    PROVE  CmInv'
<1>1. PICK o \in {"ok", "error"} : cmRun[r].outcome = o
  BY DEF CmInv, ToldWhenOver, PersistSettles
<1>2. PICK stage \in {"over", "unsaved"} : stage = IF saved THEN "over" ELSE "unsaved"
  OBVIOUS
<1>3. /\ cmRun[r].stage = "persisting"
      /\ cmStored' = IF saved THEN cmStored \cup {p \in cmProfiles : p.run = r} ELSE cmStored
      /\ UNCHANGED <<cmConfig, cmWrapped, cmSeen, cmProfiles, cmDeferred, cmApp>>
  BY DEF PersistSettles
<1>4. cmRun' = [cmRun EXCEPT ![r] = [stage |-> stage, outcome |-> o, told |-> o]]
  <2>1. cmRun' = [cmRun EXCEPT ![r].stage = stage, ![r].told = o]
    BY <1>1, <1>2 DEF PersistSettles, ToldTheCaller
  <2>2. cmRun[r] \in [stage : CmStages, outcome : CmOutcomes, told : CmOutcomes]
    BY DEF CmInv, CmTyped
  <2>3. [[cmRun[r] EXCEPT !.stage = stage] EXCEPT !.told = o] = [stage |-> stage, outcome |-> o, told |-> o]
    <3>1. PICK told \in CmOutcomes : cmRun[r] = [stage |-> "persisting", outcome |-> o, told |-> told]
      BY <1>1, <1>3, <2>2
    <3>2. [cmRun[r] EXCEPT !.stage = stage] = [stage |-> stage, outcome |-> o, told |-> told]
      BY <3>1
    <3>3. [[stage |-> stage, outcome |-> o, told |-> told] EXCEPT !.told = o]
            = [stage |-> stage, outcome |-> o, told |-> o]
      OBVIOUS
    <3> QED  BY <3>2, <3>3
  <2>4. cmRun' = [cmRun EXCEPT ![r] = [[cmRun[r] EXCEPT !.stage = stage] EXCEPT !.told = o]]
    BY <2>1 DEF CmInv, CmTyped
  <2> QED  BY <2>3, <2>4
<1>5. /\ CmLast \in Nat /\ CmLast' = CmLast
      /\ cmRun' \in [CmRuns -> [stage : CmStages, outcome : CmOutcomes, told : CmOutcomes]]
      /\ WrappedOnce' /\ BootsFirst'
      /\ cmRun'[r] = [stage |-> stage, outcome |-> o, told |-> o]
      /\ \A q \in CmRuns \ {r} : cmRun'[q] = cmRun[q] /\ Built(q)' = Built(q)
  BY <1>3, <1>4, CmRunMoves DEF CmStages, CmOutcomes
<1>6. cmRun'[r].stage = stage /\ cmRun'[r].outcome = o /\ cmRun'[r].told = o
  <2>1. cmRun'[r] = [stage |-> stage, outcome |-> o, told |-> o]
    BY <1>5
  <2> QED  BY <2>1
<1>7. Built(r)' = Built(r)
  <2>1. Profiled(r)' = Profiled(r)
    BY <1>3 DEF Profiled
  <2> QED  BY <1>1, <1>3, <1>6, <2>1 DEF Built
<1>8. CmTyped'
  BY <1>3, <1>5 DEF CmInv, CmTyped
<1>9. ToldWhenOver'
  BY <1>5, <1>6 DEF CmInv, ToldWhenOver
<1>10. BuiltAsItEnds'
  BY <1>3, <1>5, <1>7 DEF CmInv, BuiltAsItEnds
<1>11. OutcomeKept'
  <2>1. {p \in cmProfiles : p.run = r} = Built(r)
    BY DEF CmInv, BuiltAsItEnds
  <2>2. stage = "over" => \A p \in Built(r)' : p \in cmStored'
    BY <1>2, <1>3, <1>7, <2>1
  <2>3. ASSUME NEW q \in CmRuns, cmRun'[q].stage = "over", NEW p \in Built(q)'
        PROVE  p \in IF cmRun'[q].outcome = "rejected" THEN cmDeferred' \cup cmStored' ELSE cmStored'
    <3>1. CASE q = r
      BY <1>6, <2>2, <2>3, <3>1
    <3>2. CASE q # r
      BY <1>3, <1>5, <2>3, <3>2 DEF CmInv, OutcomeKept
    <3> QED  BY <3>1, <3>2
  <2>4. cmApp' = CmLast' + 3 => cmDeferred' = {}
    BY <1>3, <1>5 DEF CmInv, OutcomeKept
  <2> QED  BY <2>3, <2>4 DEF OutcomeKept
<1> QED  BY <1>5, <1>8, <1>9, <1>10, <1>11 DEF CmInv

(* The rest moves no run.                                                  *)
LEMMA CmCloses ==
    ASSUME CmInv, CloseApp \/ AppClosed \/ (\E p \in cmProfiles : DeferredPersists(p))
    PROVE  CmInv'
<1>1. /\ CmLast \in Nat /\ CmLast' = CmLast
      /\ UNCHANGED <<cmConfig, cmWrapped, cmSeen, cmRun, cmProfiles>>
      /\ Cardinality(DOMAIN cmConfig.providers) = CmLast
  BY CmCounted DEF CmInv, CmTyped, CmLast, CloseApp, AppClosed, DeferredPersists
<1>2. /\ \A r \in CmRuns : Built(r)' = Built(r)
      /\ WrappedOnce' /\ BuiltAsItEnds' /\ ToldWhenOver'
  BY <1>1 DEF Built, Profiled, CmInv, WrappedOnce, BuiltAsItEnds, ToldWhenOver
<1>3. CASE CloseApp
  <2>1. cmApp = CmLast + 1 /\ cmApp' = CmLast + 2 /\ UNCHANGED <<cmDeferred, cmStored>>
    BY <1>1, <1>3 DEF CloseApp, CmUp, CmClosing
  <2> QED  BY <1>1, <1>2, <2>1 DEF CmInv, CmTyped, BootsFirst, OutcomeKept
<1>4. CASE AppClosed
  <2>1. cmApp = CmLast + 2 /\ cmApp' = CmLast + 3 /\ UNCHANGED <<cmDeferred, cmStored>>
        /\ cmDeferred = {}
    BY <1>1, <1>4 DEF AppClosed, CmClosed, CmClosing
  <2> QED  BY <1>1, <1>2, <2>1 DEF CmInv, CmTyped, BootsFirst, OutcomeKept
<1>5. ASSUME NEW p \in cmProfiles, DeferredPersists(p) PROVE CmInv'
  <2>1. cmDeferred' = cmDeferred \ {p} /\ cmStored' = cmStored \cup {p} /\ cmApp' = cmApp
    BY <1>5 DEF DeferredPersists
  <2> QED  BY <1>1, <1>2, <2>1 DEF CmInv, CmTyped, BootsFirst, OutcomeKept
<1> QED  BY <1>3, <1>4, <1>5

LEMMA CmStutters == ASSUME CmInv, UNCHANGED cmVars PROVE CmInv'
<1>1. UNCHANGED <<cmConfig, cmWrapped, cmSeen, cmRun, cmProfiles, cmDeferred, cmStored, cmApp>>
  BY DEF cmVars
<1> QED  BY <1>1 DEF CmInv, CmTyped, WrappedOnce, BootsFirst, BuiltAsItEnds, ToldWhenOver, OutcomeKept,
                     Built, Profiled, CmLast

LEMMA CmStep == ASSUME CmInv, [CmNext]_cmVars PROVE CmInv'
<1>1. CASE UNCHANGED cmVars
  BY <1>1, CmStutters
<1>2. CASE Bootstrap
  BY <1>2, CmBoots
<1>3. CASE CloseApp \/ AppClosed \/ (\E p \in cmProfiles : DeferredPersists(p))
  BY <1>3, CmCloses
<1>4. ASSUME NEW r \in CmRuns, Parse(r) \/ Run(r) PROVE CmInv'
  BY <1>4, CmStarts
<1>5. ASSUME NEW r \in CmRuns, ParserRejects(r) PROVE CmInv'
  BY <1>5, CmRejected
<1>6. ASSUME NEW r \in CmRuns, NEW o \in {"ok", "error"}, CommandEnds(r, o) PROVE CmInv'
  BY <1>6, CmEnds
<1>7. ASSUME NEW r \in CmRuns, NEW s \in BOOLEAN, PersistSettles(r, s) PROVE CmInv'
  BY <1>7, CmSettles
<1> QED  BY <1>1, <1>2, <1>3, <1>4, <1>5, <1>6, <1>7 DEF CmNext

(* A command's caller is told the command's own outcome, over its single   *)
(* profile, stored by then unless its save failed; a rejected option's is  *)
(* stored by the time the application is closed.  For any number of        *)
(* invocations and of providers, listed in any order and any number of     *)
(* times.                                                                  *)
THEOREM CommandsTold == CmSpec => []CommandOutcomeKept
<1>1. CmInv /\ [CmNext]_cmVars => CmInv'
  BY CmStep
<1>2. CmInv => CommandOutcomeKept
  BY CmEnough
<1> QED  BY <1>1, <1>2, CmInitially, PTL DEF CmSpec

-----------------------------------------------------------------------------
(* Sequences of anything.                                                  *)
IsSeq(s) == \E S : s \in Seq(S)

LEMMA SeqFacts ==
    ASSUME NEW s, IsSeq(s)
    PROVE  Len(s) \in Nat /\ DOMAIN s = 1..Len(s) /\ (s = <<>> <=> Len(s) = 0)
BY LenProperties, EmptySeq DEF IsSeq

LEMMA AppendFacts ==
    ASSUME NEW s, IsSeq(s), NEW e
    PROVE  /\ IsSeq(Append(s, e)) /\ Len(Append(s, e)) = Len(s) + 1
           /\ \A i \in 1..Len(s) : Append(s, e)[i] = s[i]
           /\ Append(s, e)[Len(s) + 1] = e
<1>1. PICK S : s \in Seq(S)
  BY DEF IsSeq
<1>2. s \in Seq(S \cup {e})
  BY <1>1, SeqMonotonic
<1> QED  BY <1>2, AppendProperties DEF IsSeq

LEMMA PrefixFacts ==
    ASSUME NEW s, IsSeq(s), NEW k \in 0..Len(s)
    PROVE  /\ IsSeq(SubSeq(s, 1, k)) /\ Len(SubSeq(s, 1, k)) = k
           /\ \A i \in 1..k : SubSeq(s, 1, k)[i] = s[i]
<1>1. PICK S : s \in Seq(S)
  BY DEF IsSeq
<1>2. Len(s) \in Nat /\ \A i \in 1..k : s[i] \in S
  BY <1>1, SeqFacts, ElementOfSeq
<1>3. /\ SubSeq(s, 1, k) \in Seq(S) /\ Len(SubSeq(s, 1, k)) = IF 1 <= k THEN k - 1 + 1 ELSE 0
      /\ \A i \in 1..(k - 1 + 1) : SubSeq(s, 1, k)[i] = s[1 + i - 1]
  BY <1>2, SubSeqProperties
<1> QED  BY <1>2, <1>3 DEF IsSeq

LEMMA UpdateFacts ==
    ASSUME NEW s, IsSeq(s), NEW i \in DOMAIN s, NEW e, NEW t, t = [s EXCEPT ![i] = e]
    PROVE  IsSeq(t)
<1>1. PICK S : s \in Seq(S)
  BY DEF IsSeq
<1>2. s \in Seq(S \cup {e}) /\ i \in 1..Len(s) /\ DOMAIN s = 1..Len(s)
  BY <1>1, SeqMonotonic, SeqFacts
<1> QED  BY <1>2, ExceptSeq DEF IsSeq

-----------------------------------------------------------------------------
(* EventProfiling: what is on the stack is still dispatching, and an       *)
(* awaiting handler is waited for by the emission that called it.          *)

EvStages == {"running", "returned", "awaiting", "persisting", "settled", "unsaved"}
EvHandled == EvExecs \ {Request}
EvFrames == DOMAIN evStack
ExecFrame(x) == [kind |-> "exec", id |-> x]
EmissionFrame(m) == [kind |-> "emission", id |-> m]

ExecOK(r) ==
    /\ r.stage \in EvStages
    /\ r = [handler |-> r.handler, owner |-> r.owner, parent |-> r.parent, emitted |-> r.emitted,
            stage |-> r.stage, failed |-> r.failed]
EmissionOK(e) ==
    e = [by |-> e.by, event |-> e.event, async |-> e.async, profile |-> e.profile, todo |-> e.todo,
         waiting |-> e.waiting, state |-> e.state, failed |-> e.failed]

EvShaped ==
    /\ IsSeq(evStack) /\ IsSeq(evEmission)
    /\ Cardinality(EvExecs) \in Nat /\ EvExecs = 0..(Cardinality(EvExecs) - 1)
    /\ Request \in EvExecs /\ evExec[Request].stage = "running"
    /\ \A x \in EvExecs : ExecOK(evExec[x])
    /\ \A x \in EvHandled : evExec[x].parent \in DOMAIN evEmission
    /\ \A m \in DOMAIN evEmission : EmissionOK(evEmission[m])

(* Each frame is there once: an emission that is dispatching, or a handler *)
(* that is running, right above the emission that called it.               *)
FrameOK(i) ==
    \/ \E m \in DOMAIN evEmission : evStack[i] = EmissionFrame(m) /\ evEmission[m].state = "dispatching"
    \/ \E x \in EvHandled : /\ evStack[i] = ExecFrame(x) /\ evExec[x].stage = "running"
                            /\ i - 1 \in EvFrames /\ evStack[i - 1] = EmissionFrame(evExec[x].parent)
Stacked ==
    /\ \A i \in EvFrames : FrameOK(i)
    /\ \A i, j \in EvFrames : evStack[i] = evStack[j] => i = j
    /\ \A x \in EvHandled : evExec[x].stage = "running" => \E i \in EvFrames : evStack[i] = ExecFrame(x)

HandlerOf(x) == evHandlers[evExec[x].handler]
AwaitingOf(x) ==
    /\ evExec[x].stage \in {"awaiting", "persisting"} => x \in evEmission[evExec[x].parent].waiting
    /\ HandlerOf(x).awaits => evExec[x].stage # "returned"
    /\ HandlerOf(x).awaits /\ WrappedHandler(evExec[x].handler) /\ evExec[x].stage = "settled"
       => x \in evStored
Awaiting == \A x \in EvHandled : AwaitingOf(x)

Fulfilled(e) == e.async /\ e.state = "done" /\ ~e.failed => e.waiting = {}
FulfilledAfterAll == \A m \in DOMAIN evEmission : Fulfilled(evEmission[m])

EvInv == EvShaped /\ Stacked /\ Awaiting /\ FulfilledAfterAll

LEMMA FramesDiffer ==
    \A x, y : /\ ExecFrame(x) = ExecFrame(y) => x = y
              /\ EmissionFrame(x) = EmissionFrame(y) => x = y
              /\ ExecFrame(x) # EmissionFrame(y)
BY DEF ExecFrame, EmissionFrame

LEMMA EvEnough == ASSUME EvInv PROVE AwaitedHandlersStored
<1> SUFFICES ASSUME NEW m \in DOMAIN evEmission, evEmission[m].async, evEmission[m].state = "done",
                    ~evEmission[m].failed, NEW x \in EvHandled, evExec[x].parent = m,
                    HandlerOf(x).awaits, WrappedHandler(evExec[x].handler),
                    evExec[x].stage # "unsaved"
             PROVE  x \in evStored
  BY DEF AwaitedHandlersStored, EvHandled, HandlerOf
<1>1. evExec[x].stage \in EvStages
  BY DEF EvInv, EvShaped, EvHandled, ExecOK
<1>2. evEmission[m].waiting = {}
  BY DEF EvInv, FulfilledAfterAll, Fulfilled
<1>3. evExec[x].stage \notin {"awaiting", "persisting", "returned"}
  BY <1>2 DEF EvInv, Awaiting, AwaitingOf
<1>4. evExec[x].stage # "running"
  <2> SUFFICES ASSUME evExec[x].stage = "running" PROVE FALSE
    OBVIOUS
  <2>1. PICK i \in EvFrames : evStack[i] = ExecFrame(x)
    BY DEF EvInv, Stacked
  <2>2. FrameOK(i)
    BY DEF EvInv, Stacked
  <2>3. i - 1 \in EvFrames /\ evStack[i - 1] = EmissionFrame(m)
    BY <2>1, <2>2, FramesDiffer DEF FrameOK
  <2>4. FrameOK(i - 1)
    BY <2>3 DEF EvInv, Stacked
  <2> QED  BY <2>3, <2>4, FramesDiffer DEF FrameOK
<1>5. evExec[x].stage = "settled"
  BY <1>1, <1>3, <1>4 DEF EvStages
<1> QED  BY <1>5 DEF EvInv, Awaiting, AwaitingOf

LEMMA EvInitially == EvInit => EvInv
<1> SUFFICES ASSUME NEW s \in EvScenarios, EvStart(s) PROVE EvInv
  BY DEF EvInit
<1>1. /\ evExec = [x \in {0} |-> [handler |-> 0, owner |-> 0, parent |-> 0, emitted |-> 0,
                                  stage |-> "running", failed |-> FALSE]]
      /\ evStack = <<>> /\ evEmission = <<>>
  BY DEF EvStart, Request
<1>2. EvExecs = {0} /\ Cardinality(EvExecs) = 1 /\ EvHandled = {}
  <2>1. Cardinality({0}) = 1
    BY FS_Singleton
  <2> QED  BY <1>1, <2>1 DEF EvExecs, EvHandled, Request
<1>3. IsSeq(<<>>) /\ DOMAIN <<>> = {}
  <2>1. <<>> \in Seq({})
    BY EmptySeq
  <2>2. IsSeq(<<>>)
    BY <2>1 DEF IsSeq
  <2> QED  BY <2>2, SeqFacts
<1>4. EvShaped
  BY <1>1, <1>2, <1>3 DEF EvShaped, EvStages, Request, ExecOK
<1>5. Stacked /\ Awaiting /\ FulfilledAfterAll
  BY <1>1, <1>2, <1>3 DEF Stacked, Awaiting, FulfilledAfterAll, EvFrames
<1> QED  BY <1>4, <1>5 DEF EvInv

-----------------------------------------------------------------------------
(* What a step does to one execution, and to one emission.                 *)
ExecAt(s, r, stage) ==
    /\ ExecOK(s) /\ s.stage = stage
    /\ s.handler = r.handler /\ s.parent = r.parent /\ s.owner = r.owner

ExecRec(h, o, p, e, t, f) ==
    [handler |-> h, owner |-> o, parent |-> p, emitted |-> e, stage |-> t, failed |-> f]

LEMMA ExecRecs ==
    ASSUME NEW r, ExecOK(r)
    PROVE  \E h, o, p, e, t, f : r = ExecRec(h, o, p, e, t, f)
BY DEF ExecOK, ExecRec

LEMMA ExecRecOK ==
    ASSUME NEW h, NEW o, NEW p, NEW e, NEW t \in EvStages, NEW f
    PROVE  LET s == ExecRec(h, o, p, e, t, f)
           IN  ExecOK(s) /\ s.stage = t /\ s.handler = h /\ s.parent = p /\ s.owner = o
BY DEF ExecOK, ExecRec

LEMMA ExecStage ==
    ASSUME NEW r, ExecOK(r), NEW stage \in EvStages, NEW s,
           s = [r EXCEPT !.stage = stage]
    PROVE  ExecAt(s, r, stage)
<1>1. PICK h, o, p, e, t, f : r = ExecRec(h, o, p, e, t, f)
  BY ExecRecs
<1>2. r.handler = h /\ r.parent = p /\ r.owner = o
  BY <1>1 DEF ExecRec
<1>3. [r EXCEPT !.stage = stage] = ExecRec(h, o, p, e, stage, f)
  BY <1>1 DEF ExecRec
<1>4. s = ExecRec(h, o, p, e, stage, f)
  BY <1>3
<1> QED  BY <1>2, <1>4, ExecRecOK DEF ExecAt

LEMMA ExecEnds ==
    ASSUME NEW r, ExecOK(r), NEW stage \in EvStages, NEW failed, NEW s,
           s = [r EXCEPT !.stage = stage, !.failed = failed]
    PROVE  ExecAt(s, r, stage)
<1>1. PICK h, o, p, e, t, f : r = ExecRec(h, o, p, e, t, f)
  BY ExecRecs
<1>2. r.handler = h /\ r.parent = p /\ r.owner = o
  BY <1>1 DEF ExecRec
<1>3. [r EXCEPT !.stage = stage] = ExecRec(h, o, p, e, stage, f)
  BY <1>1 DEF ExecRec
<1>4. [ExecRec(h, o, p, e, stage, f) EXCEPT !.failed = failed] = ExecRec(h, o, p, e, stage, failed)
  BY DEF ExecRec
<1>5. [r EXCEPT !.stage = stage, !.failed = failed] = ExecRec(h, o, p, e, stage, failed)
  BY <1>3, <1>4
<1>6. s = ExecRec(h, o, p, e, stage, failed)
  BY <1>5
<1> QED  BY <1>2, <1>6, ExecRecOK DEF ExecAt

LEMMA ExecEmits ==
    ASSUME NEW r, ExecOK(r), NEW emitted, NEW s,
           s = [r EXCEPT !.emitted = emitted]
    PROVE  ExecAt(s, r, r.stage)
<1>1. PICK h, o, p, e, t, f : r = ExecRec(h, o, p, e, t, f)
  BY ExecRecs
<1>2. r.handler = h /\ r.parent = p /\ r.owner = o /\ r.stage = t /\ t \in EvStages
  BY <1>1 DEF ExecRec, ExecOK
<1>3. [r EXCEPT !.emitted = emitted] = ExecRec(h, o, p, emitted, t, f)
  BY <1>1 DEF ExecRec
<1>4. s = ExecRec(h, o, p, emitted, t, f)
  BY <1>3
<1> QED  BY <1>2, <1>4, ExecRecOK DEF ExecAt

EmissionAt(d, e, waiting, state, failed) ==
    /\ EmissionOK(d) /\ d.async = e.async /\ d.by = e.by /\ d.profile = e.profile
    /\ d.waiting = waiting /\ d.state = state /\ d.failed = failed

EmissionRec(b, v, a, p, t, w, s, f) ==
    [by |-> b, event |-> v, async |-> a, profile |-> p, todo |-> t, waiting |-> w, state |-> s,
     failed |-> f]

LEMMA EmissionRecs ==
    ASSUME NEW e, EmissionOK(e)
    PROVE  \E b, v, a, p, t, w, s, f : /\ e = EmissionRec(b, v, a, p, t, w, s, f)
                                      /\ e.async = a /\ e.waiting = w /\ e.state = s /\ e.failed = f /\ e.by = b /\ e.profile = p
BY DEF EmissionOK, EmissionRec

LEMMA EmissionRecOK ==
    ASSUME NEW b, NEW v, NEW a, NEW p, NEW t, NEW w, NEW s, NEW f
    PROVE  LET d == EmissionRec(b, v, a, p, t, w, s, f)
           IN  /\ EmissionOK(d) /\ d.async = a /\ d.waiting = w /\ d.state = s /\ d.failed = f
               /\ d.by = b /\ d.profile = p
BY DEF EmissionOK, EmissionRec

LEMMA EmissionCalls ==
    ASSUME NEW e, EmissionOK(e), NEW todo, NEW d,
           d = [e EXCEPT !.todo = todo]
    PROVE  EmissionAt(d, e, e.waiting, e.state, e.failed)
<1>1. PICK b, v, a, p, t, w, s, f : /\ e = EmissionRec(b, v, a, p, t, w, s, f)
                                    /\ e.async = a /\ e.waiting = w /\ e.state = s /\ e.failed = f /\ e.by = b /\ e.profile = p
  BY EmissionRecs
<1>2. [e EXCEPT !.todo = todo]
        = EmissionRec(b, v, a, p, todo, w, s, f)
  BY <1>1 DEF EmissionRec
<1>3. d = EmissionRec(b, v, a, p, todo, w, s, f)
  BY <1>2
<1> QED  BY <1>1, <1>3, EmissionRecOK DEF EmissionAt

LEMMA EmissionState ==
    ASSUME NEW e, EmissionOK(e), NEW state, NEW d,
           d = [e EXCEPT !.state = state]
    PROVE  EmissionAt(d, e, e.waiting, state, e.failed)
<1>1. PICK b, v, a, p, t, w, s, f : /\ e = EmissionRec(b, v, a, p, t, w, s, f)
                                    /\ e.async = a /\ e.waiting = w /\ e.state = s /\ e.failed = f /\ e.by = b /\ e.profile = p
  BY EmissionRecs
<1>2. [e EXCEPT !.state = state]
        = EmissionRec(b, v, a, p, t, w, state, f)
  BY <1>1 DEF EmissionRec
<1>3. d = EmissionRec(b, v, a, p, t, w, state, f)
  BY <1>2
<1> QED  BY <1>1, <1>3, EmissionRecOK DEF EmissionAt

LEMMA EmissionWaits ==
    ASSUME NEW e, EmissionOK(e), NEW waiting, NEW d,
           d = [e EXCEPT !.waiting = waiting]
    PROVE  EmissionAt(d, e, waiting, e.state, e.failed)
<1>1. PICK b, v, a, p, t, w, s, f : /\ e = EmissionRec(b, v, a, p, t, w, s, f)
                                    /\ e.async = a /\ e.waiting = w /\ e.state = s /\ e.failed = f /\ e.by = b /\ e.profile = p
  BY EmissionRecs
<1>2. [e EXCEPT !.waiting = waiting]
        = EmissionRec(b, v, a, p, t, waiting, s, f)
  BY <1>1 DEF EmissionRec
<1>3. d = EmissionRec(b, v, a, p, t, waiting, s, f)
  BY <1>2
<1> QED  BY <1>1, <1>3, EmissionRecOK DEF EmissionAt

LEMMA EmissionEnds ==
    ASSUME NEW e, EmissionOK(e), NEW state, NEW failed, NEW d,
           d = [e EXCEPT !.state = state, !.failed = failed]
    PROVE  EmissionAt(d, e, e.waiting, state, failed)
<1>1. PICK b, v, a, p, t, w, s, f : /\ e = EmissionRec(b, v, a, p, t, w, s, f)
                                    /\ e.async = a /\ e.waiting = w /\ e.state = s /\ e.failed = f /\ e.by = b /\ e.profile = p
  BY EmissionRecs
<1>2. [e EXCEPT !.state = state]
        = EmissionRec(b, v, a, p, t, w, state, f)
  BY <1>1 DEF EmissionRec
<1>3. [EmissionRec(b, v, a, p, t, w, state, f) EXCEPT !.failed = failed]
        = EmissionRec(b, v, a, p, t, w, state, failed)
  BY DEF EmissionRec
<1>4. [e EXCEPT !.state = state, !.failed = failed] = EmissionRec(b, v, a, p, t, w, state, failed)
  BY <1>2, <1>3
<1>5. d = EmissionRec(b, v, a, p, t, w, state, failed)
  BY <1>4
<1> QED  BY <1>1, <1>5, EmissionRecOK DEF EmissionAt

LEMMA EmissionSettles ==
    ASSUME NEW e, EmissionOK(e), NEW waiting, NEW state, NEW failed, NEW d,
           d = [e EXCEPT !.waiting = waiting, !.state = state, !.failed = failed]
    PROVE  EmissionAt(d, e, waiting, state, failed)
<1>1. PICK b, v, a, p, t, w, s, f : /\ e = EmissionRec(b, v, a, p, t, w, s, f)
                                    /\ e.async = a /\ e.waiting = w /\ e.state = s /\ e.failed = f /\ e.by = b /\ e.profile = p
  BY EmissionRecs
<1>2. [e EXCEPT !.waiting = waiting]
        = EmissionRec(b, v, a, p, t, waiting, s, f)
  BY <1>1 DEF EmissionRec
<1>3. [EmissionRec(b, v, a, p, t, waiting, s, f) EXCEPT !.state = state]
        = EmissionRec(b, v, a, p, t, waiting, state, f)
  BY DEF EmissionRec
<1>4. [EmissionRec(b, v, a, p, t, waiting, state, f) EXCEPT !.failed = failed]
        = EmissionRec(b, v, a, p, t, waiting, state, failed)
  BY DEF EmissionRec
<1>5. [e EXCEPT !.waiting = waiting, !.state = state, !.failed = failed]
        = EmissionRec(b, v, a, p, t, waiting, state, failed)
  BY <1>2, <1>3, <1>4
<1>6. d = EmissionRec(b, v, a, p, t, waiting, state, failed)
  BY <1>5
<1> QED  BY <1>1, <1>6, EmissionRecOK DEF EmissionAt

(* The stack is unwound to k frames: those that stay are as they were.     *)
LEMMA EvPops ==
    ASSUME EvInv, NEW k \in 0..Len(evStack), evStack' = SubSeq(evStack, 1, k),
           EvHandled' = EvHandled, DOMAIN evEmission \subseteq DOMAIN evEmission',
           \A y \in EvHandled :
              /\ evExec'[y].parent = evExec[y].parent
              /\ evExec'[y].stage = "running" <=> \E i \in 1..k : evStack[i] = ExecFrame(y),
           \A m \in DOMAIN evEmission :
              (\E i \in 1..k : evStack[i] = EmissionFrame(m)) => evEmission'[m].state = "dispatching"
    PROVE  IsSeq(evStack') /\ Stacked'
<1>1. /\ IsSeq(evStack) /\ Len(evStack) \in Nat /\ EvFrames = 1..Len(evStack)
  BY SeqFacts DEF EvInv, EvShaped, EvFrames
<1>2. IsSeq(evStack') /\ Len(evStack') = k /\ \A i \in 1..k : evStack'[i] = evStack[i]
  BY <1>1, PrefixFacts
<1>3. EvFrames' = 1..k /\ 1..k \subseteq EvFrames
  BY <1>1, <1>2, SeqFacts DEF EvFrames
<1>4. ASSUME NEW i \in 1..k PROVE FrameOK(i)'
  <2>1. FrameOK(i)
    BY <1>3 DEF EvInv, Stacked
  <2>2. CASE \E m \in DOMAIN evEmission : evStack[i] = EmissionFrame(m)
    <3>1. PICK m \in DOMAIN evEmission : evStack[i] = EmissionFrame(m)
      BY <2>2
    <3>2. m \in DOMAIN evEmission' /\ evEmission'[m].state = "dispatching" /\ evStack'[i] = EmissionFrame(m)
      BY <1>2, <3>1
    <3> QED  BY <3>2 DEF FrameOK, EmissionFrame
  <2>3. CASE ~ \E m \in DOMAIN evEmission : evStack[i] = EmissionFrame(m)
    <3>1. PICK x \in EvHandled : /\ evStack[i] = ExecFrame(x) /\ i - 1 \in EvFrames
                                 /\ evStack[i - 1] = EmissionFrame(evExec[x].parent)
      BY <2>1, <2>3 DEF FrameOK
    <3>2. i - 1 \in 1..k
      BY <1>1, <3>1
    <3>3. evExec'[x].stage = "running" /\ evExec'[x].parent = evExec[x].parent /\ x \in EvHandled'
      BY <3>1
    <3>4. evStack'[i] = ExecFrame(x) /\ evStack'[i - 1] = EmissionFrame(evExec[x].parent)
      BY <1>2, <3>1, <3>2
    <3> QED  BY <1>3, <3>2, <3>3, <3>4 DEF FrameOK, ExecFrame, EmissionFrame
  <2> QED  BY <2>2, <2>3
<1>5. \A i, j \in EvFrames' : evStack'[i] = evStack'[j] => i = j
  BY <1>2, <1>3 DEF EvInv, Stacked
<1>6. \A x \in EvHandled' : evExec'[x].stage = "running" => \E i \in EvFrames' : evStack'[i] = ExecFrame(x)
  BY <1>2, <1>3
<1> QED  BY <1>2, <1>3, <1>4, <1>5, <1>6 DEF Stacked, ExecFrame

(* Something new is put on the stack.                                      *)
LEMMA EvPushes ==
    ASSUME EvInv, NEW f, evStack' = Append(evStack, f),
           EvHandled \subseteq EvHandled', DOMAIN evEmission \subseteq DOMAIN evEmission',
           \A y \in EvHandled : /\ evExec'[y].parent = evExec[y].parent
                                /\ evExec'[y].stage = evExec[y].stage,
           \A y \in EvHandled' \ EvHandled : f = ExecFrame(y),
           \A m \in DOMAIN evEmission : evEmission'[m].state = evEmission[m].state,
           \A i \in EvFrames : evStack[i] # f,
           \/ \E m \in DOMAIN evEmission' : f = EmissionFrame(m) /\ evEmission'[m].state = "dispatching"
           \/ \E x \in EvHandled' : /\ f = ExecFrame(x) /\ evExec'[x].stage = "running"
                                    /\ evStack # <<>>
                                    /\ evStack[Len(evStack)] = EmissionFrame(evExec'[x].parent)
    PROVE  IsSeq(evStack') /\ Stacked'
<1>1. /\ IsSeq(evStack) /\ Len(evStack) \in Nat /\ EvFrames = 1..Len(evStack)
  BY SeqFacts DEF EvInv, EvShaped, EvFrames
<1>0. PICK top \in Nat : top = Len(evStack) + 1
  BY <1>1
<1>2. /\ IsSeq(evStack') /\ Len(evStack') = top
      /\ \A i \in EvFrames : evStack'[i] = evStack[i]
      /\ evStack'[top] = f
  BY <1>0, <1>1, AppendFacts
<1>3. EvFrames' = 1..top /\ EvFrames' = EvFrames \cup {top}
  <2>1. EvFrames' = 1..top
    BY <1>2, SeqFacts DEF EvFrames
  <2> QED  BY <1>0, <1>1, <2>1
<1>4. ASSUME NEW i \in EvFrames PROVE FrameOK(i)'
  <2>1. FrameOK(i)
    BY DEF EvInv, Stacked
  <2>2. CASE \E m \in DOMAIN evEmission : evStack[i] = EmissionFrame(m) /\ evEmission[m].state = "dispatching"
    <3>1. PICK m \in DOMAIN evEmission : evStack[i] = EmissionFrame(m) /\ evEmission[m].state = "dispatching"
      BY <2>2
    <3>2. m \in DOMAIN evEmission' /\ evEmission'[m].state = "dispatching" /\ evStack'[i] = EmissionFrame(m)
      BY <1>2, <3>1
    <3> QED  BY <3>2 DEF FrameOK, EmissionFrame
  <2>3. CASE ~ \E m \in DOMAIN evEmission : evStack[i] = EmissionFrame(m) /\ evEmission[m].state = "dispatching"
    <3>1. PICK x \in EvHandled : /\ evStack[i] = ExecFrame(x) /\ i - 1 \in EvFrames
                                 /\ evExec[x].stage = "running"
                                 /\ evStack[i - 1] = EmissionFrame(evExec[x].parent)
      BY <2>1, <2>3 DEF FrameOK
    <3>2. i - 1 \in EvFrames'
      BY <1>1, <1>3, <3>1
    <3>3. evExec'[x].stage = "running" /\ evExec'[x].parent = evExec[x].parent /\ x \in EvHandled'
      BY <3>1
    <3>4. evStack'[i] = ExecFrame(x) /\ evStack'[i - 1] = EmissionFrame(evExec[x].parent)
      BY <1>2, <3>1
    <3> QED  BY <3>2, <3>3, <3>4 DEF FrameOK, ExecFrame, EmissionFrame
  <2> QED  BY <2>2, <2>3
<1>5. FrameOK(top)'
  <2>1. CASE \E m \in DOMAIN evEmission' : f = EmissionFrame(m) /\ evEmission'[m].state = "dispatching"
    <3>1. PICK m \in DOMAIN evEmission' : f = EmissionFrame(m) /\ evEmission'[m].state = "dispatching"
      BY <2>1
    <3>2. evStack'[top] = EmissionFrame(m)
      BY <1>2, <3>1
    <3> QED  BY <3>1, <3>2 DEF FrameOK, EmissionFrame
  <2>2. CASE ~ \E m \in DOMAIN evEmission' : f = EmissionFrame(m) /\ evEmission'[m].state = "dispatching"
    <3>1. PICK x \in EvHandled' : /\ f = ExecFrame(x) /\ evExec'[x].stage = "running"
                                  /\ evStack # <<>>
                                  /\ evStack[Len(evStack)] = EmissionFrame(evExec'[x].parent)
      BY <2>2
    <3>2. Len(evStack) \in EvFrames /\ top - 1 = Len(evStack)
      BY <1>1, <1>0, <3>1, SeqFacts
    <3>3. evStack'[top - 1] = EmissionFrame(evExec'[x].parent) /\ top - 1 \in EvFrames'
      BY <1>0, <1>1, <1>2, <1>3, <3>1, <3>2
    <3>4. evStack'[top] = ExecFrame(x)
      BY <1>2, <3>1
    <3> QED  BY <3>1, <3>3, <3>4 DEF FrameOK, ExecFrame, EmissionFrame
  <2> QED  BY <2>1, <2>2
<1>6. \A i, j \in EvFrames' : evStack'[i] = evStack'[j] => i = j
  BY <1>1, <1>2, <1>3 DEF EvInv, Stacked
<1>7. \A x \in EvHandled' : evExec'[x].stage = "running" => \E i \in EvFrames' : evStack'[i] = ExecFrame(x)
  <2> SUFFICES ASSUME NEW x \in EvHandled', evExec'[x].stage = "running"
               PROVE  \E i \in EvFrames' : evStack'[i] = ExecFrame(x)
    OBVIOUS
  <2>1. CASE x \in EvHandled
    BY <1>1, <1>2, <1>3, <2>1 DEF EvInv, Stacked
  <2>2. CASE x \notin EvHandled
    BY <1>1, <1>2, <1>3, <2>2
  <2> QED  BY <2>1, <2>2
<1>8. \A i \in EvFrames' : FrameOK(i)'
  BY <1>3, <1>4, <1>5
<1> QED  BY <1>2, <1>6, <1>7, <1>8 DEF Stacked, ExecFrame

-----------------------------------------------------------------------------
(* What a step changes: one execution, which keeps its handler and the     *)
(* emission it is of; one emission.                                        *)
OnlyExec(x) ==
    /\ EvExecs' = EvExecs /\ EvHandled' = EvHandled
    /\ \A y \in EvExecs : /\ ExecOK(evExec'[y]) /\ evExec'[y].handler = evExec[y].handler
                          /\ evExec'[y].parent = evExec[y].parent
                          /\ evExec'[y].owner = evExec[y].owner
                          /\ y # x => evExec'[y].stage = evExec[y].stage
OnlyEmission(m) ==
    /\ IsSeq(evEmission') /\ DOMAIN evEmission' = DOMAIN evEmission
    /\ \A k \in DOMAIN evEmission : /\ EmissionOK(evEmission'[k])
                                    /\ evEmission'[k].async = evEmission[k].async
                                    /\ evEmission'[k].by = evEmission[k].by
                                    /\ evEmission'[k].profile = evEmission[k].profile
                                    /\ k # m => evEmission'[k] = evEmission[k]

LEMMA OthersStay ==
    ASSUME NEW m, OnlyEmission(m)
    PROVE  /\ IsSeq(evEmission') /\ DOMAIN evEmission' = DOMAIN evEmission
           /\ \A k \in DOMAIN evEmission : /\ EmissionOK(evEmission'[k])
                                           /\ k # m => evEmission'[k] = evEmission[k]
BY DEF OnlyEmission

LEMMA EvExecStage ==
    ASSUME EvInv, NEW x \in EvExecs, NEW stage \in EvStages,
           evExec' = [evExec EXCEPT ![x].stage = stage]
    PROVE  OnlyExec(x) /\ evExec'[x].stage = stage
<1>1. PICK q : q = evExec[x] /\ ExecOK(q)
  BY DEF EvInv, EvShaped
<1>2. PICK r : r = [q EXCEPT !.stage = stage]
  OBVIOUS
<1>3. ExecAt(r, q, stage)
  BY <1>1, <1>2, ExecStage
<1>4. evExec' = [evExec EXCEPT ![x] = r]
  BY <1>1, <1>2 DEF EvExecs
<1>5. DOMAIN evExec' = DOMAIN evExec /\ evExec'[x] = r /\ \A y \in EvExecs \ {x} : evExec'[y] = evExec[y]
  BY <1>4 DEF EvExecs
<1>6. \A y \in EvExecs : ExecOK(evExec[y])
  BY DEF EvInv, EvShaped
<1> QED  BY <1>1, <1>3, <1>5, <1>6 DEF OnlyExec, ExecAt, EvExecs, EvHandled

LEMMA EvExecEnds ==
    ASSUME EvInv, NEW x \in EvExecs, NEW stage \in EvStages, NEW failed,
           evExec' = [evExec EXCEPT ![x].stage = stage, ![x].failed = failed]
    PROVE  OnlyExec(x) /\ evExec'[x].stage = stage
<1>1. PICK q : q = evExec[x] /\ ExecOK(q)
  BY DEF EvInv, EvShaped
<1>2. PICK r : r = [q EXCEPT !.stage = stage, !.failed = failed]
  OBVIOUS
<1>3. ExecAt(r, q, stage)
  BY <1>1, <1>2, ExecEnds
<1>4. evExec' = [evExec EXCEPT ![x] = r]
  BY <1>1, <1>2 DEF EvExecs
<1>5. DOMAIN evExec' = DOMAIN evExec /\ evExec'[x] = r /\ \A y \in EvExecs \ {x} : evExec'[y] = evExec[y]
  BY <1>4 DEF EvExecs
<1>6. \A y \in EvExecs : ExecOK(evExec[y])
  BY DEF EvInv, EvShaped
<1> QED  BY <1>1, <1>3, <1>5, <1>6 DEF OnlyExec, ExecAt, EvExecs, EvHandled

LEMMA EvExecEmits ==
    ASSUME EvInv, NEW x \in EvExecs, NEW emitted,
           evExec' = [evExec EXCEPT ![x].emitted = emitted]
    PROVE  OnlyExec(x) /\ evExec'[x].stage = evExec[x].stage
<1>1. PICK q : q = evExec[x] /\ ExecOK(q)
  BY DEF EvInv, EvShaped
<1>2. PICK r : r = [q EXCEPT !.emitted = emitted]
  OBVIOUS
<1>3. ExecAt(r, q, q.stage)
  BY <1>1, <1>2, ExecEmits
<1>4. evExec' = [evExec EXCEPT ![x] = r]
  BY <1>1, <1>2 DEF EvExecs
<1>5. DOMAIN evExec' = DOMAIN evExec /\ evExec'[x] = r /\ \A y \in EvExecs \ {x} : evExec'[y] = evExec[y]
  BY <1>4 DEF EvExecs
<1>6. \A y \in EvExecs : ExecOK(evExec[y])
  BY DEF EvInv, EvShaped
<1> QED  BY <1>1, <1>3, <1>5, <1>6 DEF OnlyExec, ExecAt, EvExecs, EvHandled

LEMMA EvEmissionCalls ==
    ASSUME EvInv, NEW m \in DOMAIN evEmission, NEW todo,
           evEmission' = [evEmission EXCEPT ![m].todo = todo]
    PROVE  /\ OnlyEmission(m) /\ evEmission'[m].waiting = evEmission[m].waiting
           /\ evEmission'[m].state = evEmission[m].state
           /\ evEmission'[m].failed = evEmission[m].failed
<1>1. PICK q : q = evEmission[m] /\ EmissionOK(q)
  BY DEF EvInv, EvShaped
<1>2. PICK e : e = [q EXCEPT !.todo = todo]
  OBVIOUS
<1>3. EmissionAt(e, q, q.waiting, q.state, q.failed)
  BY <1>1, <1>2, EmissionCalls
<1>4. evEmission' = [evEmission EXCEPT ![m] = e]
  BY <1>1, <1>2
<1>5. IsSeq(evEmission) /\ \A k \in DOMAIN evEmission : EmissionOK(evEmission[k])
  BY DEF EvInv, EvShaped
<1>6. IsSeq(evEmission')
  BY <1>4, <1>5, UpdateFacts
<1>7. DOMAIN evEmission' = DOMAIN evEmission /\ evEmission'[m] = e
      /\ \A k \in DOMAIN evEmission \ {m} : evEmission'[k] = evEmission[k]
  BY <1>4
<1> QED  BY <1>1, <1>3, <1>5, <1>6, <1>7 DEF OnlyEmission, EmissionAt

LEMMA EvEmissionState ==
    ASSUME EvInv, NEW m \in DOMAIN evEmission, NEW state,
           evEmission' = [evEmission EXCEPT ![m].state = state]
    PROVE  /\ OnlyEmission(m) /\ evEmission'[m].waiting = evEmission[m].waiting
           /\ evEmission'[m].state = state
           /\ evEmission'[m].failed = evEmission[m].failed
<1>1. PICK q : q = evEmission[m] /\ EmissionOK(q)
  BY DEF EvInv, EvShaped
<1>2. PICK e : e = [q EXCEPT !.state = state]
  OBVIOUS
<1>3. EmissionAt(e, q, q.waiting, state, q.failed)
  BY <1>1, <1>2, EmissionState
<1>4. evEmission' = [evEmission EXCEPT ![m] = e]
  BY <1>1, <1>2
<1>5. IsSeq(evEmission) /\ \A k \in DOMAIN evEmission : EmissionOK(evEmission[k])
  BY DEF EvInv, EvShaped
<1>6. IsSeq(evEmission')
  BY <1>4, <1>5, UpdateFacts
<1>7. DOMAIN evEmission' = DOMAIN evEmission /\ evEmission'[m] = e
      /\ \A k \in DOMAIN evEmission \ {m} : evEmission'[k] = evEmission[k]
  BY <1>4
<1> QED  BY <1>1, <1>3, <1>5, <1>6, <1>7 DEF OnlyEmission, EmissionAt

LEMMA EvEmissionWaits ==
    ASSUME EvInv, NEW m \in DOMAIN evEmission, NEW waiting,
           evEmission' = [evEmission EXCEPT ![m].waiting = waiting]
    PROVE  /\ OnlyEmission(m) /\ evEmission'[m].waiting = waiting
           /\ evEmission'[m].state = evEmission[m].state
           /\ evEmission'[m].failed = evEmission[m].failed
<1>1. PICK q : q = evEmission[m] /\ EmissionOK(q)
  BY DEF EvInv, EvShaped
<1>2. PICK e : e = [q EXCEPT !.waiting = waiting]
  OBVIOUS
<1>3. EmissionAt(e, q, waiting, q.state, q.failed)
  BY <1>1, <1>2, EmissionWaits
<1>4. evEmission' = [evEmission EXCEPT ![m] = e]
  BY <1>1, <1>2
<1>5. IsSeq(evEmission) /\ \A k \in DOMAIN evEmission : EmissionOK(evEmission[k])
  BY DEF EvInv, EvShaped
<1>6. IsSeq(evEmission')
  BY <1>4, <1>5, UpdateFacts
<1>7. DOMAIN evEmission' = DOMAIN evEmission /\ evEmission'[m] = e
      /\ \A k \in DOMAIN evEmission \ {m} : evEmission'[k] = evEmission[k]
  BY <1>4
<1> QED  BY <1>1, <1>3, <1>5, <1>6, <1>7 DEF OnlyEmission, EmissionAt

LEMMA EvEmissionEnds ==
    ASSUME EvInv, NEW m \in DOMAIN evEmission, NEW state, NEW failed,
           evEmission' = [evEmission EXCEPT ![m].state = state, ![m].failed = failed]
    PROVE  /\ OnlyEmission(m) /\ evEmission'[m].waiting = evEmission[m].waiting
           /\ evEmission'[m].state = state
           /\ evEmission'[m].failed = failed
<1>1. PICK q : q = evEmission[m] /\ EmissionOK(q)
  BY DEF EvInv, EvShaped
<1>2. PICK e : e = [q EXCEPT !.state = state, !.failed = failed]
  OBVIOUS
<1>3. EmissionAt(e, q, q.waiting, state, failed)
  BY <1>1, <1>2, EmissionEnds
<1>4. evEmission' = [evEmission EXCEPT ![m] = e]
  BY <1>1, <1>2
<1>5. IsSeq(evEmission) /\ \A k \in DOMAIN evEmission : EmissionOK(evEmission[k])
  BY DEF EvInv, EvShaped
<1>6. IsSeq(evEmission')
  BY <1>4, <1>5, UpdateFacts
<1>7. DOMAIN evEmission' = DOMAIN evEmission /\ evEmission'[m] = e
      /\ \A k \in DOMAIN evEmission \ {m} : evEmission'[k] = evEmission[k]
  BY <1>4
<1> QED  BY <1>1, <1>3, <1>5, <1>6, <1>7 DEF OnlyEmission, EmissionAt

LEMMA EvEmissionSettles ==
    ASSUME EvInv, NEW m \in DOMAIN evEmission, NEW waiting, NEW state, NEW failed,
           evEmission' = [evEmission EXCEPT ![m].waiting = waiting, ![m].state = state, ![m].failed = failed]
    PROVE  /\ OnlyEmission(m) /\ evEmission'[m].waiting = waiting
           /\ evEmission'[m].state = state
           /\ evEmission'[m].failed = failed
<1>1. PICK q : q = evEmission[m] /\ EmissionOK(q)
  BY DEF EvInv, EvShaped
<1>2. PICK e : e = [q EXCEPT !.waiting = waiting, !.state = state, !.failed = failed]
  OBVIOUS
<1>3. EmissionAt(e, q, waiting, state, failed)
  BY <1>1, <1>2, EmissionSettles
<1>4. evEmission' = [evEmission EXCEPT ![m] = e]
  BY <1>1, <1>2
<1>5. IsSeq(evEmission) /\ \A k \in DOMAIN evEmission : EmissionOK(evEmission[k])
  BY DEF EvInv, EvShaped
<1>6. IsSeq(evEmission')
  BY <1>4, <1>5, UpdateFacts
<1>7. DOMAIN evEmission' = DOMAIN evEmission /\ evEmission'[m] = e
      /\ \A k \in DOMAIN evEmission \ {m} : evEmission'[k] = evEmission[k]
  BY <1>4
<1> QED  BY <1>1, <1>3, <1>5, <1>6, <1>7 DEF OnlyEmission, EmissionAt

LEMMA EvShapes ==
    ASSUME EvInv, EvExecs' = EvExecs, EvHandled' = EvHandled,
           \A y \in EvExecs : ExecOK(evExec'[y]) /\ evExec'[y].parent = evExec[y].parent,
           evExec'[Request].stage = "running", IsSeq(evStack'), IsSeq(evEmission'), DOMAIN evEmission \subseteq DOMAIN evEmission',
           \A k \in DOMAIN evEmission' : EmissionOK(evEmission'[k])
    PROVE  EvShaped'
<1>1. EvHandled \subseteq EvExecs
  BY DEF EvHandled
<1> QED  BY <1>1 DEF EvInv, EvShaped

LEMMA EvRequestStays ==
    ASSUME EvInv, NEW x \in EvHandled, OnlyExec(x) PROVE evExec'[Request].stage = "running"
BY DEF EvInv, EvShaped, OnlyExec, EvHandled

LEMMA EvWrapped ==
    ASSUME evHandlers' = evHandlers, NEW h
    PROVE  WrappedHandler(h)' <=> WrappedHandler(h)
BY DEF WrappedHandler, ScanEventListeners

(* A handler that stays where it is stays waited for.                      *)
LEMMA EvAwaitingStays ==
    ASSUME EvInv, evHandlers' = evHandlers, NEW y \in EvHandled,
           evExec'[y].stage = evExec[y].stage, evExec'[y].handler = evExec[y].handler,
           evExec'[y].parent = evExec[y].parent,
           y \in evEmission[evExec[y].parent].waiting => y \in evEmission'[evExec[y].parent].waiting,
           y \in evStored => y \in evStored'
    PROVE  AwaitingOf(y)'
<1>1. AwaitingOf(y)
  BY DEF EvInv, Awaiting
<1>2. PICK h : h = evExec[y].handler
  OBVIOUS
<1>3. WrappedHandler(h)' <=> WrappedHandler(h)
  BY EvWrapped
<1>4. WrappedHandler(evExec[y].handler)' <=> WrappedHandler(evExec[y].handler)
  BY <1>2, <1>3 DEF WrappedHandler, ScanEventListeners
<1>5. HandlerOf(y)' = HandlerOf(y)
  BY DEF HandlerOf
<1> QED  BY <1>1, <1>4, <1>5 DEF AwaitingOf

(* Where the running handler is.                                           *)
LEMMA EvTopRuns ==
    ASSUME EvInv, NEW x \in EvHandled, Runs(x)
    PROVE  /\ Len(evStack) \in Nat /\ Len(evStack) >= 2 /\ EvFrames = 1..Len(evStack)
           /\ evExec[x].stage = "running" /\ evStack[Len(evStack)] = ExecFrame(x)
           /\ evStack[Len(evStack) - 1] = EmissionFrame(evExec[x].parent)
           /\ evEmission[evExec[x].parent].state = "dispatching"
           /\ \A y \in EvHandled : evExec[y].stage = "running" <=> \E i \in EvFrames : evStack[i] = ExecFrame(y)
<1>1. Len(evStack) \in Nat /\ EvFrames = 1..Len(evStack) /\ (evStack = <<>> <=> Len(evStack) = 0)
  BY SeqFacts DEF EvInv, EvShaped, EvFrames
<1>2. evExec[x].stage = "running" /\ evStack # <<>> /\ evStack[Len(evStack)] = ExecFrame(x)
  BY DEF Runs, OnTop, Top, ExecFrame, EvHandled
<1>3. \A i \in EvFrames, y \in EvHandled : evStack[i] = ExecFrame(y) =>
         /\ evExec[y].stage = "running"
         /\ i - 1 \in EvFrames /\ evStack[i - 1] = EmissionFrame(evExec[y].parent)
  <2> SUFFICES ASSUME NEW i \in EvFrames, NEW y \in EvHandled, evStack[i] = ExecFrame(y)
               PROVE  /\ evExec[y].stage = "running"
                      /\ i - 1 \in EvFrames /\ evStack[i - 1] = EmissionFrame(evExec[y].parent)
    OBVIOUS
  <2>1. FrameOK(i)
    BY DEF EvInv, Stacked
  <2> QED  BY <2>1, FramesDiffer DEF FrameOK
<1>4. Len(evStack) - 1 \in EvFrames /\ evStack[Len(evStack) - 1] = EmissionFrame(evExec[x].parent)
  BY <1>1, <1>2, <1>3
<1>5. evEmission[evExec[x].parent].state = "dispatching"
  <2>1. FrameOK(Len(evStack) - 1)
    BY <1>4 DEF EvInv, Stacked
  <2> QED  BY <1>4, <2>1, FramesDiffer DEF FrameOK
<1>6. \A y \in EvHandled : evExec[y].stage = "running" <=> \E i \in EvFrames : evStack[i] = ExecFrame(y)
  BY <1>3 DEF EvInv, Stacked
<1> QED  BY <1>1, <1>2, <1>4, <1>5, <1>6

(* A handler leaves the stack: the frames below it stay, the emission's    *)
(* too unless it is unwound with it.                                       *)
LEMMA EvLeaves ==
    ASSUME EvInv, NEW x \in EvHandled, Runs(x), NEW k \in {1, 2},
           evStack' = SubSeq(evStack, 1, Len(evStack) - k), OnlyExec(x),
           evExec'[x].stage # "running", DOMAIN evEmission' = DOMAIN evEmission,
           \A m \in DOMAIN evEmission : k = 1 \/ m # evExec[x].parent =>
              evEmission'[m].state = evEmission[m].state
    PROVE  IsSeq(evStack') /\ Stacked'
<1> DEFINE n == Len(evStack)
<1>1. /\ n \in Nat /\ n >= 2 /\ EvFrames = 1..n /\ evStack[n] = ExecFrame(x)
      /\ evStack[n - 1] = EmissionFrame(evExec[x].parent)
      /\ \A y \in EvHandled : evExec[y].stage = "running" <=> \E i \in EvFrames : evStack[i] = ExecFrame(y)
  BY EvTopRuns
<1>2. EvHandled' = EvHandled /\ x \in EvExecs
      /\ \A y \in EvHandled : /\ evExec'[y].parent = evExec[y].parent
                              /\ y # x => evExec'[y].stage = evExec[y].stage
  BY DEF OnlyExec, EvHandled
<1>3. \A i, j \in EvFrames : evStack[i] = evStack[j] => i = j
  BY DEF EvInv, Stacked
<1>4. ASSUME NEW y \in EvHandled
      PROVE  evExec'[y].stage = "running" <=> \E i \in 1..(n - k) : evStack[i] = ExecFrame(y)
  <2>1. CASE y = x
    <3>1. ASSUME NEW i \in 1..(n - k) PROVE evStack[i] # ExecFrame(x)
      <4>1. i \in EvFrames /\ n \in EvFrames /\ i # n
        BY <1>1
      <4> QED  BY <1>1, <1>3, <4>1
    <3>2. evExec'[y].stage # "running"
      BY <1>2, <2>1
    <3> QED  BY <2>1, <3>1, <3>2
  <2>2. CASE y # x
    <3>1. evExec'[y].stage = evExec[y].stage
      BY <1>2, <2>2
    <3>2. ASSUME NEW i \in EvFrames, evStack[i] = ExecFrame(y) PROVE i \in 1..(n - k)
      <4>1. ExecFrame(y) # ExecFrame(x) /\ ExecFrame(y) # EmissionFrame(evExec[x].parent)
        BY <2>2, FramesDiffer
      <4>2. i # n /\ i # n - 1
        BY <1>1, <3>2, <4>1
      <4> QED  BY <1>1, <4>2
    <3>3. 1..(n - k) \subseteq EvFrames
      BY <1>1
    <3> QED  BY <1>1, <3>1, <3>2, <3>3
  <2> QED  BY <2>1, <2>2
<1>5. ASSUME NEW m \in DOMAIN evEmission, NEW i \in 1..(n - k), evStack[i] = EmissionFrame(m)
      PROVE  evEmission'[m].state = "dispatching"
  <2>1. FrameOK(i) /\ i \in EvFrames
    BY <1>1 DEF EvInv, Stacked
  <2>2. evEmission[m].state = "dispatching"
    BY <1>5, <2>1, FramesDiffer DEF FrameOK
  <2>3. k = 1 \/ m # evExec[x].parent
    BY <1>1, <1>3, <1>5, <2>1
  <2> QED  BY <2>2, <2>3
<1>6. n - k \in 0..n
  BY <1>1
<1> QED  BY <1>2, <1>4, <1>5, <1>6, EvPops

-----------------------------------------------------------------------------
LEMMA EvReturnsSync ==
    ASSUME EvInv, NEW x \in EvExecs, ReturnSync(x) PROVE EvInv'
<1>1. /\ x \in EvHandled /\ Runs(x) /\ ~HandlerOf(x).awaits
      /\ UNCHANGED <<evHandlers, evEmission, evStored>>
  BY DEF ReturnSync, EvHandled, HandlerOf
<1>2. OnlyExec(x) /\ evExec'[x].stage = "returned"
  <2>1. PICK stage \in EvStages : stage = "returned"
    BY DEF EvStages
  <2>2. evExec' = [evExec EXCEPT ![x].stage = stage]
    BY <2>1 DEF ReturnSync
  <2> QED  BY <2>1, <2>2, EvExecStage
<1>3. /\ EvExecs' = EvExecs /\ EvHandled' = EvHandled
      /\ \A y \in EvExecs : /\ ExecOK(evExec'[y]) /\ evExec'[y].handler = evExec[y].handler
                            /\ evExec'[y].parent = evExec[y].parent
                            /\ y # x => evExec'[y].stage = evExec[y].stage
  BY <1>2 DEF OnlyExec
<1>4. IsSeq(evStack') /\ Stacked'
  <2>1. evStack' = SubSeq(evStack, 1, Len(evStack) - 1)
    BY DEF ReturnSync, Under
  <2> QED  BY <1>1, <1>2, <2>1, EvLeaves
<1>5. IsSeq(evEmission') /\ \A k \in DOMAIN evEmission' : EmissionOK(evEmission'[k])
  BY <1>1 DEF EvInv, EvShaped
<1>6. EvShaped'
  BY <1>1, <1>2, <1>3, <1>4, <1>5, EvShapes, EvRequestStays
<1>7. Awaiting'
  <2>1. ASSUME NEW y \in EvHandled, y # x PROVE AwaitingOf(y)'
    BY <1>1, <1>3, <2>1, EvAwaitingStays DEF EvHandled
  <2>2. AwaitingOf(x)'
    BY <1>1, <1>2, <1>3 DEF AwaitingOf, HandlerOf
  <2> QED  BY <1>3, <2>1, <2>2 DEF Awaiting
<1>8. FulfilledAfterAll'
  BY <1>1 DEF EvInv, FulfilledAfterAll
<1> QED  BY <1>4, <1>6, <1>7, <1>8 DEF EvInv

LEMMA EvUnwinds ==
    ASSUME EvInv, NEW m \in DOMAIN evEmission, NEW x, m = evExec[x].parent, ThrowSync(x)
    PROVE  /\ OnlyEmission(m) /\ evEmission'[m].waiting = evEmission[m].waiting
           /\ evEmission'[m].failed /\ evEmission'[m].failed = TRUE
           /\ evEmission'[m].state = (IF evEmission[m].async THEN "thrown" ELSE "done")
<1>1. PICK q : q = evEmission[m] /\ EmissionOK(q)
  BY DEF EvInv, EvShaped
<1>2. PICK s : s = (IF evEmission[m].async THEN "thrown" ELSE "done")
  OBVIOUS
<1>3. evEmission' = [evEmission EXCEPT ![m].state = s, ![m].failed = TRUE]
  BY <1>2, SMT DEF ThrowSync
<1>4. PICK e : e = [q EXCEPT !.state = s, !.failed = TRUE]
  OBVIOUS
<1>5. /\ EmissionOK(e) /\ e.async = q.async /\ e.waiting = q.waiting /\ e.failed /\ e.failed = TRUE
      /\ e.by = q.by /\ e.profile = q.profile /\ e.state = s
  <2>1. e = [by |-> q.by, event |-> q.event, async |-> q.async, profile |-> q.profile, todo |-> q.todo,
             waiting |-> q.waiting, state |-> s, failed |-> TRUE]
    BY <1>1, <1>4 DEF EmissionOK
  <2> QED  BY <2>1 DEF EmissionOK
<1>6. evEmission' = [evEmission EXCEPT ![m] = e]
  BY <1>1, <1>3, <1>4
<1>7. IsSeq(evEmission) /\ \A k \in DOMAIN evEmission : EmissionOK(evEmission[k])
  BY DEF EvInv, EvShaped
<1>8. IsSeq(evEmission')
  BY <1>6, <1>7, UpdateFacts
<1>9. DOMAIN evEmission' = DOMAIN evEmission /\ evEmission'[m] = e
      /\ \A k \in DOMAIN evEmission \ {m} : evEmission'[k] = evEmission[k]
  BY <1>6
<1>10. OnlyEmission(m)
  BY ONLY <1>1, <1>5, <1>7, <1>8, <1>9 DEF OnlyEmission
<1> QED  BY ONLY <1>1, <1>2, <1>5, <1>9, <1>10

LEMMA EvThrowsSync ==
    ASSUME EvInv, NEW x \in EvExecs, ThrowSync(x) PROVE EvInv'
<1>0. PICK m : m = evExec[x].parent
  OBVIOUS
<1>1. /\ x \in EvHandled /\ Runs(x) /\ ~HandlerOf(x).awaits
      /\ UNCHANGED <<evHandlers, evStored>>
  BY DEF ThrowSync, EvHandled, HandlerOf
<1>2. OnlyExec(x) /\ evExec'[x].stage = "returned"
  <2>1. PICK stage \in EvStages, failed \in BOOLEAN : stage = "returned" /\ failed = TRUE
    BY DEF EvStages
  <2>2. evExec' = [evExec EXCEPT ![x].stage = stage, ![x].failed = failed]
    BY <2>1 DEF ThrowSync
  <2> QED  BY <2>1, <2>2, EvExecEnds
<1>3. /\ EvExecs' = EvExecs /\ EvHandled' = EvHandled
      /\ \A y \in EvExecs : /\ ExecOK(evExec'[y]) /\ evExec'[y].handler = evExec[y].handler
                            /\ evExec'[y].parent = evExec[y].parent
                            /\ y # x => evExec'[y].stage = evExec[y].stage
  BY <1>2 DEF OnlyExec
<1>4. m \in DOMAIN evEmission
  BY <1>0, <1>1 DEF EvInv, EvShaped
<1>5. /\ OnlyEmission(m) /\ evEmission'[m].waiting = evEmission[m].waiting
      /\ evEmission'[m].failed
  BY <1>0, <1>1, <1>4, EvUnwinds
<1>6. /\ IsSeq(evEmission') /\ DOMAIN evEmission' = DOMAIN evEmission
      /\ \A k \in DOMAIN evEmission : /\ EmissionOK(evEmission'[k])
                                      /\ k # m => evEmission'[k] = evEmission[k]
  BY <1>5, OthersStay
<1>7. IsSeq(evStack') /\ Stacked'
  <2>1. PICK k \in {1, 2} : k = 2
    OBVIOUS
  <2>2. evStack' = SubSeq(evStack, 1, Len(evStack) - k)
    BY <2>1 DEF ThrowSync
  <2>3. \A i \in DOMAIN evEmission : i # m => evEmission'[i].state = evEmission[i].state
    BY <1>6
  <2> QED  BY <1>0, <1>1, <1>2, <1>6, <2>1, <2>2, <2>3, EvLeaves
<1>8. EvShaped'
  BY <1>1, <1>2, <1>3, <1>6, <1>7, EvShapes, EvRequestStays
<1>9. \A k \in DOMAIN evEmission : evEmission'[k].waiting = evEmission[k].waiting
  BY <1>5, <1>6
<1>10. Awaiting'
  <2>1. ASSUME NEW y \in EvHandled, y # x PROVE AwaitingOf(y)'
    <3>1. evExec[y].parent \in DOMAIN evEmission
      BY DEF EvInv, EvShaped
    <3> QED  BY <1>1, <1>3, <1>9, <2>1, <3>1, EvAwaitingStays DEF EvHandled
  <2>2. AwaitingOf(x)'
    BY <1>1, <1>2, <1>3 DEF AwaitingOf, HandlerOf
  <2> QED  BY <1>3, <2>1, <2>2 DEF Awaiting
<1>11. FulfilledAfterAll'
  <2>1. Fulfilled(evEmission'[m])
    BY <1>5 DEF Fulfilled
  <2> QED  BY <1>6, <2>1 DEF EvInv, FulfilledAfterAll
<1> QED  BY <1>7, <1>8, <1>10, <1>11 DEF EvInv

LEMMA EvAwaits ==
    ASSUME EvInv, NEW x \in EvExecs, Await(x) PROVE EvInv'
<1>0. PICK m : m = evExec[x].parent
  OBVIOUS
<1>1. /\ x \in EvHandled /\ Runs(x) /\ HandlerOf(x).awaits /\ UNCHANGED <<evHandlers, evStored>>
  BY DEF Await, EvHandled, HandlerOf
<1>2. OnlyExec(x) /\ evExec'[x].stage = "awaiting"
  <2>1. PICK stage \in EvStages : stage = "awaiting"
    BY DEF EvStages
  <2>2. evExec' = [evExec EXCEPT ![x].stage = stage]
    BY <2>1 DEF Await
  <2> QED  BY <2>1, <2>2, EvExecStage
<1>3. /\ EvExecs' = EvExecs /\ EvHandled' = EvHandled
      /\ \A y \in EvExecs : /\ ExecOK(evExec'[y]) /\ evExec'[y].handler = evExec[y].handler
                            /\ evExec'[y].parent = evExec[y].parent
                            /\ y # x => evExec'[y].stage = evExec[y].stage
  BY <1>2 DEF OnlyExec
<1>4. m \in DOMAIN evEmission /\ evEmission[m].state = "dispatching"
  BY <1>0, <1>1, EvTopRuns DEF EvInv, EvShaped
<1>5. /\ OnlyEmission(m) /\ evEmission'[m].waiting = evEmission[m].waiting \cup {x}
      /\ evEmission'[m].state = evEmission[m].state
  <2>1. PICK w : w = evEmission[m].waiting \cup {x}
    OBVIOUS
  <2>2. evEmission' = [evEmission EXCEPT ![m].waiting = w]
    BY <1>0, <2>1 DEF Await
  <2> QED  BY <1>4, <2>1, <2>2, EvEmissionWaits
<1>6. /\ IsSeq(evEmission') /\ DOMAIN evEmission' = DOMAIN evEmission
      /\ \A k \in DOMAIN evEmission : /\ EmissionOK(evEmission'[k])
                                      /\ k # m => evEmission'[k] = evEmission[k]
  BY <1>5, OthersStay
<1>7. IsSeq(evStack') /\ Stacked'
  <2>1. evStack' = SubSeq(evStack, 1, Len(evStack) - 1)
    BY DEF Await, Under
  <2>2. \A k \in DOMAIN evEmission : evEmission'[k].state = evEmission[k].state
    BY <1>5, <1>6
  <2> QED  BY <1>1, <1>2, <1>6, <2>1, <2>2, EvLeaves
<1>8. EvShaped'
  BY <1>1, <1>2, <1>3, <1>6, <1>7, EvShapes, EvRequestStays
<1>9. \A k \in DOMAIN evEmission : evEmission[k].waiting \subseteq evEmission'[k].waiting
  BY <1>5, <1>6
<1>10. Awaiting'
  <2>1. ASSUME NEW y \in EvHandled, y # x PROVE AwaitingOf(y)'
    <3>1. evExec[y].parent \in DOMAIN evEmission
      BY DEF EvInv, EvShaped
    <3> QED  BY <1>1, <1>3, <1>9, <2>1, <3>1, EvAwaitingStays DEF EvHandled
  <2>2. AwaitingOf(x)'
    BY <1>0, <1>1, <1>2, <1>3, <1>5 DEF AwaitingOf, HandlerOf
  <2> QED  BY <1>3, <2>1, <2>2 DEF Awaiting
<1>11. FulfilledAfterAll'
  <2>1. Fulfilled(evEmission'[m])
    BY <1>4, <1>5 DEF Fulfilled
  <2> QED  BY <1>6, <2>1 DEF EvInv, FulfilledAfterAll
<1> QED  BY <1>7, <1>8, <1>10, <1>11 DEF EvInv

-----------------------------------------------------------------------------
(* Nothing is on the stack: no handler is running.                         *)
LEMMA EvIdle ==
    ASSUME EvInv, evStack = <<>>
    PROVE  IsSeq(evStack) /\ EvFrames = {} /\ \A y \in EvHandled : evExec[y].stage # "running"
<1>1. IsSeq(evStack) /\ EvFrames = {}
  BY SeqFacts DEF EvInv, EvShaped, EvFrames
<1> QED  BY <1>1 DEF EvInv, Stacked

LEMMA EvStaysIdle ==
    ASSUME EvInv, evStack = <<>>, evStack' = evStack, NEW x \in EvHandled, OnlyExec(x),
           evExec'[x].stage # "running"
    PROVE  IsSeq(evStack') /\ Stacked'
<1>1. IsSeq(evStack) /\ EvFrames = {} /\ \A y \in EvHandled : evExec[y].stage # "running"
  BY EvIdle
<1>2. EvFrames' = {} /\ EvHandled' = EvHandled /\ EvHandled \subseteq EvExecs
  BY <1>1 DEF EvFrames, OnlyExec, EvHandled
<1>3. \A y \in EvHandled' : evExec'[y].stage # "running"
  BY <1>1, <1>2 DEF OnlyExec
<1> QED  BY <1>1, <1>2, <1>3 DEF Stacked

LEMMA EvSchedules ==
    ASSUME EvInv, NEW x \in EvExecs, ScheduledPersist(x) PROVE EvInv'
<1>1. /\ evStack = <<>> /\ evExec[x].stage = "returned" /\ evStored' = evStored \cup {x}
      /\ x \in EvHandled /\ UNCHANGED <<evHandlers, evEmission, evStack>>
  BY DEF ScheduledPersist, EvInv, EvShaped, EvHandled
<1>2. OnlyExec(x) /\ evExec'[x].stage = "settled"
  <2>1. PICK stage \in EvStages : stage = "settled"
    BY DEF EvStages
  <2>2. evExec' = [evExec EXCEPT ![x].stage = stage]
    BY <2>1 DEF ScheduledPersist
  <2> QED  BY <2>1, <2>2, EvExecStage
<1>3. /\ EvExecs' = EvExecs /\ EvHandled' = EvHandled
      /\ \A y \in EvExecs : /\ ExecOK(evExec'[y]) /\ evExec'[y].handler = evExec[y].handler
                            /\ evExec'[y].parent = evExec[y].parent
                            /\ y # x => evExec'[y].stage = evExec[y].stage
  BY <1>2 DEF OnlyExec
<1>4. IsSeq(evStack') /\ Stacked'
  <2>1. IsSeq(evStack) /\ EvFrames = {} /\ \A y \in EvHandled : evExec[y].stage # "running"
    BY <1>1, EvIdle
  <2>2. EvFrames' = {} /\ \A y \in EvHandled' : evExec'[y].stage # "running"
    BY <1>1, <1>2, <1>3, <2>1 DEF EvFrames, EvHandled
  <2> QED  BY <1>1, <2>1, <2>2 DEF Stacked
<1>5. IsSeq(evEmission') /\ \A k \in DOMAIN evEmission' : EmissionOK(evEmission'[k])
  BY <1>1 DEF EvInv, EvShaped
<1>6. EvShaped'
  BY <1>1, <1>2, <1>3, <1>4, <1>5, EvShapes, EvRequestStays
<1>7. Awaiting'
  <2>1. ASSUME NEW y \in EvHandled, y # x PROVE AwaitingOf(y)'
    BY <1>1, <1>3, <2>1, EvAwaitingStays DEF EvHandled
  <2>2. AwaitingOf(x)'
    BY <1>1, <1>2 DEF AwaitingOf
  <2> QED  BY <1>3, <2>1, <2>2 DEF Awaiting
<1>8. FulfilledAfterAll'
  BY <1>1 DEF EvInv, FulfilledAfterAll
<1> QED  BY <1>4, <1>6, <1>7, <1>8 DEF EvInv

(* A promise settles for its emission: x alone is no longer waited for, and*)
(* the emission fulfils only when nobody is.                               *)
LEMMA EvSettlesOne ==
    ASSUME EvInv, NEW x \in EvHandled, NEW failed, PromiseSettles(x, failed)
    PROVE  /\ IsSeq(evEmission') /\ DOMAIN evEmission' = DOMAIN evEmission
           /\ \A k \in DOMAIN evEmission :
                /\ EmissionOK(evEmission'[k]) /\ Fulfilled(evEmission'[k])
                /\ evEmission[k].waiting \ {x} \subseteq evEmission'[k].waiting
<1>1. PICK m \in DOMAIN evEmission : m = evExec[x].parent
  BY DEF EvInv, EvShaped
<1>2. PICK left, settles, s, f :
        /\ left = evEmission[m].waiting \ {x}
        /\ settles <=> evEmission[m].state = "waiting" /\ (failed \/ left = {})
        /\ s = (IF settles THEN "done" ELSE evEmission[m].state)
        /\ f = (IF settles THEN failed ELSE evEmission[m].failed)
        /\ evEmission' = [evEmission EXCEPT ![m].waiting = left, ![m].state = s, ![m].failed = f]
  <2>1. PICK left, settles :
          /\ left = evEmission[m].waiting \ {x}
          /\ settles = (evEmission[m].state = "waiting" /\ (failed \/ left = {}))
    OBVIOUS
  <2>2. PICK s, f : /\ s = (IF settles THEN "done" ELSE evEmission[m].state)
                    /\ f = (IF settles THEN failed ELSE evEmission[m].failed)
    OBVIOUS
  <2>3. evEmission' = [evEmission EXCEPT ![m].waiting = left, ![m].state = s, ![m].failed = f]
    BY <1>1, <2>1, <2>2 DEF PromiseSettles
  <2> QED  BY <2>1, <2>2, <2>3
<1>3. /\ OnlyEmission(m) /\ evEmission'[m].waiting = left
      /\ evEmission'[m].state = s /\ evEmission'[m].failed = f
  <2>1. evEmission' = [evEmission EXCEPT ![m].waiting = left, ![m].state = s, ![m].failed = f]
    BY <1>2
  <2> QED  BY <2>1, EvEmissionSettles
<1>4. Fulfilled(evEmission[m])
  BY DEF EvInv, FulfilledAfterAll
<1>5. Fulfilled(evEmission'[m])
  <2>1. CASE settles
    BY <1>2, <1>3, <2>1 DEF Fulfilled
  <2>2. CASE ~settles
    BY <1>2, <1>3, <1>4, <2>2 DEF Fulfilled, OnlyEmission
  <2> QED  BY <2>1, <2>2
<1> QED  BY <1>2, <1>3, <1>5 DEF EvInv, FulfilledAfterAll, OnlyEmission

(* A handler whose wait is over settles, or waits for its save.            *)
LEMMA EvSettles ==
    ASSUME EvInv, NEW x \in EvExecs, NEW b \in BOOLEAN,
           HandlerSettles(x, b) \/ HandlerPersisted(x, b)
    PROVE  EvInv'
<1>1. /\ evStack = <<>> /\ evExec[x].stage \in {"awaiting", "persisting"} /\ x \in EvHandled
      /\ UNCHANGED <<evHandlers, evStack>>
  BY DEF HandlerSettles, HandlerPersisted, Resumes, EvInv, EvShaped, EvHandled
<1>2. PICK wrapped \in BOOLEAN : wrapped <=> WrappedHandler(evExec[x].handler)
  OBVIOUS
<1>3. /\ OnlyExec(x) /\ evExec'[x].stage \in {"persisting", "settled", "unsaved"}
      /\ evExec'[x].stage = "persisting" => evEmission' = evEmission /\ evStored' = evStored
      /\ evExec'[x].stage # "persisting" =>
           /\ \E failed : PromiseSettles(x, failed)
           /\ wrapped /\ evExec'[x].stage = "settled" => x \in evStored'
      /\ evStored \subseteq evStored'
  <2>1. CASE HandlerSettles(x, b)
    <3>1. PICK stage \in EvStages : stage = IF wrapped THEN "persisting" ELSE "settled"
      BY DEF EvStages
    <3>2. evExec' = [evExec EXCEPT ![x].stage = stage, ![x].failed = b]
      BY <1>2, <2>1, <3>1 DEF HandlerSettles
    <3>3. OnlyExec(x) /\ evExec'[x].stage = stage
      BY <3>2, EvExecEnds
    <3>4. evStored' = evStored /\ IF wrapped THEN evEmission' = evEmission ELSE PromiseSettles(x, b)
      BY <1>2, <2>1 DEF HandlerSettles
    <3> QED  BY <3>1, <3>3, <3>4
  <2>2. CASE HandlerPersisted(x, b)
    <3>1. PICK stage \in EvStages : stage = IF b THEN "settled" ELSE "unsaved"
      BY DEF EvStages
    <3>2. evExec' = [evExec EXCEPT ![x].stage = stage]
      BY <2>2, <3>1 DEF HandlerPersisted
    <3>3. OnlyExec(x) /\ evExec'[x].stage = stage
      BY <3>2, EvExecStage
    <3>4. PromiseSettles(x, evExec[x].failed) /\ evStored' = IF b THEN evStored \cup {x} ELSE evStored
      BY <2>2 DEF HandlerPersisted
    <3> QED  BY <3>1, <3>3, <3>4
  <2> QED  BY <2>1, <2>2
<1>4. /\ EvExecs' = EvExecs /\ EvHandled' = EvHandled
      /\ \A y \in EvExecs : /\ ExecOK(evExec'[y]) /\ evExec'[y].handler = evExec[y].handler
                            /\ evExec'[y].parent = evExec[y].parent
                            /\ y # x => evExec'[y].stage = evExec[y].stage
  BY <1>3 DEF OnlyExec
<1>5. IsSeq(evStack') /\ Stacked'
  <2>1. evExec'[x].stage # "running"
    BY <1>3
  <2> QED  BY <1>1, <1>3, <2>1, EvStaysIdle
<1>6. /\ IsSeq(evEmission') /\ DOMAIN evEmission' = DOMAIN evEmission
      /\ \A k \in DOMAIN evEmission :
           /\ EmissionOK(evEmission'[k]) /\ Fulfilled(evEmission'[k])
           /\ evEmission[k].waiting \ {x} \subseteq evEmission'[k].waiting
           /\ evExec'[x].stage = "persisting" => evEmission'[k] = evEmission[k]
  <2>1. CASE evExec'[x].stage = "persisting"
    BY <1>3, <2>1 DEF EvInv, EvShaped, FulfilledAfterAll
  <2>2. CASE evExec'[x].stage # "persisting"
    <3>1. PICK failed : PromiseSettles(x, failed)
      BY <1>3, <2>2
    <3> QED  BY <1>1, <2>2, <3>1, EvSettlesOne
  <2> QED  BY <2>1, <2>2
<1>7. EvShaped'
  BY <1>1, <1>3, <1>4, <1>5, <1>6, EvShapes, EvRequestStays
<1>8. Awaiting'
  <2>1. ASSUME NEW y \in EvHandled, y # x PROVE AwaitingOf(y)'
    <3>1. evExec[y].parent \in DOMAIN evEmission
      BY DEF EvInv, EvShaped
    <3> QED  BY <1>1, <1>3, <1>4, <1>6, <2>1, <3>1, EvAwaitingStays DEF EvHandled
  <2>2. AwaitingOf(x)'
    <3>1. evExec[x].parent \in DOMAIN evEmission
      BY <1>1 DEF EvInv, EvShaped
    <3>2. x \in evEmission[evExec[x].parent].waiting
      BY <1>1 DEF EvInv, Awaiting, AwaitingOf
    <3>3. evExec'[x].stage \in {"awaiting", "persisting"} => x \in evEmission'[evExec'[x].parent].waiting
      BY <1>1, <1>3, <1>4, <1>6, <3>1, <3>2
    <3>4. PICK h : h = evExec[x].handler
      OBVIOUS
    <3>5. WrappedHandler(h)' <=> WrappedHandler(h)
      BY <1>1, EvWrapped
    <3>6. WrappedHandler(evExec[x].handler)' <=> wrapped
      BY <1>1, <1>2, <1>4, <3>4, <3>5 DEF WrappedHandler, ScanEventListeners
    <3> QED  BY <1>3, <3>3, <3>6 DEF AwaitingOf
  <2> QED  BY <1>4, <2>1, <2>2 DEF Awaiting
<1>9. FulfilledAfterAll'
  BY <1>6 DEF FulfilledAfterAll
<1> QED  BY <1>5, <1>7, <1>8, <1>9 DEF EvInv

-----------------------------------------------------------------------------
(* What is on top is in a frame of its own.                                *)
LEMMA EvTopEmission ==
    ASSUME EvInv, NEW m, OnTop("emission", m)
    PROVE  /\ Len(evStack) \in Nat /\ Len(evStack) >= 1 /\ EvFrames = 1..Len(evStack) /\ evStack # <<>>
           /\ evStack[Len(evStack)] = EmissionFrame(m)
           /\ m \in DOMAIN evEmission /\ evEmission[m].state = "dispatching"
<1>1. Len(evStack) \in Nat /\ EvFrames = 1..Len(evStack) /\ (evStack = <<>> <=> Len(evStack) = 0)
  BY SeqFacts DEF EvInv, EvShaped, EvFrames
<1>2. evStack # <<>> /\ evStack[Len(evStack)] = EmissionFrame(m)
  BY DEF OnTop, Top, EmissionFrame
<1>3. Len(evStack) >= 1 /\ Len(evStack) \in EvFrames
  BY <1>1, <1>2
<1>4. FrameOK(Len(evStack))
  BY <1>3 DEF EvInv, Stacked
<1>5. m \in DOMAIN evEmission /\ evEmission[m].state = "dispatching"
  BY <1>2, <1>4, FramesDiffer DEF FrameOK
<1> QED  BY <1>1, <1>2, <1>3, <1>5

LEMMA EvFrameOfRunning ==
    ASSUME EvInv, NEW y \in EvHandled
    PROVE  evExec[y].stage = "running" <=> \E i \in EvFrames : evStack[i] = ExecFrame(y)
<1>1. ASSUME NEW i \in EvFrames, evStack[i] = ExecFrame(y) PROVE evExec[y].stage = "running"
  <2>1. FrameOK(i)
    BY DEF EvInv, Stacked
  <2> QED  BY <1>1, <2>1, FramesDiffer DEF FrameOK
<1> QED  BY <1>1 DEF EvInv, Stacked

LEMMA EvEmissionReturns ==
    ASSUME EvInv, NEW m, EmissionReturns(m) PROVE EvInv'
<1>1. /\ OnTop("emission", m)
      /\ UNCHANGED <<evHandlers, evExec, evStored>>
  BY DEF EmissionReturns
<1>2. PICK n \in Nat : n = Len(evStack)
  BY <1>1, EvTopEmission
<1>3. /\ n >= 1 /\ EvFrames = 1..n /\ evStack[n] = EmissionFrame(m) /\ m \in DOMAIN evEmission
  BY <1>1, <1>2, EvTopEmission
<1>4. PICK s : /\ s = (IF evEmission[m].async /\ evEmission[m].waiting # {} THEN "waiting" ELSE "done")
               /\ evEmission' = [evEmission EXCEPT ![m].state = s]
  <2>1. PICK s : s = (IF evEmission[m].async /\ evEmission[m].waiting # {} THEN "waiting" ELSE "done")
    OBVIOUS
  <2>2. evEmission' = [evEmission EXCEPT ![m].state = s]
    BY <2>1 DEF EmissionReturns
  <2> QED  BY <2>1, <2>2
<1>5. /\ OnlyEmission(m) /\ evEmission'[m].waiting = evEmission[m].waiting /\ evEmission'[m].state = s
  <2>1. evEmission' = [evEmission EXCEPT ![m].state = s]
    BY <1>4
  <2>2. m \in DOMAIN evEmission
    BY <1>3
  <2> QED  BY <2>1, <2>2, EvEmissionState
<1>6. /\ IsSeq(evEmission') /\ DOMAIN evEmission' = DOMAIN evEmission
      /\ \A k \in DOMAIN evEmission : /\ EmissionOK(evEmission'[k])
                                      /\ evEmission'[k].async = evEmission[k].async
                                      /\ evEmission'[k].waiting = evEmission[k].waiting
                                      /\ k # m => evEmission'[k] = evEmission[k]
  BY <1>5 DEF OnlyEmission
<1>7. EvExecs' = EvExecs /\ EvHandled' = EvHandled /\ EvHandled \subseteq EvExecs
  BY <1>1 DEF EvExecs, EvHandled
<1>8. IsSeq(evStack') /\ Stacked'
  <2>1. PICK k \in 0..Len(evStack) : k = n - 1
    BY <1>2, <1>3
  <2>2. evStack' = SubSeq(evStack, 1, k)
    BY <1>2, <2>1 DEF EmissionReturns, Under
  <2>3. ASSUME NEW y \in EvHandled
        PROVE  evExec'[y].stage = "running" <=> \E i \in 1..k : evStack[i] = ExecFrame(y)
    <3>1. \A i \in EvFrames : evStack[i] = ExecFrame(y) => i \in 1..k
      BY <1>2, <1>3, <2>1, FramesDiffer
    <3>2. 1..k \subseteq EvFrames
      BY <1>2, <1>3, <2>1
    <3> QED  BY <1>1, <3>1, <3>2, EvFrameOfRunning
  <2>4. ASSUME NEW j \in DOMAIN evEmission, NEW i \in 1..k, evStack[i] = EmissionFrame(j)
        PROVE  evEmission'[j].state = "dispatching"
    <3>1. i \in EvFrames /\ n \in EvFrames /\ i # n
      BY <1>2, <1>3, <2>1
    <3>2. j # m
      BY <1>3, <2>4, <3>1 DEF EvInv, Stacked
    <3>3. FrameOK(i)
      BY <3>1 DEF EvInv, Stacked
    <3>4. evEmission[j].state = "dispatching"
      BY <2>4, <3>3, FramesDiffer DEF FrameOK
    <3> QED  BY <1>6, <3>2, <3>4
  <2> QED  BY <1>1, <1>6, <1>7, <2>2, <2>3, <2>4, EvPops
<1>9. EvShaped'
  <2>1. \A y \in EvExecs : ExecOK(evExec'[y]) /\ evExec'[y].parent = evExec[y].parent
    BY <1>1 DEF EvInv, EvShaped
  <2>2. evExec'[Request].stage = "running"
    BY <1>1 DEF EvInv, EvShaped
  <2> QED  BY <1>6, <1>7, <1>8, <2>1, <2>2, EvShapes
<1>10. Awaiting'
  <2>1. ASSUME NEW y \in EvHandled PROVE AwaitingOf(y)'
    <3>1. evExec[y].parent \in DOMAIN evEmission
      BY DEF EvInv, EvShaped
    <3> QED  BY <1>1, <1>6, <3>1, EvAwaitingStays
  <2> QED  BY <1>7, <2>1 DEF Awaiting
<1>11. FulfilledAfterAll'
  <2>1. Fulfilled(evEmission'[m])
    <3>1. evEmission'[m].async = evEmission[m].async
      BY <1>3, <1>6
    <3>2. s = "done" => (~evEmission[m].async \/ evEmission[m].waiting = {})
      BY <1>4
    <3> QED  BY <1>5, <3>1, <3>2 DEF Fulfilled
  <2> QED  BY <1>6, <2>1 DEF EvInv, FulfilledAfterAll
<1> QED  BY <1>8, <1>9, <1>10, <1>11 DEF EvInv

LEMMA EvEmits ==
    ASSUME EvInv, NEW x \in EvExecs, Emit(x) PROVE EvInv'
<1>1. UNCHANGED <<evHandlers, evStored>>
  BY DEF Emit
<1>2. PICK e : /\ EmissionOK(e) /\ e.state = "dispatching" /\ evEmission' = Append(evEmission, e)
  <2> DEFINE d == [by |-> x, event |-> NextEmission(x).event, async |-> NextEmission(x).async,
                   profile |-> evProfileIn[evBranch[x]],
                   todo |-> ListenersOf(NextEmission(x).event), waiting |-> {}, state |-> "dispatching",
                   failed |-> FALSE]
  <2>1. evEmission' = Append(evEmission, d)
    BY DEF Emit
  <2>2. EmissionOK(d) /\ d.state = "dispatching"
    BY DEF EmissionOK
  <2> QED  BY <2>1, <2>2
<1>3. PICK m \in Nat : m = Len(evEmission) + 1
  BY SeqFacts DEF EvInv, EvShaped
<1>4. /\ IsSeq(evEmission') /\ DOMAIN evEmission' = DOMAIN evEmission \cup {m}
      /\ m \notin DOMAIN evEmission
      /\ evEmission'[m] = e /\ \A k \in DOMAIN evEmission : evEmission'[k] = evEmission[k]
  <2>1. IsSeq(evEmission) /\ Len(evEmission) \in Nat /\ DOMAIN evEmission = 1..Len(evEmission)
    BY SeqFacts DEF EvInv, EvShaped
  <2>2. /\ IsSeq(evEmission') /\ Len(evEmission') = m /\ evEmission'[m] = e
        /\ \A k \in 1..Len(evEmission) : evEmission'[k] = evEmission[k]
    BY <1>2, <1>3, <2>1, AppendFacts
  <2>3. DOMAIN evEmission' = 1..m
    BY <2>2, SeqFacts
  <2> QED  BY <1>3, <2>1, <2>2, <2>3
<1>5. OnlyExec(x) /\ evExec'[x].stage = evExec[x].stage
  <2>1. PICK emitted : emitted = evExec[x].emitted + 1
    OBVIOUS
  <2>2. evExec' = [evExec EXCEPT ![x].emitted = emitted]
    BY <2>1 DEF Emit
  <2> QED  BY <2>2, EvExecEmits
<1>6. /\ EvExecs' = EvExecs /\ EvHandled' = EvHandled /\ EvHandled \subseteq EvExecs
      /\ \A y \in EvExecs : /\ ExecOK(evExec'[y]) /\ evExec'[y].handler = evExec[y].handler
                            /\ evExec'[y].parent = evExec[y].parent
                            /\ evExec'[y].stage = evExec[y].stage
  BY <1>5 DEF OnlyExec, EvHandled
<1>7. IsSeq(evStack') /\ Stacked'
  <2>1. PICK f : f = EmissionFrame(m)
    OBVIOUS
  <2>2. evStack' = Append(evStack, f)
    BY <1>3, <2>1 DEF Emit, EmissionFrame
  <2>3. \A i \in EvFrames : evStack[i] # f
    <3> SUFFICES ASSUME NEW i \in EvFrames PROVE evStack[i] # f
      OBVIOUS
    <3>1. FrameOK(i)
      BY DEF EvInv, Stacked
    <3> QED  BY <1>4, <2>1, <3>1, FramesDiffer DEF FrameOK
  <2>4. \E k \in DOMAIN evEmission' : f = EmissionFrame(k) /\ evEmission'[k].state = "dispatching"
    BY <1>2, <1>4, <2>1
  <2>5. \A k \in DOMAIN evEmission : evEmission'[k].state = evEmission[k].state
    BY <1>4
  <2> QED  BY <1>4, <1>6, <2>2, <2>3, <2>4, <2>5, EvPushes
<1>8. EvShaped'
  <2>1. \A k \in DOMAIN evEmission' : EmissionOK(evEmission'[k])
    BY <1>2, <1>4 DEF EvInv, EvShaped
  <2>2. evExec'[Request].stage = "running"
    BY <1>6 DEF EvInv, EvShaped
  <2> QED  BY <1>4, <1>6, <1>7, <2>1, <2>2, EvShapes
<1>9. Awaiting'
  <2>1. ASSUME NEW y \in EvHandled PROVE AwaitingOf(y)'
    <3>1. evExec[y].parent \in DOMAIN evEmission
      BY DEF EvInv, EvShaped
    <3> QED  BY <1>1, <1>4, <1>6, <3>1, EvAwaitingStays
  <2> QED  BY <1>6, <2>1 DEF Awaiting
<1>10. FulfilledAfterAll'
  <2>1. Fulfilled(e)
    BY <1>2 DEF Fulfilled
  <2> QED  BY <1>4, <2>1 DEF EvInv, FulfilledAfterAll
<1> QED  BY <1>7, <1>8, <1>9, <1>10 DEF EvInv

LEMMA EvCalls ==
    ASSUME EvInv, NEW m, CallHandler(m) PROVE EvInv'
<1>1. OnTop("emission", m) /\ UNCHANGED <<evHandlers, evStored>>
  BY DEF CallHandler
<1>2. /\ Len(evStack) \in Nat /\ evStack # <<>> /\ evStack[Len(evStack)] = EmissionFrame(m)
      /\ m \in DOMAIN evEmission
  BY <1>1, EvTopEmission
<1>3. PICK x \in Nat : x = Cardinality(EvExecs)
  BY DEF EvInv, EvShaped
<1>4. EvExecs = 0..(x - 1) /\ Request \in EvExecs /\ x \notin EvExecs
  BY <1>3 DEF EvInv, EvShaped
<1>5. PICK r : /\ ExecOK(r) /\ r.parent = m /\ r.stage = "running"
               /\ evExec' = [k \in DOMAIN evExec \cup {x} |-> IF k = x THEN r ELSE evExec[k]]
  <2> DEFINE h == Head(evEmission[m].todo)
             parent == evEmission[m].by
             q == [handler |-> h, owner |-> IF WrappedHandler(h) THEN x ELSE evExec[parent].owner,
                   parent |-> m, emitted |-> 0, stage |-> "running", failed |-> FALSE]
  <2>1. evExec' = [k \in DOMAIN evExec \cup {x} |-> IF k = x THEN q ELSE evExec[k]]
    BY <1>3 DEF CallHandler
  <2>2. ExecOK(q) /\ q.parent = m /\ q.stage = "running"
    BY DEF ExecOK, EvStages
  <2> HIDE DEF q
  <2> QED  BY <2>1, <2>2
<1>6. /\ EvExecs' = EvExecs \cup {x} /\ EvHandled' = EvHandled \cup {x} /\ x \notin EvHandled
      /\ evExec'[x] = r /\ \A y \in EvExecs : evExec'[y] = evExec[y]
      /\ EvHandled \subseteq EvExecs
  BY <1>4, <1>5 DEF EvExecs, EvHandled
<1>7. Cardinality(EvExecs') = x + 1 /\ EvExecs' = 0..x
  <2>1. EvExecs' = 0..x
    BY <1>4, <1>6
  <2>2. Cardinality(0..x) = x - 0 + 1
    BY FS_Interval
  <2> QED  BY <2>1, <2>2
<1>8. /\ OnlyEmission(m) /\ evEmission'[m].waiting = evEmission[m].waiting
      /\ evEmission'[m].state = evEmission[m].state /\ evEmission'[m].failed = evEmission[m].failed
  <2>1. PICK todo : todo = Tail(evEmission[m].todo)
    OBVIOUS
  <2>2. evEmission' = [evEmission EXCEPT ![m].todo = todo]
    BY <2>1 DEF CallHandler
  <2> QED  BY <1>2, <2>2, EvEmissionCalls
<1>9. /\ IsSeq(evEmission') /\ DOMAIN evEmission' = DOMAIN evEmission
      /\ \A k \in DOMAIN evEmission : /\ EmissionOK(evEmission'[k])
                                      /\ evEmission'[k].async = evEmission[k].async
                                      /\ evEmission'[k].waiting = evEmission[k].waiting
                                      /\ evEmission'[k].state = evEmission[k].state
                                      /\ evEmission'[k].failed = evEmission[k].failed
  BY <1>8 DEF OnlyEmission
<1>10. IsSeq(evStack') /\ Stacked'
  <2>1. PICK f : f = ExecFrame(x)
    OBVIOUS
  <2>2. evStack' = Append(evStack, f)
    BY <1>3, <2>1 DEF CallHandler, ExecFrame
  <2>3. \A i \in EvFrames : evStack[i] # f
    <3> SUFFICES ASSUME NEW i \in EvFrames PROVE evStack[i] # f
      OBVIOUS
    <3>1. FrameOK(i)
      BY DEF EvInv, Stacked
    <3> QED  BY <1>6, <2>1, <3>1, FramesDiffer DEF FrameOK
  <2>4. \E y \in EvHandled' : /\ f = ExecFrame(y) /\ evExec'[y].stage = "running" /\ evStack # <<>>
                              /\ evStack[Len(evStack)] = EmissionFrame(evExec'[y].parent)
    BY <1>2, <1>5, <1>6, <2>1
  <2>5. \A k \in DOMAIN evEmission : evEmission'[k].state = evEmission[k].state
    BY <1>9
  <2>6. \A y \in EvHandled : evExec'[y].parent = evExec[y].parent /\ evExec'[y].stage = evExec[y].stage
    BY <1>6
  <2>7. \A y \in EvHandled' \ EvHandled : f = ExecFrame(y)
    BY <1>6, <2>1
  <2> QED  BY <1>6, <1>9, <2>2, <2>3, <2>4, <2>5, <2>6, <2>7, EvPushes
<1>11. EvShaped'
  <2>1. \A y \in EvExecs' : ExecOK(evExec'[y])
    BY <1>5, <1>6 DEF EvInv, EvShaped
  <2>2. \A y \in EvHandled' : evExec'[y].parent \in DOMAIN evEmission'
    BY <1>2, <1>5, <1>6, <1>9 DEF EvInv, EvShaped
  <2>3. Request \in EvExecs' /\ evExec'[Request].stage = "running"
    BY <1>4, <1>6 DEF EvInv, EvShaped
  <2>4. Cardinality(EvExecs') \in Nat /\ EvExecs' = 0..(Cardinality(EvExecs') - 1)
    BY <1>7
  <2> QED  BY <1>9, <1>10, <2>1, <2>2, <2>3, <2>4 DEF EvShaped
<1>12. Awaiting'
  <2>1. ASSUME NEW y \in EvHandled PROVE AwaitingOf(y)'
    <3>1. evExec[y].parent \in DOMAIN evEmission /\ evExec'[y] = evExec[y]
      BY <1>6 DEF EvInv, EvShaped
    <3> QED  BY <1>1, <1>9, <3>1, EvAwaitingStays
  <2>2. AwaitingOf(x)'
    BY <1>5, <1>6 DEF AwaitingOf
  <2> QED  BY <1>6, <2>1, <2>2 DEF Awaiting
<1>13. FulfilledAfterAll'
  BY <1>9 DEF EvInv, FulfilledAfterAll, Fulfilled
<1> QED  BY <1>10, <1>11, <1>12, <1>13 DEF EvInv

LEMMA EvStutters == ASSUME EvInv, UNCHANGED evVars PROVE EvInv'
<1>1. UNCHANGED <<evHandlers, evExec, evEmission, evStack, evStored>>
  BY DEF evVars
<1>2. EvShaped' /\ Stacked' /\ FulfilledAfterAll'
  BY <1>1 DEF EvInv, EvShaped, Stacked, FulfilledAfterAll, EvExecs, EvHandled, EvFrames, FrameOK
<1>3. EvHandled' = EvHandled /\ \A y \in EvHandled : AwaitingOf(y)'
  BY <1>1, EvAwaitingStays DEF EvHandled, EvExecs
<1> QED  BY <1>2, <1>3 DEF EvInv, Awaiting

LEMMA EvStep == ASSUME EvInv, [EvNext]_evVars PROVE EvInv'
<1>1. CASE UNCHANGED evVars
  BY <1>1, EvStutters
<1>2. ASSUME NEW x \in EvExecs, Emit(x) PROVE EvInv'
  BY <1>2, EvEmits
<1>3. ASSUME NEW x \in EvExecs, ReturnSync(x) PROVE EvInv'
  BY <1>3, EvReturnsSync
<1>4. ASSUME NEW x \in EvExecs, ThrowSync(x) PROVE EvInv'
  BY <1>4, EvThrowsSync
<1>5. ASSUME NEW x \in EvExecs, Await(x) PROVE EvInv'
  BY <1>5, EvAwaits
<1>6. ASSUME NEW x \in EvExecs, ScheduledPersist(x) PROVE EvInv'
  BY <1>6, EvSchedules
<1>7. ASSUME NEW x \in EvExecs, NEW b \in BOOLEAN, HandlerSettles(x, b) \/ HandlerPersisted(x, b)
      PROVE  EvInv'
  BY <1>7, EvSettles
<1>8. ASSUME NEW m \in DOMAIN evEmission, CallHandler(m) PROVE EvInv'
  BY <1>8, EvCalls
<1>9. ASSUME NEW m \in DOMAIN evEmission, EmissionReturns(m) PROVE EvInv'
  BY <1>9, EvEmissionReturns
<1> QED  BY <1>1, <1>2, <1>3, <1>4, <1>5, <1>6, <1>7, <1>8, <1>9 DEF EvNext

(* When emitAsync fulfils, every awaiting handler it called and the        *)
(* profiler wraps has its profile stored, unless the save failed: whatever *)
(* the handlers emit in turn, and for any number of them.                  *)
THEOREM AwaitedStored == EvSpec => []AwaitedHandlersStored
<1>1. EvInv /\ [EvNext]_evVars => EvInv'
  BY EvStep
<1>2. EvInv => AwaitedHandlersStored
  BY EvEnough
<1> QED  BY <1>1, <1>2, EvInitially, PTL DEF EvSpec

-----------------------------------------------------------------------------
(* MongoCommands: the save that holds mongoose's lock is the only one under*)
(* way, and its override stays on the document: those of the saves it      *)
(* refuses were put above it, and each brings back what it found.          *)

MgStages == {"new", "running", "sent", "over", "settled", "closed"}
MgSents == MgKinds \cup {MgNone, "insertOne", "end", "error", "close"}
MgCounts == Nat \cup {MgNone}
MgHolders == MgCalls \cup {MgNone}
MgCallType == [stage : MgStages, refusedBy : MgHolders, late : BOOLEAN, insert : BOOLEAN,
               sent : MgSents, update : Nat, count : MgCounts, at : Nat]
MgDocuments == [isNew : BOOLEAN, edit : Nat, saving : MgHolders, overrides : Seq(MgCalls)]

MgTyped ==
    /\ mgKind \in [MgCalls -> MgKinds]
    /\ mgCall \in [MgCalls -> MgCallType]
    /\ mgDocument \in MgDocuments
    /\ mgOwnDelta \in [MgCalls -> Seq(MgCalls)]
    /\ mgDelta \in [MgCalls -> [computed : BOOLEAN, update : Nat]]
    /\ mgEdits \in Nat /\ mgNow \in Nat /\ IsSeq(mgEntries)

Flying(c) ==
    mgKind[c] = "save" /\ mgCall[c].stage \in {"running", "sent"} /\ mgCall[c].refusedBy = MgNone
On(c, s) == \E i \in DOMAIN s : s[i] = c

(* What is known of a save from where it stands.                           *)
SaveOK(c) ==
    /\ mgDocument.saving = c <=> Flying(c)
    /\ mgCall[c].refusedBy # MgNone =>
         mgKind[c] = "save" /\ mgCall[c].stage \in {"running", "settled"}
    /\ mgCall[c].stage = "over" => mgKind[c] = "save"
    /\ mgKind[c] # "cursor" /\ mgCall[c].stage \in {"new", "running"} =>
         mgCall[c].sent = MgNone /\ mgCall[c].update = 0
    /\ mgKind[c] = "save" =>
         /\ mgCall[c].count \in {1, MgNone}
         /\ mgCall[c].stage \in {"new", "running", "sent"} => mgCall[c].count = MgNone
    /\ Flying(c) /\ mgCall[c].stage = "running" => (mgCall[c].insert <=> mgDocument.isNew)

(* A save that was sent was sent as its override saw it, unless another    *)
(* one's finally took that override away.                                  *)
AsSent(c) ==
    IF mgCall[c].insert THEN mgCall[c].sent = "insertOne" /\ mgCall[c].update = 0
    ELSE ~mgCall[c].late =>
           /\ mgDelta[c].computed /\ mgDelta[c].update = mgCall[c].update
           /\ mgCall[c].sent = IF mgCall[c].update = 0 THEN "findOne" ELSE "updateOne"
WasSent(c) ==
    /\ mgKind[c] = "save" /\ mgCall[c].refusedBy = MgNone
    /\ \/ mgCall[c].stage = "sent"
       \/ mgCall[c].stage = "over" /\ mgCall[c].count # MgNone

(* The override of the save under way is on the document, and is there     *)
(* again whichever of the saves it refused puts back what it found.        *)
Observed(c) ==
    Flying(c) /\ ~mgCall[c].late =>
      /\ SavesOver = {}
      /\ ~mgCall[c].insert =>
           /\ On(c, mgDocument.overrides)
           /\ \A r \in SavesRefused : ~mgCall[r].insert => On(c, mgOwnDelta[r])

Refusals ==
    \A r \in SavesRefused :
      mgCall[r].refusedBy = mgDocument.saving \/ mgCall[r].refusedBy \in SavesOver

MgSaves ==
    /\ \A c \in MgCalls : SaveOK(c) /\ (WasSent(c) => AsSent(c)) /\ Observed(c)
    /\ Refusals

EntryOK(e) ==
    /\ e.call \in MgCalls
    /\ e = [call |-> e.call, operation |-> e.operation, update |-> e.update, count |-> e.count,
            error |-> e.error, duration |-> e.duration, streaming |-> e.streaming]
    /\ mgKind[e.call] # "cursor" =>
         /\ mgCall[e.call].stage = "settled"
         /\ ~e.error =>
              /\ e.count = mgCall[e.call].count
              /\ (mgCall[e.call].late => mgCall[e.call].insert) =>
                   e.operation = mgCall[e.call].sent /\ e.update = mgCall[e.call].update
MgTold == \A i \in DOMAIN mgEntries : EntryOK(mgEntries[i])

MgInv == MgTyped /\ MgSaves /\ MgTold

LEMMA MgEnough == ASSUME MgInv PROVE MongoEntriesTellWhatWasSent
BY DEF MgInv, MgTold, EntryOK, MongoEntriesTellWhatWasSent

-----------------------------------------------------------------------------
(* The counts: the driver's answer read back is the number touched.        *)
LEMMA MgCounted ==
    ASSUME NEW c \in MgCalls, mgKind[c] \in MgKinds \ {"save", "cursor"}, NEW outcome \in MgOutcome,
           outcome.upserted <= outcome.n, outcome.upserted > 0 => mgKind[c] = "updateOne",
           outcome.reached => mgKind[c] \in {"insertMany", "bulkWrite"}
    PROVE  CountOf(c, outcome) = IF outcome.ok \/ outcome.reached THEN outcome.n ELSE MgNone
<1> DEFINE op == mgKind[c]
           n == outcome.n
           m == outcome.upserted
<1>1. n \in 0..1 /\ m \in 0..1 /\ n - m + m = n /\ outcome.ok \in BOOLEAN /\ outcome.reached \in BOOLEAN
  BY DEF MgOutcome
<1>2. CASE op \in {"insertMany", "bulkWrite"}
  BY <1>2 DEF CountOf, InsertedMany, BulkWriteCount
<1>3. CASE op \notin {"insertMany", "bulkWrite"}
  <2>1. CountOf(c, outcome) = IF outcome.ok THEN ResultCount(op, DriverResult(op, n, m)) ELSE MgNone
    BY <1>3 DEF CountOf
  <2>2. ResultCount(op, DriverResult(op, n, m)) = n
    <3>1. CASE op \in {"find", "aggregate"}
      BY <3>1 DEF ResultCount, DriverResult
    <3>2. CASE op = "findOne"
      BY <1>1, <3>2 DEF ResultCount, DriverResult
    <3>3. CASE op = "countDocuments"
      BY <3>3 DEF ResultCount, DriverResult
    <3>4. CASE op = "updateOne"
      <4>1. PICK a : a = [matchedCount |-> n - m, modifiedCount |-> n - m, upsertedCount |-> m]
        OBVIOUS
      <4>2. AcknowledgedCount(a) = n
        BY <1>1, <4>1 DEF AcknowledgedCount
      <4>3. DriverResult(op, n, m) = [is |-> "ack", ack |-> a]
        BY <3>4, <4>1 DEF DriverResult
      <4> QED  BY <3>4, <4>2, <4>3 DEF ResultCount
    <3>5. CASE op = "deleteMany"
      <4>1. PICK a : a = [deletedCount |-> n]
        OBVIOUS
      <4>2. AcknowledgedCount(a) = n
        BY <4>1 DEF AcknowledgedCount
      <4>3. DriverResult(op, n, m) = [is |-> "ack", ack |-> a]
        BY <3>5, <4>1 DEF DriverResult
      <4> QED  BY <3>5, <4>2, <4>3 DEF ResultCount
    <3> QED  BY <1>3, <3>1, <3>2, <3>3, <3>4, <3>5 DEF MgKinds, MgQueryOps
  <2> QED  BY <1>1, <1>3, <2>1, <2>2
<1> QED  BY <1>2, <1>3

-----------------------------------------------------------------------------
(* One call moves.                                                         *)
OnlyCall(c) ==
    /\ mgCall' \in [MgCalls -> MgCallType]
    /\ \A j \in MgCalls \ {c} : mgCall'[j] = mgCall[j]

LEMMA MgStrings ==
    /\ \A k \in MgKinds : k \in MgSents
    /\ MgNone \in MgSents /\ {"insertOne", "findOne", "updateOne", "end", "error", "close"} \subseteq MgSents
    /\ {"new", "running", "sent", "over", "settled", "closed"} \subseteq MgStages
BY DEF MgSents, MgKinds, MgQueryOps, MgStages

LEMMA MgNames == MgNone # "insertOne"
BY MgAssumption

LEMMA MgStarts ==
    ASSUME MgTyped, NEW c \in MgCalls, NEW p \in MgHolders, NEW l \in BOOLEAN, NEW b \in BOOLEAN,
           Started(c, p, l, b)
    PROVE  /\ OnlyCall(c) /\ mgCall'[c].stage = "running" /\ mgCall'[c].refusedBy = p
           /\ (mgCall'[c].late <=> l) /\ (mgCall'[c].insert <=> b)
           /\ mgCall'[c].sent = mgCall[c].sent /\ mgCall'[c].update = mgCall[c].update
           /\ mgCall'[c].count = mgCall[c].count
<1>1. PICK q \in MgCallType, stage \in MgStages, at \in Nat :
        q = mgCall[c] /\ stage = "running" /\ at = mgNow
  BY MgStrings DEF MgTyped
<1>2. PICK q1 : q1 = [q EXCEPT !.stage = stage, !.refusedBy = p]
  OBVIOUS
<1>3. PICK q2 : q2 = [q1 EXCEPT !.late = l]
  OBVIOUS
<1>4. PICK q3 : q3 = [q2 EXCEPT !.insert = b]
  OBVIOUS
<1>5. PICK r : r = [q3 EXCEPT !.at = at]
  OBVIOUS
<1>6. /\ q1 \in MgCallType /\ q1.stage = stage /\ q1.refusedBy = p /\ q1.sent = q.sent
      /\ q1.update = q.update /\ q1.count = q.count
  BY <1>2 DEF MgCallType
<1>7. /\ q2 \in MgCallType /\ q2.stage = stage /\ q2.refusedBy = p /\ (q2.late <=> l)
      /\ q2.sent = q1.sent /\ q2.update = q1.update /\ q2.count = q1.count
  BY <1>3, <1>6 DEF MgCallType
<1>8. /\ q3 \in MgCallType /\ q3.stage = stage /\ q3.refusedBy = p /\ (q3.late <=> q2.late)
      /\ (q3.insert <=> b) /\ q3.sent = q2.sent /\ q3.update = q2.update /\ q3.count = q2.count
  BY <1>4, <1>7 DEF MgCallType
<1>9. /\ r \in MgCallType /\ r.stage = stage /\ r.refusedBy = p /\ (r.late <=> q3.late)
      /\ (r.insert <=> q3.insert) /\ r.sent = q3.sent /\ r.update = q3.update
      /\ r.count = q3.count
  BY <1>5, <1>8 DEF MgCallType
<1>10. mgCall' = [mgCall EXCEPT ![c] = r]
  BY <1>1, <1>2, <1>3, <1>4, <1>5 DEF Started
<1>11. mgCall'[c] = r /\ OnlyCall(c)
  BY <1>9, <1>10 DEF MgTyped, OnlyCall
<1> QED  BY <1>1, <1>6, <1>7, <1>8, <1>9, <1>11

(* What a command that is over left stays true.                            *)
LEMMA MgEntryStays ==
    ASSUME MgTyped, NEW c \in MgCalls, OnlyCall(c), mgKind' = mgKind,
           mgKind[c] = "cursor" \/ mgCall[c].stage # "settled", NEW e, EntryOK(e)
    PROVE  EntryOK(e)'
<1>1. e.call \in MgCalls /\ (e.call = c => mgKind[e.call] = "cursor")
  BY DEF EntryOK
<1>2. e.call # c => mgCall'[e.call] = mgCall[e.call]
  BY <1>1 DEF OnlyCall
<1> QED  BY <1>1, <1>2 DEF EntryOK

LEMMA MgToldStays ==
    ASSUME MgTyped, MgTold, NEW c \in MgCalls, OnlyCall(c), mgKind' = mgKind, mgEntries' = mgEntries,
           mgKind[c] = "cursor" \/ mgCall[c].stage # "settled"
    PROVE  IsSeq(mgEntries)' /\ MgTold'
<1>1. ASSUME NEW i \in DOMAIN mgEntries PROVE EntryOK(mgEntries[i])'
  <2>1. PICK e : e = mgEntries[i] /\ e = mgEntries'[i] /\ EntryOK(e)
    BY DEF MgTold
  <2>2. EntryOK(e)'
    BY <2>1, MgEntryStays
  <2> QED  BY <2>1, <2>2
<1> QED  BY <1>1 DEF MgTold, MgTyped

LEMMA MgAppended ==
    ASSUME MgTyped, MgTold, NEW c \in MgCalls, OnlyCall(c), mgKind' = mgKind,
           mgKind[c] = "cursor" \/ mgCall[c].stage # "settled",
           NEW e, EntryOK(e)', MgAppend(e, c)
    PROVE  IsSeq(mgEntries)' /\ MgTold'
<1>1. CASE mgEntries' = mgEntries
  BY <1>1, MgToldStays
<1>2. CASE mgEntries' = Append(mgEntries, e)
  <2>1. /\ IsSeq(mgEntries) /\ Len(mgEntries) \in Nat /\ DOMAIN mgEntries = 1..Len(mgEntries)
        /\ IsSeq(mgEntries') /\ Len(mgEntries') = Len(mgEntries) + 1
        /\ \A i \in 1..Len(mgEntries) : mgEntries'[i] = mgEntries[i]
        /\ mgEntries'[Len(mgEntries) + 1] = e
    BY <1>2, SeqFacts, AppendFacts DEF MgTyped
  <2>2. DOMAIN mgEntries' = 1..(Len(mgEntries) + 1)
    BY <2>1, SeqFacts
  <2>3. ASSUME NEW i \in DOMAIN mgEntries' PROVE EntryOK(mgEntries[i])'
    <3>1. CASE i = Len(mgEntries) + 1
      BY <2>1, <3>1
    <3>2. CASE i # Len(mgEntries) + 1
      <4>1. i \in DOMAIN mgEntries
        BY <2>1, <2>2, <3>2
      <4>2. PICK k : k = mgEntries[i] /\ k = mgEntries'[i] /\ EntryOK(k)
        BY <2>1, <4>1 DEF MgTold
      <4>3. EntryOK(k)'
        BY <4>2, MgEntryStays
      <4> QED  BY <4>2, <4>3
    <3> QED  BY <3>1, <3>2
  <2> QED  BY <2>1, <2>3 DEF MgTold
<1> QED  BY <1>1, <1>2 DEF MgAppend

-----------------------------------------------------------------------------
(* Saves.                                                                  *)
LEMMA MgSets ==
    /\ \A c : c \in SavesOver <=> c \in MgCalls /\ mgKind[c] = "save" /\ mgCall[c].stage = "over"
    /\ \A c : c \in SavesRefused <=>
                c \in MgCalls /\ mgCall[c].refusedBy # MgNone /\ mgCall[c].stage = "running"
BY DEF SavesOver, SavesRefused

(* A call that is put on a chain of overrides leaves the others on it.     *)
LEMMA MgPushed ==
    ASSUME NEW c \in MgCalls, NEW s \in Seq(MgCalls)
    PROVE  /\ <<c>> \o s \in Seq(MgCalls) /\ On(c, <<c>> \o s)
           /\ \A k : On(k, s) => On(k, <<c>> \o s)
<1>1. PICK u : u = <<c>>
  OBVIOUS
<1>2. u \in Seq(MgCalls) /\ Len(u) = 1 /\ u[1] = c /\ Len(s) \in Nat /\ DOMAIN s = 1..Len(s)
  BY <1>1
<1>3. /\ u \o s \in Seq(MgCalls) /\ Len(u \o s) = 1 + Len(s)
      /\ \A i \in 1..(1 + Len(s)) : (u \o s)[i] = IF i <= 1 THEN u[i] ELSE s[i - 1]
  <2>1. /\ u \o s \in Seq(MgCalls) /\ Len(u \o s) = Len(u) + Len(s)
        /\ \A i \in 1..(Len(u) + Len(s)) :
             (u \o s)[i] = IF i <= Len(u) THEN u[i] ELSE s[i - Len(u)]
    BY <1>2, ConcatProperties
  <2> QED  BY <1>2, <2>1
<1>4. DOMAIN (u \o s) = 1..(1 + Len(s))
  BY <1>3
<1>5. On(c, u \o s)
  <2>1. 1 \in 1..(1 + Len(s)) /\ (u \o s)[1] = u[1]
    BY <1>2, <1>3
  <2> QED  BY <1>2, <1>4, <2>1 DEF On
<1>6. ASSUME NEW k, On(k, s) PROVE On(k, u \o s)
  <2>1. PICK i \in 1..Len(s) : s[i] = k
    BY <1>2, <1>6 DEF On
  <2>2. i + 1 \in 1..(1 + Len(s)) /\ ~(i + 1 <= 1) /\ (i + 1) - 1 = i
    BY <1>2
  <2>3. (u \o s)[i + 1] = k
    BY <1>3, <2>1, <2>2
  <2> QED  BY <1>4, <2>2, <2>3 DEF On
<1> QED  BY <1>1, <1>3, <1>5, <1>6

(* A command that is no save leaves the saves as they are.                 *)
LEMMA MgSavesStay ==
    ASSUME MgTyped, MgSaves, NEW c \in MgCalls, OnlyCall(c), mgKind[c] # "save",
           mgCall'[c].refusedBy = MgNone, mgCall'[c].stage # "over",
           \/ mgKind[c] = "cursor" \/ mgCall'[c].stage = "settled"
           \/ mgCall'[c].sent = MgNone /\ mgCall'[c].update = 0,
           UNCHANGED <<mgKind, mgDocument, mgOwnDelta, mgDelta>>
    PROVE  MgSaves'
<1>1. mgCall[c].refusedBy = MgNone /\ ~Flying(c) /\ ~Flying(c)' /\ ~WasSent(c)'
  BY DEF MgSaves, SaveOK, Flying, WasSent
<1>2. /\ SavesOver' = SavesOver /\ SavesRefused' = SavesRefused
      /\ \A r \in SavesRefused : mgCall'[r] = mgCall[r]
  BY <1>1 DEF SavesOver, SavesRefused, OnlyCall
<1>3. ASSUME NEW k \in MgCalls PROVE (SaveOK(k) /\ (WasSent(k) => AsSent(k)) /\ Observed(k))'
  <2>0. SaveOK(k) /\ (WasSent(k) => AsSent(k)) /\ Observed(k)
    BY DEF MgSaves
  <2>1. CASE k = c
    BY <1>1, <2>0, <2>1 DEF SaveOK, Observed
  <2>2. CASE k # c
    <3>1. mgCall'[k] = mgCall[k]
      BY <2>2 DEF OnlyCall
    <3>2. (Flying(k)' <=> Flying(k)) /\ (WasSent(k)' <=> WasSent(k)) /\ (AsSent(k)' <=> AsSent(k))
      BY <3>1 DEF Flying, WasSent, AsSent
    <3>3. SaveOK(k)'
      BY <2>0, <3>1, <3>2 DEF SaveOK
    <3>4. Observed(k)'
      BY <1>2, <2>0, <3>1, <3>2 DEF Observed
    <3> QED  BY <2>0, <3>2, <3>3, <3>4
  <2> QED  BY <2>1, <2>2
<1>4. Refusals'
  BY <1>2 DEF MgSaves, Refusals
<1> QED  BY <1>3, <1>4 DEF MgSaves

(* A save starts: it takes the lock, or is refused by the one that holds it.*)
LEMMA MgSaveStarted ==
    ASSUME MgTyped, NEW c \in MgCalls, Save(c)
    PROVE  /\ OnlyCall(c) /\ mgCall'[c].stage = "running"
           /\ mgCall'[c].refusedBy = mgDocument.saving
           /\ (mgCall'[c].late <=> SavesOver # {}) /\ (mgCall'[c].insert <=> mgDocument.isNew)
           /\ mgCall'[c].sent = mgCall[c].sent /\ mgCall'[c].update = mgCall[c].update
           /\ mgCall'[c].count = mgCall[c].count
           /\ mgDocument' \in MgDocuments /\ (mgDocument'.isNew <=> mgDocument.isNew)
           /\ mgDocument'.edit = mgDocument.edit
           /\ mgDocument'.saving = IF mgDocument.saving = MgNone THEN c ELSE mgDocument.saving
           /\ mgDocument'.overrides = IF mgDocument.isNew THEN mgDocument.overrides
                                      ELSE <<c>> \o mgDocument.overrides
           /\ mgOwnDelta' \in [MgCalls -> Seq(MgCalls)]
           /\ \A k \in MgCalls \ {c} : mgOwnDelta'[k] = mgOwnDelta[k]
           /\ ~mgDocument.isNew => mgOwnDelta'[c] = mgDocument.overrides
<1>1. PICK p \in MgHolders, s \in Seq(MgCalls) : p = mgDocument.saving /\ s = mgDocument.overrides
  BY DEF MgTyped, MgDocuments
<1>2. PICK l \in BOOLEAN : l = (SavesOver # {})
  OBVIOUS
<1>3. PICK b \in BOOLEAN : b = mgDocument.isNew
  BY DEF MgTyped, MgDocuments
<1>4. Started(c, p, l, b)
  BY <1>1, <1>2, <1>3 DEF Save
<1>5. <<c>> \o s \in Seq(MgCalls)
  BY MgPushed
<1>6. PICK saving \in MgHolders, overrides \in Seq(MgCalls) :
        /\ saving = IF p = MgNone THEN c ELSE p
        /\ overrides = IF b THEN s ELSE <<c>> \o s
  BY <1>5 DEF MgHolders
<1>7. mgDocument' = [mgDocument EXCEPT !.saving = saving, !.overrides = overrides]
  BY <1>1, <1>3, <1>6 DEF Save, MgTyped, MgDocuments
<1>8. /\ mgDocument' \in MgDocuments /\ (mgDocument'.isNew <=> mgDocument.isNew)
      /\ mgDocument'.edit = mgDocument.edit /\ mgDocument'.saving = saving
      /\ mgDocument'.overrides = overrides
  BY <1>7 DEF MgTyped, MgDocuments
<1>9. mgOwnDelta' = IF b THEN mgOwnDelta ELSE [mgOwnDelta EXCEPT ![c] = s]
  BY <1>1, <1>3 DEF Save
<1>10. /\ mgOwnDelta' \in [MgCalls -> Seq(MgCalls)]
       /\ \A k \in MgCalls \ {c} : mgOwnDelta'[k] = mgOwnDelta[k]
       /\ ~b => mgOwnDelta'[c] = s
  <2>1. mgOwnDelta \in [MgCalls -> Seq(MgCalls)]
    BY DEF MgTyped
  <2> QED  BY <1>9, <2>1
<1>11. /\ OnlyCall(c) /\ mgCall'[c].stage = "running" /\ mgCall'[c].refusedBy = p
       /\ (mgCall'[c].late <=> l) /\ (mgCall'[c].insert <=> b)
       /\ mgCall'[c].sent = mgCall[c].sent /\ mgCall'[c].update = mgCall[c].update
       /\ mgCall'[c].count = mgCall[c].count
  BY <1>4, MgStarts
<1> QED  BY <1>1, <1>2, <1>3, <1>6, <1>8, <1>10, <1>11

LEMMA MgSaveStarts ==
    ASSUME MgInv, NEW c \in MgCalls, Save(c) PROVE MgInv'
<1>1. /\ mgKind[c] = "save" /\ mgCall[c].stage = "new"
      /\ UNCHANGED <<mgKind, mgDelta, mgEdits, mgNow, mgEntries>>
      /\ MgTyped /\ MgSaves /\ MgTold
  BY DEF Save, MgInv
<1>2. /\ OnlyCall(c) /\ mgCall'[c].stage = "running" /\ mgCall'[c].refusedBy = mgDocument.saving
      /\ (mgCall'[c].late <=> SavesOver # {}) /\ (mgCall'[c].insert <=> mgDocument.isNew)
  BY <1>1, MgSaveStarted
<1>3. /\ mgCall'[c].sent = MgNone /\ mgCall'[c].update = 0 /\ mgCall'[c].count = MgNone
  <2>1. SaveOK(c)
    BY <1>1 DEF MgSaves
  <2>2. /\ mgCall'[c].sent = mgCall[c].sent /\ mgCall'[c].update = mgCall[c].update
        /\ mgCall'[c].count = mgCall[c].count
    BY <1>1, MgSaveStarted
  <2> QED  BY <1>1, <2>1, <2>2 DEF SaveOK
<1>4. /\ mgDocument' \in MgDocuments /\ (mgDocument'.isNew <=> mgDocument.isNew)
      /\ mgDocument'.saving = IF mgDocument.saving = MgNone THEN c ELSE mgDocument.saving
      /\ mgOwnDelta' \in [MgCalls -> Seq(MgCalls)]
  BY <1>1, MgSaveStarted
<1>5. IsSeq(mgEntries)' /\ MgTold'
  BY <1>1, <1>2, MgToldStays
<1>6. MgTyped'
  BY <1>1, <1>2, <1>4, <1>5 DEF MgTyped, OnlyCall
<1>7. mgDocument.saving \in MgHolders /\ mgDocument.saving # c /\ c # MgNone
      /\ ~Flying(c) /\ ~WasSent(c)'
  BY <1>1, <1>2, MgAssumption DEF MgTyped, MgDocuments, MgSaves, SaveOK, Flying, WasSent
<1>8. /\ SavesOver' = SavesOver
      /\ SavesRefused' = IF mgDocument.saving = MgNone THEN SavesRefused ELSE SavesRefused \cup {c}
      /\ c \notin SavesRefused /\ \A r \in SavesRefused : mgCall'[r] = mgCall[r]
  BY <1>1, <1>2 DEF SavesOver, SavesRefused, OnlyCall
<1>9. \A k \in MgCalls : On(k, mgDocument.overrides) => On(k, mgDocument'.overrides)
  <2>1. PICK s \in Seq(MgCalls) : s = mgDocument.overrides
    BY <1>1 DEF MgTyped, MgDocuments
  <2>2. mgDocument'.overrides = s \/ mgDocument'.overrides = <<c>> \o s
    BY <1>1, <2>1, MgSaveStarted
  <2>3. \A k : On(k, s) => On(k, <<c>> \o s)
    BY MgPushed
  <2> QED  BY <2>1, <2>2, <2>3
<1>10. ~mgDocument.isNew => On(c, mgDocument'.overrides)
  <2> SUFFICES ASSUME ~mgDocument.isNew PROVE On(c, mgDocument'.overrides)
    OBVIOUS
  <2>1. PICK s \in Seq(MgCalls) : s = mgDocument.overrides
    BY <1>1 DEF MgTyped, MgDocuments
  <2>2. mgDocument'.overrides = <<c>> \o s
    BY <1>1, <2>1, MgSaveStarted
  <2>3. On(c, <<c>> \o s)
    BY MgPushed
  <2> QED  BY <2>2, <2>3
<1>11. ASSUME NEW k \in MgCalls PROVE (SaveOK(k) /\ (WasSent(k) => AsSent(k)) /\ Observed(k))'
  <2>0. SaveOK(k) /\ (WasSent(k) => AsSent(k)) /\ Observed(k)
    BY <1>1 DEF MgSaves
  <2>1. CASE k = c
    <3>1. Flying(c)' <=> mgDocument.saving = MgNone
      BY <1>1, <1>2 DEF Flying
    <3>2. mgDocument'.saving = c <=> Flying(c)'
      BY <1>4, <1>7, <3>1
    <3>3. SaveOK(c)'
      BY <1>1, <1>2, <1>3, <1>4, <3>2 DEF SaveOK
    <3>4. ASSUME Flying(c)', SavesOver = {} PROVE SavesRefused' = {}
      BY <1>1, <1>8, <3>1, <3>4 DEF MgSaves, Refusals, SavesRefused
    <3>5. Observed(c)'
      BY <1>2, <1>8, <1>10, <3>4 DEF Observed
    <3> QED  BY <1>7, <2>1, <3>3, <3>5
  <2>2. CASE k # c
    <3>1. mgCall'[k] = mgCall[k] /\ mgOwnDelta'[k] = mgOwnDelta[k]
      BY <1>1, <1>2, <2>2, MgSaveStarted DEF OnlyCall
    <3>2. (Flying(k)' <=> Flying(k)) /\ (WasSent(k)' <=> WasSent(k)) /\ (AsSent(k)' <=> AsSent(k))
      BY <1>1, <3>1 DEF Flying, WasSent, AsSent
    <3>3. mgDocument'.saving = k <=> Flying(k)'
      BY <1>4, <2>0, <2>2, <3>2, MgAssumption DEF SaveOK
    <3>4. SaveOK(k)'
      BY <1>1, <1>4, <2>0, <3>1, <3>2, <3>3 DEF SaveOK
    <3>5. ASSUME Flying(k), ~mgCall[k].late, ~mgCall[k].insert, NEW r \in SavesRefused',
                 ~mgCall'[r].insert
          PROVE  On(k, mgOwnDelta'[r])
      <4>1. /\ On(k, mgDocument.overrides)
            /\ \A q \in SavesRefused : ~mgCall[q].insert => On(k, mgOwnDelta[q])
        BY <2>0, <3>5 DEF Observed
      <4>2. CASE r = c
        <5>1. mgOwnDelta'[c] = mgDocument.overrides
          BY <1>1, <1>2, <3>5, <4>2, MgSaveStarted
        <5> QED  BY <4>1, <4>2, <5>1
      <4>3. CASE r # c
        <5>1. r \in SavesRefused /\ r \in MgCalls /\ ~mgCall[r].insert
          BY <1>8, <3>5, <4>3 DEF SavesRefused
        <5>2. mgOwnDelta'[r] = mgOwnDelta[r]
          BY <1>1, <4>3, <5>1, MgSaveStarted
        <5> QED  BY <4>1, <5>1, <5>2
      <4> QED  BY <4>2, <4>3
    <3>6. Observed(k)'
      BY <1>8, <1>9, <2>0, <3>1, <3>2, <3>5 DEF Observed
    <3> QED  BY <2>0, <3>2, <3>4, <3>6
  <2> QED  BY <2>1, <2>2
<1>12. ASSUME NEW r \in SavesRefused'
       PROVE  mgCall'[r].refusedBy = mgDocument'.saving \/ mgCall'[r].refusedBy \in SavesOver'
  <2>1. CASE r = c
    <3>1. mgDocument.saving # MgNone
      BY <1>8, <2>1, <1>12
    <3> QED  BY <1>2, <1>4, <2>1, <3>1
  <2>2. CASE r # c
    <3>1. r \in SavesRefused /\ mgCall'[r] = mgCall[r] /\ mgCall[r].refusedBy # MgNone
      BY <1>8, <1>12, <2>2 DEF SavesRefused
    <3>2. mgCall[r].refusedBy = mgDocument.saving \/ mgCall[r].refusedBy \in SavesOver
      BY <1>1, <3>1 DEF MgSaves, Refusals
    <3> QED  BY <1>4, <1>8, <3>1, <3>2
  <2> QED  BY <2>1, <2>2
<1>13. MgSaves'
  BY <1>11, <1>12 DEF MgSaves, Refusals
<1> QED  BY <1>5, <1>6, <1>13 DEF MgInv

(* A save is sent: its call, the edit it took, the delta every override    *)
(* on the document saw.                                                    *)
LEMMA MgSent ==
    ASSUME MgTyped, NEW c \in MgCalls, SendSave(c)
    PROVE  /\ OnlyCall(c) /\ mgCall'[c].stage = "sent"
           /\ mgCall'[c].refusedBy = mgCall[c].refusedBy /\ mgCall'[c].late = mgCall[c].late
           /\ mgCall'[c].insert = mgCall[c].insert /\ mgCall'[c].count = mgCall[c].count
           /\ mgDocument' = [mgDocument EXCEPT !.isNew = FALSE, !.edit = 0]
           /\ mgDocument.isNew => /\ mgCall'[c].sent = "insertOne" /\ mgDelta' = mgDelta
                                  /\ mgCall'[c].update = mgCall[c].update
           /\ ~mgDocument.isNew =>
                /\ mgCall'[c].update = mgDocument.edit
                /\ mgCall'[c].sent = IF mgDocument.edit = 0 THEN "findOne" ELSE "updateOne"
                /\ \A k \in MgCalls :
                     mgDelta'[k] = IF \E i \in DOMAIN mgDocument.overrides : mgDocument.overrides[i] = k
                                   THEN [computed |-> TRUE, update |-> mgDocument.edit] ELSE mgDelta[k]
           /\ mgDelta' \in [MgCalls -> [computed : BOOLEAN, update : Nat]]
<1>0. mgDocument = [isNew |-> mgDocument.isNew, edit |-> mgDocument.edit,
                    saving |-> mgDocument.saving, overrides |-> mgDocument.overrides] /\ mgDocument.edit \in Nat
  BY DEF MgTyped, MgDocuments
<1>1. PICK q \in MgCallType, edit \in Nat, one \in MgStages, insertOne \in MgSents,
           other \in MgSents :
        /\ q = mgCall[c] /\ edit = mgDocument.edit /\ one = "sent" /\ insertOne = "insertOne"
        /\ other = IF edit = 0 THEN "findOne" ELSE "updateOne"
  <2>1. mgCall[c] \in MgCallType /\ mgDocument.edit \in Nat
    BY DEF MgTyped, MgDocuments
  <2> QED  BY <2>1, MgStrings
<1>2. CASE mgDocument.isNew
  <2>1. PICK r : r = [q EXCEPT !.stage = one, !.sent = insertOne]
    OBVIOUS
  <2>2. /\ r \in MgCallType /\ r.stage = one /\ r.sent = insertOne /\ r.update = q.update
        /\ r.refusedBy = q.refusedBy /\ r.late = q.late /\ r.insert = q.insert /\ r.count = q.count
    BY <2>1 DEF MgCallType
  <2>3. mgCall' = [mgCall EXCEPT ![c] = r]
    BY <1>1, <1>2, <2>1 DEF SendSave
  <2>4. mgDocument' = [mgDocument EXCEPT !.isNew = FALSE, !.edit = 0] /\ mgDelta' = mgDelta
    BY <1>2 DEF SendSave
  <2> QED  BY <1>1, <1>2, <2>2, <2>3, <2>4 DEF MgTyped, OnlyCall
<1>3. CASE ~mgDocument.isNew
  <2>1. PICK r : r = [q EXCEPT !.stage = one, !.update = edit, !.sent = other]
    OBVIOUS
  <2>2. /\ r \in MgCallType /\ r.stage = one /\ r.sent = other /\ r.update = edit
        /\ r.refusedBy = q.refusedBy /\ r.late = q.late /\ r.insert = q.insert /\ r.count = q.count
    BY <2>1 DEF MgCallType
  <2>3. mgCall' = [mgCall EXCEPT ![c] = r]
    BY <1>1, <1>3, <2>1 DEF SendSave
  <2>4. mgDocument' = [mgDocument EXCEPT !.isNew = FALSE, !.edit = 0]
    <3>1. mgDocument' = [mgDocument EXCEPT !.edit = 0]
      BY <1>3 DEF SendSave
    <3>2. mgDocument.isNew = FALSE
      BY <1>3 DEF MgTyped, MgDocuments
    <3> QED  BY <1>0, <3>1, <3>2
  <2>5. mgDelta' = [k \in MgCalls |->
                      IF \E i \in DOMAIN mgDocument.overrides : mgDocument.overrides[i] = k
                      THEN [computed |-> TRUE, update |-> mgDocument.edit] ELSE mgDelta[k]]
    BY <1>3 DEF SendSave
  <2>6. mgDelta' \in [MgCalls -> [computed : BOOLEAN, update : Nat]]
    BY <1>0, <2>5 DEF MgTyped
  <2> QED  BY <1>1, <1>3, <2>2, <2>3, <2>4, <2>5, <2>6 DEF MgTyped, OnlyCall
<1> QED  BY <1>2, <1>3

LEMMA MgSaveSent ==
    ASSUME MgInv, NEW c \in MgCalls, SendSave(c) PROVE MgInv'
<1>1. /\ mgDocument.saving = c /\ mgCall[c].stage = "running" /\ SavesOver = {}
      /\ UNCHANGED <<mgKind, mgOwnDelta, mgEdits, mgNow, mgEntries>>
      /\ MgTyped /\ MgSaves /\ MgTold
  BY DEF SendSave, MgInv
<1>2. Flying(c) /\ (mgCall[c].insert <=> mgDocument.isNew) /\ mgCall[c].update = 0 /\ mgKind[c] = "save"
      /\ mgCall[c].count = MgNone /\ Observed(c)
  BY <1>1 DEF MgSaves, SaveOK, Flying
<1>3. /\ OnlyCall(c) /\ mgCall'[c].stage = "sent"
      /\ mgCall'[c].refusedBy = MgNone /\ mgCall'[c].late = mgCall[c].late
      /\ mgCall'[c].insert = mgCall[c].insert /\ mgCall'[c].count = MgNone
      /\ mgDelta' \in [MgCalls -> [computed : BOOLEAN, update : Nat]]
  BY <1>1, <1>2, MgSent DEF Flying
<1>4. /\ mgDocument' \in MgDocuments /\ mgDocument'.saving = mgDocument.saving
      /\ mgDocument'.overrides = mgDocument.overrides
  <2>1. mgDocument' = [mgDocument EXCEPT !.isNew = FALSE, !.edit = 0]
    BY <1>1, MgSent
  <2> QED  BY <1>1, <2>1 DEF MgTyped, MgDocuments
<1>5. IsSeq(mgEntries)' /\ MgTold'
  BY <1>1, <1>3, MgToldStays
<1>6. MgTyped'
  BY <1>1, <1>3, <1>4, <1>5 DEF MgTyped, OnlyCall
<1>7. /\ SavesOver' = {} /\ SavesRefused' = SavesRefused
      /\ \A r \in SavesRefused : mgCall'[r] = mgCall[r]
  BY <1>1, <1>2, <1>3 DEF SavesOver, SavesRefused, OnlyCall, Flying
<1>8. Flying(c)'
  BY <1>1, <1>2, <1>3 DEF Flying
<1>9. AsSent(c)'
  <2>1. CASE mgCall[c].insert
    <3>1. mgCall'[c].sent = "insertOne" /\ mgCall'[c].update = 0
      BY <1>1, <1>2, <2>1, MgSent
    <3> QED  BY <1>3, <2>1, <3>1 DEF AsSent
  <2>2. CASE ~mgCall[c].insert
    <3>1. /\ mgCall'[c].update = mgDocument.edit
          /\ mgCall'[c].sent = IF mgDocument.edit = 0 THEN "findOne" ELSE "updateOne"
          /\ On(c, mgDocument.overrides) => mgDelta'[c] = [computed |-> TRUE, update |-> mgDocument.edit]
      BY <1>1, <1>2, <2>2, MgSent DEF On
    <3>2. ~mgCall[c].late => On(c, mgDocument.overrides)
      BY <1>2, <2>2 DEF Observed
    <3> QED  BY <1>3, <2>2, <3>1, <3>2 DEF AsSent
  <2> QED  BY <2>1, <2>2
<1>10. ASSUME NEW k \in MgCalls PROVE (SaveOK(k) /\ (WasSent(k) => AsSent(k)) /\ Observed(k))'
  <2>1. CASE k = c
    <3>1. SaveOK(c)'
      BY <1>1, <1>2, <1>3, <1>4, <1>8 DEF SaveOK
    <3>2. Observed(c)'
      BY <1>1, <1>2, <1>3, <1>4, <1>7 DEF Observed
    <3> QED  BY <1>9, <2>1, <3>1, <3>2
  <2>2. CASE k # c
    <3>0. SaveOK(k) /\ mgCall'[k] = mgCall[k]
      BY <1>1, <1>3, <2>2 DEF OnlyCall, MgSaves
    <3>1. ~Flying(k) /\ ~Flying(k)'
      BY <1>1, <2>2, <3>0 DEF SaveOK, Flying
    <3>2. SaveOK(k)'
      BY <1>1, <1>4, <2>2, <3>0, <3>1 DEF SaveOK
    <3>3. ~WasSent(k)'
      BY <1>1, <3>0, <3>1 DEF WasSent, Flying, SavesOver
    <3> QED  BY <3>1, <3>2, <3>3 DEF Observed
  <2> QED  BY <2>1, <2>2
<1>11. Refusals'
  BY <1>1, <1>4, <1>7 DEF MgSaves, Refusals
<1> QED  BY <1>5, <1>6, <1>10, <1>11 DEF MgInv, MgSaves

(* Mongoose ends a save: the document is free, the call is over.           *)
LEMMA MgEnded ==
    ASSUME MgTyped, NEW c \in MgCalls, NEW ok \in BOOLEAN, SaveEnds(c, ok)
    PROVE  /\ OnlyCall(c) /\ mgCall'[c].stage = "over"
           /\ mgCall'[c].count = (IF ok THEN 1 ELSE MgNone)
           /\ mgCall'[c].sent = mgCall[c].sent /\ mgCall'[c].update = mgCall[c].update
           /\ mgCall'[c].refusedBy = mgCall[c].refusedBy /\ mgCall'[c].late = mgCall[c].late
           /\ mgCall'[c].insert = mgCall[c].insert
           /\ mgDocument' \in MgDocuments /\ mgDocument'.saving = MgNone
           /\ mgDocument'.overrides = mgDocument.overrides
<1>1. PICK q \in MgCallType, stage \in MgStages, count \in MgCounts :
        q = mgCall[c] /\ stage = "over" /\ count = IF ok THEN 1 ELSE MgNone
  BY MgStrings DEF MgTyped, MgCounts
<1>2. PICK r : r = [q EXCEPT !.stage = stage, !.count = count]
  OBVIOUS
<1>3. /\ r \in MgCallType /\ r.stage = stage /\ r.count = count /\ r.sent = q.sent
      /\ r.update = q.update /\ r.refusedBy = q.refusedBy /\ r.late = q.late /\ r.insert = q.insert
  BY <1>2 DEF MgCallType
<1>4. mgCall' = [mgCall EXCEPT ![c] = r]
  BY <1>1, <1>2 DEF SaveEnds
<1>5. mgCall'[c] = r /\ OnlyCall(c)
  BY <1>3, <1>4 DEF MgTyped, OnlyCall
<1>6. PICK isNew \in BOOLEAN : isNew = (mgDocument.isNew \/ (mgCall[c].sent = "insertOne" /\ ~ok))
  BY DEF MgTyped, MgDocuments
<1>7. PICK edit \in Nat : edit = IF ~ok /\ mgDocument.edit = 0 THEN mgCall[c].update ELSE mgDocument.edit
  BY DEF MgTyped, MgDocuments, MgCallType
<1>8. PICK free \in MgHolders : free = MgNone
  BY DEF MgHolders
<1>9. mgDocument' = [mgDocument EXCEPT !.isNew = isNew, !.edit = edit, !.saving = free]
  BY <1>6, <1>7, <1>8 DEF SaveEnds, MgTyped, MgDocuments
<1>10. /\ mgDocument' \in MgDocuments /\ mgDocument'.saving = free
       /\ mgDocument'.overrides = mgDocument.overrides
  BY <1>9 DEF MgTyped, MgDocuments
<1> QED  BY <1>1, <1>3, <1>5, <1>8, <1>10

LEMMA MgSaveEnds ==
    ASSUME MgInv, NEW c \in MgCalls, NEW ok \in BOOLEAN, SaveEnds(c, ok) PROVE MgInv'
<1>1. /\ mgDocument.saving = c /\ mgCall[c].stage \in {"running", "sent"}
      /\ mgCall[c].stage = "running" => ~ok
      /\ UNCHANGED <<mgKind, mgOwnDelta, mgDelta, mgEdits, mgNow, mgEntries>>
      /\ MgTyped /\ MgSaves /\ MgTold
  BY DEF SaveEnds, MgInv
<1>2. Flying(c) /\ SaveOK(c) /\ (WasSent(c) => AsSent(c)) /\ mgKind[c] = "save"
  BY <1>1 DEF MgSaves, SaveOK, Flying
<1>3. /\ OnlyCall(c) /\ mgCall'[c].stage = "over" /\ mgCall'[c].count = (IF ok THEN 1 ELSE MgNone)
      /\ mgCall'[c].sent = mgCall[c].sent /\ mgCall'[c].update = mgCall[c].update
      /\ mgCall'[c].refusedBy = MgNone /\ mgCall'[c].late = mgCall[c].late
      /\ mgCall'[c].insert = mgCall[c].insert
      /\ mgDocument' \in MgDocuments /\ mgDocument'.saving = MgNone
  BY <1>1, <1>2, MgEnded DEF Flying
<1>4. IsSeq(mgEntries)' /\ MgTold'
  BY <1>1, <1>3, MgToldStays
<1>5. MgTyped'
  BY <1>1, <1>3, <1>4 DEF MgTyped, OnlyCall
<1>6. /\ SavesOver' = SavesOver \cup {c} /\ SavesRefused' = SavesRefused
      /\ \A r \in SavesRefused : mgCall'[r] = mgCall[r]
  BY <1>1, <1>2, <1>3 DEF SavesOver, SavesRefused, OnlyCall, Flying
<1>7. WasSent(c)' => AsSent(c)'
  <2>1. WasSent(c)' => ok
    BY <1>3 DEF WasSent
  <2>2. ok => AsSent(c)
    BY <1>1, <1>2 DEF WasSent, Flying
  <2>3. AsSent(c) => AsSent(c)'
    BY <1>1, <1>3 DEF AsSent
  <2> QED  BY <2>1, <2>2, <2>3
<1>8. \A k \in MgCalls : k # mgDocument'.saving
  BY <1>3, MgAssumption
<1>9. ASSUME NEW k \in MgCalls PROVE (SaveOK(k) /\ (WasSent(k) => AsSent(k)) /\ ~Flying(k))'
  <2>1. CASE k = c
    <3>1. ~Flying(c)'
      BY <1>3 DEF Flying
    <3> QED  BY <1>1, <1>2, <1>3, <1>7, <1>8, <2>1, <3>1 DEF SaveOK
  <2>2. CASE k # c
    <3>0. SaveOK(k) /\ (WasSent(k) => AsSent(k)) /\ mgCall'[k] = mgCall[k]
      BY <1>1, <1>3, <2>2 DEF OnlyCall, MgSaves
    <3>1. ~Flying(k)'
      BY <1>1, <2>2, <3>0 DEF SaveOK, Flying
    <3>2. SaveOK(k)'
      BY <1>1, <1>8, <3>0, <3>1 DEF SaveOK
    <3>3. (WasSent(k)' <=> WasSent(k)) /\ (AsSent(k)' <=> AsSent(k))
      BY <1>1, <3>0 DEF WasSent, AsSent
    <3> QED  BY <3>0, <3>1, <3>2, <3>3
  <2> QED  BY <2>1, <2>2
<1>10. \A k \in MgCalls : Observed(k)'
  BY <1>9 DEF Observed
<1>11. Refusals'
  BY <1>1, <1>6 DEF MgSaves, Refusals
<1> QED  BY <1>4, <1>5, <1>9, <1>10, <1>11 DEF MgInv, MgSaves

(* The wrapper hears of it: the call keeps what was sent for it.           *)
LEMMA MgSettles ==
    ASSUME MgTyped, NEW c \in MgCalls, SettleSave(c)
    PROVE  /\ OnlyCall(c) /\ mgCall'[c].stage = "settled" /\ mgCall'[c].count = mgCall[c].count
           /\ mgCall'[c].sent = mgCall[c].sent /\ mgCall'[c].update = mgCall[c].update
           /\ mgCall'[c].refusedBy = mgCall[c].refusedBy /\ mgCall'[c].late = mgCall[c].late
           /\ mgCall'[c].insert = mgCall[c].insert
<1>1. PICK q \in MgCallType, stage \in MgStages : q = mgCall[c] /\ stage = "settled"
  BY MgStrings DEF MgTyped
<1>2. PICK r : r = [q EXCEPT !.stage = stage]
  OBVIOUS
<1>3. /\ r \in MgCallType /\ r.stage = stage /\ r.count = q.count /\ r.sent = q.sent
      /\ r.update = q.update /\ r.refusedBy = q.refusedBy /\ r.late = q.late /\ r.insert = q.insert
  BY <1>2 DEF MgCallType
<1>4. mgCall' = [mgCall EXCEPT ![c] = r]
  BY <1>1, <1>2 DEF SettleSave
<1> QED  BY <1>1, <1>3, <1>4 DEF MgTyped, OnlyCall

LEMMA MgDescribed ==
    ASSUME MgInv, NEW c \in MgCalls, SettleSave(c), NEW e, e = DescribeSave(c)
    PROVE  EntryOK(e)'
<1>1. mgKind' = mgKind /\ (c \in SavesRefused \/ c \in SavesOver) /\ SaveOK(c)
      /\ (WasSent(c) => AsSent(c))
  BY DEF SettleSave, MgInv, MgSaves
<1>2. /\ mgCall'[c].stage = "settled" /\ mgCall'[c].count = mgCall[c].count
      /\ mgCall'[c].sent = mgCall[c].sent /\ mgCall'[c].update = mgCall[c].update
      /\ mgCall'[c].late = mgCall[c].late /\ mgCall'[c].insert = mgCall[c].insert
  BY MgSettles DEF MgInv
<1>3. PICK ok \in BOOLEAN : ok = (mgCall[c].count # MgNone)
  OBVIOUS
<1>4. /\ mgKind[c] = "save" /\ (ok => mgCall[c].count = 1)
      /\ ok => WasSent(c)
  BY <1>1, <1>3 DEF SaveOK, WasSent, SavesRefused, SavesOver
<1>5. PICK count : count = IF ok THEN 1 ELSE MgNone
  OBVIOUS
<1>6. PICK error : error = ~ok
  OBVIOUS
<1>7. PICK operation, update :
        /\ e = MgEntry(c, operation, update, count, error)
        /\ ok /\ (mgCall[c].late => mgCall[c].insert) =>
             operation = mgCall[c].sent /\ update = mgCall[c].update
  <2>1. CASE mgCall[c].insert
    <3>1. e = MgEntry(c, "insertOne", 0, count, error)
      BY <1>3, <1>5, <1>6, <2>1 DEF DescribeSave
    <3>2. ok => mgCall[c].sent = "insertOne" /\ mgCall[c].update = 0
      BY <1>1, <1>4, <2>1 DEF AsSent
    <3> QED  BY <3>1, <3>2
  <2>2. CASE ~mgCall[c].insert
    <3>1. e = IF mgDelta[c].update = 0 /\ mgDelta[c].computed
              THEN MgEntry(c, "findOne", 0, count, error)
              ELSE MgEntry(c, "updateOne", mgDelta[c].update, count, error)
      BY <1>3, <1>5, <1>6, <2>2 DEF DescribeSave
    <3>2. ok /\ ~mgCall[c].late =>
            /\ mgDelta[c].computed /\ mgDelta[c].update = mgCall[c].update
            /\ mgCall[c].sent = IF mgCall[c].update = 0 THEN "findOne" ELSE "updateOne"
      BY <1>1, <1>4, <2>2 DEF AsSent
    <3>3. CASE mgDelta[c].update = 0 /\ mgDelta[c].computed
      BY <2>2, <3>1, <3>2, <3>3
    <3>4. CASE ~(mgDelta[c].update = 0 /\ mgDelta[c].computed)
      BY <2>2, <3>1, <3>2, <3>4
    <3> QED  BY <3>3, <3>4
  <2> QED  BY <2>1, <2>2
<1>8. /\ e.call = c /\ e.operation = operation /\ e.update = update /\ e.count = count
      /\ e.error = error
      /\ e = [call |-> e.call, operation |-> e.operation, update |-> e.update, count |-> e.count,
              error |-> e.error, duration |-> e.duration, streaming |-> e.streaming]
  BY <1>7 DEF MgEntry
<1>9. ~e.error => ok
  BY <1>6, <1>8
<1> QED  BY <1>1, <1>2, <1>4, <1>5, <1>7, <1>8, <1>9 DEF EntryOK

LEMMA MgSaveSettles ==
    ASSUME MgInv, NEW c \in MgCalls, SettleSave(c) PROVE MgInv'
<1>1. /\ (c \in SavesRefused \/ c \in SavesOver) /\ \A r \in SavesRefused : mgCall[r].refusedBy # c
      /\ UNCHANGED <<mgKind, mgOwnDelta, mgDelta, mgEdits, mgNow>>
      /\ MgTyped /\ MgSaves /\ MgTold
  BY DEF SettleSave, MgInv
<1>2. /\ OnlyCall(c) /\ mgCall'[c].stage = "settled" /\ mgCall'[c].count = mgCall[c].count
      /\ mgCall'[c].refusedBy = mgCall[c].refusedBy
  BY <1>1, MgSettles
<1>3. mgKind[c] = "save" /\ mgCall[c].stage \in {"running", "over"} /\ SaveOK(c)
  BY <1>1 DEF MgSaves, SaveOK, SavesRefused, SavesOver
<1>4. ~Flying(c) /\ ~Flying(c)' /\ mgDocument.saving # c
  BY <1>1, <1>2, <1>3 DEF Flying, SaveOK, SavesRefused, SavesOver
<1>5. PICK e : e = DescribeSave(c) /\ MgAppend(e, c)
  BY DEF SettleSave
<1>6. IsSeq(mgEntries)' /\ MgTold'
  BY <1>1, <1>2, <1>3, <1>5, MgDescribed, MgAppended
<1>7. PICK s \in Seq(MgCalls) : s = mgOwnDelta[c]
  BY <1>1 DEF MgTyped
<1>8. \/ mgDocument' = mgDocument
      \/ ~mgCall[c].insert /\ mgDocument' = [mgDocument EXCEPT !.overrides = s]
  BY <1>7 DEF SettleSave, RestoredDelta
<1>9. /\ mgDocument' \in MgDocuments /\ (mgDocument'.isNew <=> mgDocument.isNew)
      /\ mgDocument'.saving = mgDocument.saving
      /\ \/ mgDocument'.overrides = mgDocument.overrides
         \/ ~mgCall[c].insert /\ mgDocument'.overrides = mgOwnDelta[c]
  BY <1>1, <1>7, <1>8 DEF MgTyped, MgDocuments
<1>10. MgTyped'
  BY <1>1, <1>2, <1>6, <1>9 DEF MgTyped, OnlyCall
<1>11. /\ SavesOver' = SavesOver \ {c} /\ SavesRefused' = SavesRefused \ {c}
       /\ \A r \in SavesRefused \ {c} : mgCall'[r] = mgCall[r]
  BY <1>1, <1>2 DEF SavesOver, SavesRefused, OnlyCall
<1>12. ASSUME NEW k \in MgCalls PROVE (SaveOK(k) /\ (WasSent(k) => AsSent(k)) /\ Observed(k))'
  <2>1. CASE k = c
    <3>1. SaveOK(c)'
      BY <1>1, <1>2, <1>3, <1>4, <1>9 DEF SaveOK
    <3>2. ~WasSent(c)'
      BY <1>2 DEF WasSent
    <3> QED  BY <1>4, <2>1, <3>1, <3>2 DEF Observed
  <2>2. CASE k # c
    <3>0. mgCall'[k] = mgCall[k] /\ SaveOK(k) /\ (WasSent(k) => AsSent(k)) /\ Observed(k)
      BY <1>1, <1>2, <2>2 DEF OnlyCall, MgSaves
    <3>1. (Flying(k)' <=> Flying(k)) /\ (WasSent(k)' <=> WasSent(k)) /\ (AsSent(k)' <=> AsSent(k))
      BY <1>1, <3>0 DEF Flying, WasSent, AsSent
    <3>2. SaveOK(k)'
      BY <1>1, <1>9, <3>0, <3>1 DEF SaveOK
    <3>3. ASSUME Flying(k), ~mgCall[k].late, ~mgCall[k].insert PROVE On(k, mgDocument'.overrides)
      <4>1. /\ SavesOver = {} /\ On(k, mgDocument.overrides)
            /\ \A r \in SavesRefused : ~mgCall[r].insert => On(k, mgOwnDelta[r])
        BY <3>0, <3>3 DEF Observed
      <4>2. c \in SavesRefused
        BY <1>1, <4>1
      <4> QED  BY <1>9, <4>1, <4>2
    <3>4. Observed(k)'
      BY <1>1, <1>11, <3>0, <3>1, <3>3 DEF Observed
    <3> QED  BY <3>0, <3>1, <3>2, <3>4
  <2> QED  BY <2>1, <2>2
<1>13. Refusals'
  BY <1>1, <1>9, <1>11 DEF MgSaves, Refusals
<1> QED  BY <1>6, <1>10, <1>12, <1>13 DEF MgInv, MgSaves

-----------------------------------------------------------------------------
(* The other commands.                                                     *)
LEMMA MgOthers ==
    ASSUME MgInv, NEW c \in MgCalls, OnlyCall(c), mgKind[c] # "save",
           mgCall'[c].refusedBy = MgNone, mgCall'[c].stage # "over",
           \/ mgKind[c] = "cursor" \/ mgCall'[c].stage = "settled"
           \/ mgCall'[c].sent = MgNone /\ mgCall'[c].update = 0,
           UNCHANGED <<mgKind, mgDocument, mgOwnDelta, mgDelta, mgEdits>>, mgNow' \in Nat,
           IsSeq(mgEntries)', MgTold'
    PROVE  MgInv'
<1>1. MgSaves'
  BY MgSavesStay DEF MgInv
<1>2. MgTyped'
  BY DEF MgInv, MgTyped, OnlyCall
<1> QED  BY <1>1, <1>2 DEF MgInv

LEMMA MgExecutes == ASSUME MgInv, NEW c \in MgCalls, Exec(c) PROVE MgInv'
<1>1. /\ mgKind[c] \notin {"save", "cursor"} /\ mgCall[c].stage = "new" /\ MgTyped /\ MgTold
      /\ UNCHANGED <<mgKind, mgDocument, mgOwnDelta, mgDelta, mgEdits, mgNow, mgEntries>>
  BY DEF Exec, MgInv
<1>2. PICK no \in BOOLEAN, nobody \in MgHolders : ~no /\ nobody = MgNone
  BY DEF MgHolders
<1>3. Started(c, nobody, no, no)
  <2>1. no = FALSE
    BY <1>2
  <2> QED  BY <1>2, <2>1 DEF Exec
<1>4. OnlyCall(c) /\ mgCall'[c].refusedBy = MgNone /\ mgCall'[c].stage = "running"
      /\ mgCall'[c].sent = mgCall[c].sent /\ mgCall'[c].update = mgCall[c].update
  BY <1>1, <1>2, <1>3, MgStarts
<1>5. IsSeq(mgEntries)' /\ MgTold'
  BY <1>1, <1>4, MgToldStays
<1>6. mgCall[c].sent = MgNone /\ mgCall[c].update = 0
  BY <1>1 DEF MgInv, MgSaves, SaveOK
<1> QED  BY <1>1, <1>4, <1>5, <1>6, MgOthers DEF MgTyped

LEMMA MgExecSettles ==
    ASSUME MgInv, NEW c \in MgCalls, NEW outcome \in MgOutcome, outcome.upserted <= outcome.n,
           SettleExec(c, outcome)
    PROVE  MgInv'
<1>1. /\ mgKind[c] \in MgKinds \ {"save", "cursor"} /\ mgCall[c].stage = "running"
      /\ outcome.reached => mgKind[c] \in {"insertMany", "bulkWrite"}
      /\ outcome.upserted > 0 => mgKind[c] = "updateOne"
      /\ UNCHANGED <<mgKind, mgDocument, mgOwnDelta, mgDelta, mgEdits, mgNow>>
      /\ MgTyped /\ MgSaves /\ MgTold
  BY DEF SettleExec, MgInv, MgTyped
<1>2. PICK count \in MgCounts : count = IF outcome.ok \/ outcome.reached THEN outcome.n ELSE MgNone
  <2>1. outcome.n \in MgCounts /\ MgNone \in MgCounts
    BY DEF MgOutcome, MgCounts
  <2> QED  BY <2>1
<1>3. CountOf(c, outcome) = count
  BY <1>1, <1>2, MgCounted
<1>4. PICK q \in MgCallType, stage \in MgStages, kind \in MgSents :
        q = mgCall[c] /\ stage = "settled" /\ kind = mgKind[c]
  BY <1>1, MgStrings DEF MgTyped
<1>5. PICK r : r = [q EXCEPT !.stage = stage, !.sent = kind, !.count = count]
  OBVIOUS
<1>6. /\ r \in MgCallType /\ r.stage = stage /\ r.sent = kind /\ r.count = count
      /\ r.update = q.update /\ r.refusedBy = q.refusedBy
  BY <1>5 DEF MgCallType
<1>7. mgCall' = [mgCall EXCEPT ![c] = r]
  BY <1>2, <1>4, <1>5 DEF SettleExec
<1>8. mgCall'[c] = r /\ OnlyCall(c)
  BY <1>6, <1>7, <1>1 DEF MgTyped, OnlyCall
<1>9. PICK error : error = ~outcome.ok
  OBVIOUS
<1>10. PICK e : e = MgEntry(c, kind, 0, count, error)
  OBVIOUS
<1>11. MgAppend(e, c)
  BY <1>3, <1>4, <1>9, <1>10 DEF SettleExec
<1>12. EntryOK(e)'
  <2>1. /\ e.call = c /\ e.operation = kind /\ e.update = 0 /\ e.count = count
        /\ e = [call |-> e.call, operation |-> e.operation, update |-> e.update, count |-> e.count,
                error |-> e.error, duration |-> e.duration, streaming |-> e.streaming]
    BY <1>10 DEF MgEntry
  <2>2. q.update = 0
    BY <1>1, <1>4 DEF MgSaves, SaveOK
  <2> QED  BY <1>1, <1>4, <1>6, <1>8, <2>1, <2>2 DEF EntryOK
<1>13. IsSeq(mgEntries)' /\ MgTold'
  BY <1>1, <1>8, <1>11, <1>12, MgAppended
<1>14. mgCall'[c].refusedBy = MgNone /\ mgCall'[c].stage = "settled"
  BY <1>1, <1>4, <1>6, <1>8 DEF MgSaves, SaveOK
<1> QED  BY <1>1, <1>4, <1>6, <1>8, <1>13, <1>14, MgOthers DEF MgTyped

LEMMA MgCursorOpens == ASSUME MgInv, NEW c \in MgCalls, OpenCursor(c) PROVE MgInv'
<1>1. /\ mgKind[c] = "cursor" /\ mgKind[c] # "save" /\ MgTyped /\ MgTold
      /\ UNCHANGED <<mgKind, mgDocument, mgOwnDelta, mgDelta, mgEdits, mgNow>>
  BY DEF OpenCursor, MgInv
<1>2. PICK no \in BOOLEAN, nobody \in MgHolders : ~no /\ nobody = MgNone
  BY DEF MgHolders
<1>3. Started(c, nobody, no, no)
  <2>1. no = FALSE
    BY <1>2
  <2> QED  BY <1>2, <2>1 DEF OpenCursor
<1>4. OnlyCall(c) /\ mgCall'[c].refusedBy = MgNone /\ mgCall'[c].stage = "running"
  BY <1>1, <1>2, <1>3, MgStarts
<1>5. PICK e : e = [MgEntry(c, "find", 0, MgNone, FALSE) EXCEPT !.duration = 0]
  OBVIOUS
<1>6. e.call = c
      /\ e = [call |-> e.call, operation |-> e.operation, update |-> e.update, count |-> e.count,
              error |-> e.error, duration |-> e.duration, streaming |-> e.streaming]
  BY <1>5 DEF MgEntry
<1>7. EntryOK(e)' /\ MgAppend(e, c)
  BY <1>1, <1>5, <1>6 DEF EntryOK, OpenCursor
<1>8. IsSeq(mgEntries)' /\ MgTold'
  BY <1>1, <1>4, <1>7, MgAppended
<1> QED  BY <1>1, <1>4, <1>8, MgOthers DEF MgTyped

LEMMA FunIsSeq ==
    ASSUME NEW f, NEW n \in Nat, f = [i \in 1..n |-> f[i]]
    PROVE  IsSeq(f)
<1>1. PICK S : S = {f[i] : i \in 1..n}
  OBVIOUS
<1>2. f \in [1..n -> S]
  BY <1>1
<1>3. f \in Seq(S)
  BY <1>2, SeqDef
<1> QED  BY <1>3 DEF IsSeq

LEMMA MgCursorEnds ==
    ASSUME MgInv, NEW c \in MgCalls, NEW event \in {"end", "error", "close"}, CursorEvent(c, event)
    PROVE  MgInv'
<1>1. /\ mgKind[c] = "cursor" /\ mgKind[c] # "save" /\ MgTyped /\ MgTold /\ MgSaves
      /\ UNCHANGED <<mgKind, mgDocument, mgOwnDelta, mgDelta, mgEdits, mgNow>>
  BY DEF CursorEvent, MgInv
<1>2. OnlyCall(c) /\ mgCall'[c].refusedBy = MgNone /\ mgCall'[c].stage # "over"
  <2>1. PICK q \in MgCallType, stage \in MgStages, sent \in MgSents, update \in Nat :
          /\ q = mgCall[c] /\ stage = IF event = "close" THEN "closed" ELSE "settled"
          /\ sent = (IF q.sent = MgNone THEN event ELSE q.sent)
          /\ update = IF q.stage = "running" THEN mgNow ELSE q.update
    <3>1. mgCall[c] \in MgCallType /\ event \in MgSents /\ mgNow \in Nat
      BY <1>1, MgStrings DEF MgTyped
    <3> QED  BY <3>1, MgStrings DEF MgCallType
  <2>2. PICK r : r = [q EXCEPT !.stage = stage, !.sent = sent, !.update = update]
    OBVIOUS
  <2>3. r \in MgCallType /\ r.refusedBy = q.refusedBy /\ r.stage = stage
    BY <2>2 DEF MgCallType
  <2>4. mgCall' = [mgCall EXCEPT ![c] = r]
    BY <2>1, <2>2 DEF CursorEvent
  <2>5. q.refusedBy = MgNone
    BY <1>1, <2>1 DEF MgSaves, SaveOK
  <2> QED  BY <1>1, <2>1, <2>3, <2>4, <2>5 DEF MgTyped, OnlyCall
<1>3. IsSeq(mgEntries)' /\ MgTold'
  <2>1. CASE mgEntries' = mgEntries
    BY <1>1, <1>2, <2>1, MgToldStays
  <2>2. CASE mgEntries' # mgEntries
    <3>1. PICK failed : failed = (event = "error")
      OBVIOUS
    <3>2. mgEntries' = [i \in DOMAIN mgEntries |->
                          IF mgEntries[i].call # c THEN mgEntries[i]
                          ELSE [mgEntries[i] EXCEPT !.duration = mgNow - mgCall[c].at, !.error = failed]]
      BY <2>2, <3>1 DEF CursorEvent, CursorFinalized
    <3>3. PICK n \in Nat : DOMAIN mgEntries = 1..n /\ DOMAIN mgEntries' = 1..n
      BY <1>1, <3>2, SeqFacts DEF MgTyped
    <3>4. IsSeq(mgEntries')
      BY <3>2, <3>3, FunIsSeq
    <3>5. ASSUME NEW i \in DOMAIN mgEntries PROVE EntryOK(mgEntries[i])'
      <4>1. PICK k, z : k = mgEntries[i] /\ EntryOK(k) /\ z = mgEntries'[i]
        BY <1>1 DEF MgTold
      <4>2. EntryOK(k)'
        BY <1>1, <1>2, <4>1, MgEntryStays
      <4>3. CASE k.call # c
        <5>1. z = k
          BY <3>2, <4>1, <4>3
        <5> QED  BY <4>1, <4>2, <5>1
      <4>4. CASE k.call = c
        <5>1. PICK duration : duration = mgNow - mgCall[c].at
          OBVIOUS
        <5>2. z = [k EXCEPT !.duration = duration, !.error = failed]
          BY <3>2, <4>1, <4>4, <5>1
        <5>3. z.call = c
              /\ z = [call |-> z.call, operation |-> z.operation, update |-> z.update,
                      count |-> z.count, error |-> z.error, duration |-> z.duration,
                      streaming |-> z.streaming]
          BY <4>1, <4>4, <5>2 DEF EntryOK
        <5>4. EntryOK(z)'
          BY <1>1, <5>3 DEF EntryOK
        <5> QED  BY <4>1, <5>4
      <4> QED  BY <4>3, <4>4
    <3> QED  BY <3>3, <3>4, <3>5 DEF MgTold
  <2> QED  BY <2>1, <2>2
<1> QED  BY <1>1, <1>2, <1>3, MgOthers DEF MgTyped

(* The document is edited, or time passes: no call moves.                  *)
LEMMA MgQuietly ==
    ASSUME MgInv, UNCHANGED <<mgKind, mgCall, mgOwnDelta, mgDelta, mgEntries>>,
           mgDocument' \in MgDocuments, mgDocument'.isNew = mgDocument.isNew,
           mgDocument'.saving = mgDocument.saving, mgDocument'.overrides = mgDocument.overrides,
           mgEdits' \in Nat, mgNow' \in Nat
    PROVE  MgInv'
<1>1. MgTyped'
  BY DEF MgInv, MgTyped
<1>2. MgTold'
  BY DEF MgInv, MgTold, EntryOK
<1>3. SavesOver' = SavesOver /\ SavesRefused' = SavesRefused
  BY DEF SavesOver, SavesRefused
<1>4. ASSUME NEW k \in MgCalls PROVE (SaveOK(k) /\ (WasSent(k) => AsSent(k)) /\ Observed(k))'
  <2>1. SaveOK(k) /\ (WasSent(k) => AsSent(k)) /\ Observed(k)
    BY DEF MgInv, MgSaves
  <2>2. (Flying(k)' <=> Flying(k)) /\ (WasSent(k)' <=> WasSent(k)) /\ (AsSent(k)' <=> AsSent(k))
    BY DEF Flying, WasSent, AsSent
  <2>3. SaveOK(k)'
    BY <2>1, <2>2 DEF SaveOK
  <2>4. Observed(k)'
    BY <1>3, <2>1, <2>2 DEF Observed
  <2> QED  BY <2>1, <2>2, <2>3, <2>4
<1>5. Refusals'
  BY <1>3 DEF MgInv, MgSaves, Refusals
<1> QED  BY <1>1, <1>2, <1>4, <1>5 DEF MgInv, MgSaves

LEMMA MgEditsOrTicks ==
    ASSUME MgInv, EditDocument \/ MgTick \/ UNCHANGED mgVars PROVE MgInv'
<1>1. mgEdits \in Nat /\ mgNow \in Nat
      /\ mgDocument \in MgDocuments
  BY DEF MgInv, MgTyped
<1>2. CASE EditDocument
  BY <1>1, <1>2, MgQuietly DEF EditDocument, MgDocuments
<1>3. CASE MgTick
  BY <1>1, <1>3, MgQuietly DEF MgTick
<1>4. CASE UNCHANGED mgVars
  BY <1>1, <1>4, MgQuietly DEF mgVars
<1> QED  BY <1>2, <1>3, <1>4

LEMMA MgInitially == MgInit => MgInv
<1> SUFFICES ASSUME NEW s \in MgScenarios, MgStart(s) PROVE MgInv
  BY DEF MgInit
<1>1. /\ mgKind \in [MgCalls -> MgKinds] /\ s.isNew \in BOOLEAN
      /\ mgCall = [c \in MgCalls |-> [stage |-> "new", refusedBy |-> MgNone, late |-> FALSE,
                                      insert |-> FALSE, sent |-> MgNone, update |-> 0,
                                      count |-> MgNone, at |-> 0]]
      /\ mgDocument = [isNew |-> s.isNew, edit |-> 0, saving |-> MgNone, overrides |-> <<>>]
      /\ mgOwnDelta = [c \in MgCalls |-> <<>>]
      /\ mgDelta = [c \in MgCalls |-> [computed |-> FALSE, update |-> 0]]
      /\ mgEdits = 0 /\ mgNow = 0 /\ mgEntries = <<>>
  BY MgAssumption DEF MgStart
<1>2. /\ mgCall \in [MgCalls -> MgCallType]
      /\ \A c \in MgCalls : /\ mgCall[c].stage = "new" /\ mgCall[c].refusedBy = MgNone
                            /\ mgCall[c].sent = MgNone /\ mgCall[c].update = 0
                            /\ mgCall[c].count = MgNone
  BY <1>1, MgStrings DEF MgCallType, MgCounts, MgHolders
<1>3. <<>> \in Seq(MgCalls) /\ IsSeq(mgEntries) /\ DOMAIN mgEntries = {}
  BY <1>1 DEF IsSeq
<1>4. MgTyped
  BY <1>1, <1>2, <1>3 DEF MgTyped, MgDocuments, MgHolders
<1>5. SavesRefused = {} /\ \A c \in MgCalls : ~Flying(c) /\ ~WasSent(c) /\ mgDocument.saving # c
  BY <1>1, <1>2, MgAssumption DEF SavesRefused, Flying, WasSent
<1>6. Refusals /\ \A c \in MgCalls : SaveOK(c) /\ (WasSent(c) => AsSent(c)) /\ Observed(c)
  BY <1>2, <1>5 DEF SaveOK, Refusals, Observed
<1>7. MgTold
  BY <1>3 DEF MgTold
<1> QED  BY <1>4, <1>6, <1>7 DEF MgInv, MgSaves

LEMMA MgStep == ASSUME MgInv, [MgNext]_mgVars PROVE MgInv'
<1>1. CASE EditDocument \/ MgTick \/ UNCHANGED mgVars
  BY <1>1, MgEditsOrTicks
<1>2. ASSUME NEW c \in MgCalls, Save(c) PROVE MgInv'
  BY <1>2, MgSaveStarts
<1>3. ASSUME NEW c \in MgCalls, SendSave(c) PROVE MgInv'
  BY <1>3, MgSaveSent
<1>4. ASSUME NEW c \in MgCalls, Exec(c) PROVE MgInv'
  BY <1>4, MgExecutes
<1>5. ASSUME NEW c \in MgCalls, OpenCursor(c) PROVE MgInv'
  BY <1>5, MgCursorOpens
<1>6. ASSUME NEW c \in MgCalls, SettleSave(c) PROVE MgInv'
  BY <1>6, MgSaveSettles
<1>9. ASSUME NEW c \in MgCalls, NEW ok \in BOOLEAN, SaveEnds(c, ok) PROVE MgInv'
  BY <1>9, MgSaveEnds
<1>7. ASSUME NEW c \in MgCalls, NEW outcome \in MgOutcome, outcome.upserted <= outcome.n,
             SettleExec(c, outcome)
      PROVE  MgInv'
  BY <1>7, MgExecSettles
<1>8. ASSUME NEW c \in MgCalls, NEW event \in {"end", "error", "close"}, CursorEvent(c, event)
      PROVE  MgInv'
  BY <1>8, MgCursorEnds
<1> QED  BY <1>1, <1>2, <1>3, <1>4, <1>5, <1>6, <1>7, <1>8, <1>9 DEF MgNext

(* A command that succeeded is shown with the command, the update and the  *)
(* count mongoose really sent and got, whatever saves of the same document *)
(* overlapped it, were refused meanwhile or left their override on it: for *)
(* any number of commands, of saves refused at once, profiled or not, and  *)
(* of edits between them.  A save started in the microtasks between the end*)
(* of another one and its wrapper's finally is not covered.                *)
THEOREM MongoTold == MgSpec => []MongoEntriesTellWhatWasSent
<1>1. MgInv /\ [MgNext]_mgVars => MgInv'
  BY MgStep
<1>2. MgInv => MongoEntriesTellWhatWasSent
  BY MgEnough
<1> QED  BY <1>1, <1>2, MgInitially, PTL DEF MgSpec

-----------------------------------------------------------------------------
(* One entry for each command: which of them have theirs is known from     *)
(* where they stand, and a cursor's says how its stream ended.             *)
MgDone(c) ==
    /\ mgProfiled[c]
    /\ IF mgKind[c] = "cursor" THEN mgCall[c].stage # "new" ELSE mgCall[c].stage = "settled"

MgListed(c) ==
    IF MgDone(c) THEN \E i \in MgEntriesOf(c) : MgEntriesOf(c) = {i} ELSE MgEntriesOf(c) = {}

Ends(e, c) ==
    e.error = (mgCall[c].sent = "error") /\ e.duration = mgCall[c].update - mgCall[c].at
CursorOK(c) ==
    mgKind[c] = "cursor" =>
      /\ mgCall[c].stage # "sent"
      /\ mgCall[c].stage \in {"new", "running"} => mgCall[c].sent = MgNone
      /\ mgCall[c].stage \in {"settled", "closed"} =>
           mgCall[c].sent # MgNone /\ \A i \in MgEntriesOf(c) : Ends(mgEntries[i], c)

MgOnce ==
    /\ mgProfiled \in [MgCalls -> BOOLEAN]
    /\ \A c \in MgCalls : MgListed(c) /\ CursorOK(c)

LEMMA MgListedOnce ==
    ASSUME MgInv, MgOnce PROVE MongoOneEntryPerCommand
<1> SUFFICES ASSUME NEW c \in MgCalls
             PROVE  /\ Cardinality(MgEntriesOf(c)) =
                         IF ~mgProfiled[c] \/ mgCall[c].stage = "new" THEN 0
                         ELSE IF mgKind[c] = "cursor" \/ mgCall[c].stage = "settled" THEN 1 ELSE 0
                    /\ mgKind[c] = "cursor" /\ mgCall[c].stage \in {"settled", "closed"}
                       => \A i \in MgEntriesOf(c) :
                            /\ mgEntries[i].error = (mgCall[c].sent = "error")
                            /\ mgEntries[i].duration = mgCall[c].update - mgCall[c].at
  BY DEF MongoOneEntryPerCommand
<1>1. MgListed(c) /\ CursorOK(c)
  BY DEF MgOnce
<1>2. MgDone(c) <=> mgProfiled[c] /\ mgCall[c].stage # "new"
                    /\ (mgKind[c] = "cursor" \/ mgCall[c].stage = "settled")
  BY DEF MgDone
<1>3. Cardinality(MgEntriesOf(c)) = IF MgDone(c) THEN 1 ELSE 0
  <2>1. CASE MgDone(c)
    <3>1. PICK i : MgEntriesOf(c) = {i}
      BY <1>1, <2>1 DEF MgListed
    <3> QED  BY <2>1, <3>1, FS_Singleton
  <2>2. CASE ~MgDone(c)
    BY <1>1, <2>2, FS_EmptySet DEF MgListed
  <2> QED  BY <2>1, <2>2
<1> QED  BY <1>1, <1>2, <1>3 DEF CursorOK, Ends

(* No entry is written: the calls that move neither gain nor need one.     *)
LEMMA MgListsStay ==
    ASSUME MgTyped, MgOnce, NEW c \in MgCalls, OnlyCall(c),
           UNCHANGED <<mgKind, mgProfiled, mgEntries>>, MgDone(c)' <=> MgDone(c), CursorOK(c)'
    PROVE  MgOnce'
<1>1. ASSUME NEW d \in MgCalls PROVE MgListed(d)' /\ CursorOK(d)'
  <2>1. MgEntriesOf(d)' = MgEntriesOf(d) /\ MgListed(d) /\ CursorOK(d)
    BY DEF MgEntriesOf, MgOnce
  <2>2. CASE d = c
    BY <2>1, <2>2 DEF MgListed
  <2>3. CASE d # c
    <3>1. mgCall'[d] = mgCall[d]
      BY <2>3 DEF OnlyCall
    <3>2. MgDone(d)' <=> MgDone(d)
      BY <3>1 DEF MgDone
    <3>3. CursorOK(d)'
      BY <2>1, <3>1 DEF CursorOK, Ends
    <3> QED  BY <2>1, <3>2, <3>3 DEF MgListed
  <2> QED  BY <2>2, <2>3
<1> QED  BY <1>1 DEF MgOnce

(* A call appends its entry.                                               *)
LEMMA MgListsOne ==
    ASSUME MgTyped, MgOnce, NEW c \in MgCalls, OnlyCall(c), UNCHANGED <<mgKind, mgProfiled>>,
           ~MgDone(c), MgDone(c)' <=> mgProfiled[c], NEW e, e.call = c, MgAppend(e, c),
           mgKind[c] = "cursor" => mgCall'[c].stage = "running" /\ mgCall'[c].sent = MgNone
    PROVE  MgOnce'
<1>0. CursorOK(c)'
  BY DEF CursorOK
<1>1. CASE ~mgProfiled[c]
  <2>1. mgEntries' = mgEntries
    BY <1>1 DEF MgAppend
  <2> QED  BY <1>0, <1>1, <2>1, MgListsStay
<1>2. CASE mgProfiled[c]
  <2>1. /\ IsSeq(mgEntries) /\ Len(mgEntries) \in Nat /\ DOMAIN mgEntries = 1..Len(mgEntries)
        /\ IsSeq(mgEntries') /\ Len(mgEntries') = Len(mgEntries) + 1
        /\ \A i \in 1..Len(mgEntries) : mgEntries'[i] = mgEntries[i]
        /\ mgEntries'[Len(mgEntries) + 1] = e
    BY <1>2, SeqFacts, AppendFacts DEF MgTyped, MgAppend
  <2>2. PICK n \in Nat : n = Len(mgEntries)
    BY <2>1
  <2>3. DOMAIN mgEntries = 1..n /\ DOMAIN mgEntries' = 1..(n + 1) /\ mgEntries'[n + 1] = e
        /\ \A i \in 1..n : mgEntries'[i] = mgEntries[i]
    BY <2>1, <2>2, SeqFacts
  <2>4. ASSUME NEW d \in MgCalls PROVE MgListed(d)' /\ CursorOK(d)'
    <3>1. MgListed(d) /\ CursorOK(d)
      BY DEF MgOnce
    <3>2. CASE d = c
      <4>1. MgEntriesOf(c) = {}
        BY <3>1, <3>2 DEF MgListed
      <4>2. MgEntriesOf(c)' = {n + 1}
        <5>1. \A i \in 1..n : mgEntries[i].call # c
          BY <2>3, <4>1 DEF MgEntriesOf
        <5> QED  BY <2>2, <2>3, <5>1 DEF MgEntriesOf
      <4>3. MgDone(c)'
        BY <1>2
      <4> QED  BY <1>0, <3>2, <4>2, <4>3 DEF MgListed
    <3>3. CASE d # c
      <4>1. mgCall'[d] = mgCall[d]
        BY <3>3 DEF OnlyCall
      <4>2. (MgDone(d)' <=> MgDone(d))
        BY <4>1 DEF MgDone
      <4>3. MgEntriesOf(d)' = MgEntriesOf(d)
        BY <2>2, <2>3, <3>3 DEF MgEntriesOf
      <4>4. \A i \in MgEntriesOf(d) : mgEntries'[i] = mgEntries[i]
        BY <2>3 DEF MgEntriesOf
      <4>5. CursorOK(d)'
        BY <3>1, <4>1, <4>3, <4>4 DEF CursorOK, Ends
      <4> QED  BY <3>1, <4>2, <4>3, <4>5 DEF MgListed
    <3> QED  BY <3>2, <3>3
  <2> QED  BY <2>4 DEF MgOnce
<1> QED  BY <1>1, <1>2

LEMMA MgSaveOrSent ==
    ASSUME MgInv, MgOnce, NEW c \in MgCalls,
           \/ Save(c) \/ SendSave(c) \/ Exec(c)
           \/ \E ok \in BOOLEAN : SaveEnds(c, ok)
    PROVE  MgOnce'
<1>0. MgTyped
  BY DEF MgInv
<1>1. /\ mgKind[c] # "cursor" /\ mgCall[c].stage # "settled" /\ OnlyCall(c)
      /\ UNCHANGED <<mgKind, mgProfiled, mgEntries>> /\ mgCall'[c].stage # "settled"
  <2>0. SaveOK(c)
    BY DEF MgInv, MgSaves
  <2>1. CASE Save(c)
    <3>1. OnlyCall(c) /\ mgCall'[c].stage = "running"
      BY <1>0, <2>1, MgSaveStarted
    <3> QED  BY <2>1, <3>1 DEF Save
  <2>2. CASE SendSave(c)
    <3>1. OnlyCall(c) /\ mgCall'[c].stage = "sent"
      BY <1>0, <2>2, MgSent
    <3> QED  BY <2>0, <2>2, <3>1 DEF SendSave, SaveOK, Flying
  <2>3. CASE Exec(c)
    <3>1. PICK no \in BOOLEAN, nobody \in MgHolders : no = FALSE /\ nobody = MgNone
      BY DEF MgHolders
    <3>2. Started(c, nobody, no, no)
      BY <2>3, <3>1 DEF Exec
    <3>3. OnlyCall(c) /\ mgCall'[c].stage = "running"
      BY <1>0, <3>2, MgStarts
    <3> QED  BY <2>3, <3>3 DEF Exec
  <2>4. ASSUME NEW ok \in BOOLEAN, SaveEnds(c, ok)
        PROVE  /\ mgKind[c] # "cursor" /\ mgCall[c].stage # "settled" /\ OnlyCall(c)
               /\ UNCHANGED <<mgKind, mgProfiled, mgEntries>> /\ mgCall'[c].stage # "settled"
    <3>1. OnlyCall(c) /\ mgCall'[c].stage = "over"
      BY <1>0, <2>4, MgEnded
    <3> QED  BY <2>0, <2>4, <3>1 DEF SaveEnds, SaveOK, Flying
  <2> QED  BY <2>1, <2>2, <2>3, <2>4
<1>2. ~MgDone(c) /\ ~MgDone(c)' /\ CursorOK(c)'
  BY <1>1 DEF MgDone, CursorOK
<1> QED  BY <1>0, <1>1, <1>2, MgListsStay

LeavesItsEntry(c) ==
    /\ mgKind[c] # "cursor" /\ mgCall[c].stage # "settled" /\ OnlyCall(c)
    /\ UNCHANGED <<mgKind, mgProfiled>> /\ mgCall'[c].stage = "settled"
    /\ \E e : e.call = c /\ MgAppend(e, c)

LEMMA MgSettlesListed ==
    ASSUME MgInv, MgOnce, NEW c \in MgCalls,
           \/ SettleSave(c)
           \/ \E outcome \in MgOutcome : SettleExec(c, outcome)
    PROVE  MgOnce'
<1>0. MgTyped
  BY DEF MgInv
<1>1. LeavesItsEntry(c)
  <2>1. ASSUME SettleSave(c)
        PROVE  LeavesItsEntry(c)
    <3>1. OnlyCall(c) /\ mgCall'[c].stage = "settled"
      BY <1>0, <2>1, MgSettles
    <3>2. PICK e : e = DescribeSave(c)
      OBVIOUS
    <3>3. e.call = c
      BY <3>2 DEF DescribeSave, MgEntry
    <3>4. mgKind[c] = "save" /\ mgCall[c].stage # "settled"
      BY <2>1 DEF SettleSave, SavesRefused, SavesOver, MgInv, MgSaves, SaveOK
    <3> QED  BY <2>1, <3>1, <3>2, <3>3, <3>4 DEF SettleSave, LeavesItsEntry
  <2>2. ASSUME NEW outcome \in MgOutcome, SettleExec(c, outcome)
        PROVE  LeavesItsEntry(c)
    <3>1. mgKind[c] \in MgKinds
      BY <1>0 DEF MgTyped
    <3>2. PICK q \in MgCallType, stage \in MgStages, kind \in MgSents, count \in MgCounts :
            /\ q = mgCall[c] /\ stage = "settled" /\ kind = mgKind[c]
            /\ count = IF outcome.ok \/ outcome.reached THEN outcome.n ELSE MgNone
      <4>1. outcome.n \in MgCounts /\ MgNone \in MgCounts
        BY DEF MgOutcome, MgCounts
      <4> QED  BY <1>0, <3>1, <4>1, MgStrings DEF MgTyped
    <3>3. PICK r : r = [q EXCEPT !.stage = stage, !.sent = kind, !.count = count]
      OBVIOUS
    <3>4. r \in MgCallType /\ r.stage = stage
      BY <3>3 DEF MgCallType
    <3>5. mgCall' = [mgCall EXCEPT ![c] = r]
      BY <2>2, <3>2, <3>3 DEF SettleExec
    <3>6. OnlyCall(c) /\ mgCall'[c].stage = "settled"
      BY <1>0, <3>2, <3>4, <3>5 DEF MgTyped, OnlyCall
    <3>7. PICK e : e = MgEntry(c, mgKind[c], 0, CountOf(c, outcome), ~outcome.ok)
      OBVIOUS
    <3>8. e.call = c
      BY <3>7 DEF MgEntry
    <3> QED  BY <2>2, <3>6, <3>7, <3>8 DEF SettleExec, LeavesItsEntry
  <2> QED  BY <2>1, <2>2
<1>2. PICK e : e.call = c /\ MgAppend(e, c)
  BY <1>1 DEF LeavesItsEntry
<1>3. ~MgDone(c) /\ (MgDone(c)' <=> mgProfiled[c])
  BY <1>1 DEF LeavesItsEntry, MgDone
<1> QED  BY <1>0, <1>1, <1>2, <1>3, MgListsOne DEF LeavesItsEntry

LEMMA MgOpenListed == ASSUME MgInv, MgOnce, NEW c \in MgCalls, OpenCursor(c) PROVE MgOnce'
<1>0. MgTyped /\ CursorOK(c)
  BY DEF MgInv, MgOnce
<1>1. PICK no \in BOOLEAN, nobody \in MgHolders : no = FALSE /\ nobody = MgNone
  BY DEF MgHolders
<1>2. Started(c, nobody, no, no) /\ mgKind[c] = "cursor" /\ mgCall[c].stage = "new"
      /\ UNCHANGED <<mgKind, mgProfiled>>
  BY <1>1 DEF OpenCursor
<1>3. OnlyCall(c) /\ mgCall'[c].stage = "running" /\ mgCall'[c].sent = mgCall[c].sent
  BY <1>0, <1>2, MgStarts
<1>4. mgCall[c].sent = MgNone
  BY <1>0, <1>2 DEF CursorOK
<1>5. PICK e : e = [MgEntry(c, "find", 0, MgNone, FALSE) EXCEPT !.duration = 0]
  OBVIOUS
<1>6. e.call = c
  BY <1>5 DEF MgEntry
<1>7. MgAppend(e, c)
  BY <1>5 DEF OpenCursor
<1>8. ~MgDone(c) /\ (MgDone(c)' <=> mgProfiled[c])
  BY <1>2, <1>3 DEF MgDone
<1> QED  BY <1>0, <1>2, <1>3, <1>4, <1>6, <1>7, <1>8, MgListsOne

(* The stream ends: the entry is completed in place, unless it was.        *)
LEMMA MgEndListed ==
    ASSUME MgInv, MgOnce, NEW c \in MgCalls, NEW event \in {"end", "error", "close"},
           CursorEvent(c, event)
    PROVE  MgOnce'
<1>0. /\ MgTyped /\ MgListed(c) /\ CursorOK(c) /\ mgKind[c] = "cursor"
      /\ mgCall[c].stage \in {"running", "settled"} /\ UNCHANGED <<mgKind, mgProfiled, mgNow>>
  BY DEF MgInv, MgOnce, CursorEvent
<1>1. PICK q \in MgCallType, stage \in MgStages, sent \in MgSents, update \in Nat :
        /\ q = mgCall[c] /\ stage = IF event = "close" THEN "closed" ELSE "settled"
        /\ sent = (IF q.sent = MgNone THEN event ELSE q.sent)
        /\ update = IF q.stage = "running" THEN mgNow ELSE q.update
  <2>1. mgCall[c] \in MgCallType /\ event \in MgSents /\ mgNow \in Nat
    BY <1>0, MgStrings DEF MgTyped
  <2> QED  BY <2>1, MgStrings DEF MgCallType
<1>2. PICK r : r = [q EXCEPT !.stage = stage, !.sent = sent, !.update = update]
  OBVIOUS
<1>3. r \in MgCallType /\ r.stage = stage /\ r.sent = sent /\ r.update = update /\ r.at = q.at
  BY <1>2 DEF MgCallType
<1>4. mgCall' = [mgCall EXCEPT ![c] = r]
  BY <1>1, <1>2 DEF CursorEvent
<1>5. mgCall'[c] = r /\ OnlyCall(c)
  BY <1>0, <1>3, <1>4 DEF MgTyped, OnlyCall
<1>6. MgDone(c)' <=> MgDone(c)
  BY <1>0, <1>1, <1>3, <1>5 DEF MgDone
<1>7. CASE mgCall[c].stage = "settled"
  <2>1. mgEntries' = mgEntries
    BY <1>7 DEF CursorEvent, CursorFinalized
  <2>2. r.sent = q.sent /\ r.update = q.update /\ q.sent # MgNone
    BY <1>0, <1>1, <1>3, <1>7 DEF CursorOK
  <2>3. CursorOK(c)'
    <3>1. MgEntriesOf(c)' = MgEntriesOf(c)
      BY <2>1 DEF MgEntriesOf
    <3> QED  BY <1>0, <1>1, <1>3, <1>5, <1>7, <2>1, <2>2, <3>1 DEF CursorOK, Ends
  <2> QED  BY <1>0, <1>5, <1>6, <2>1, <2>3, MgListsStay
<1>8. CASE mgCall[c].stage = "running"
  <2>1. sent = event /\ update = mgNow
    BY <1>0, <1>1, <1>8 DEF CursorOK
  <2>2. PICK failed \in BOOLEAN : failed = (event = "error")
    OBVIOUS
  <2>3. mgEntries' = [i \in DOMAIN mgEntries |->
                        IF mgEntries[i].call # c THEN mgEntries[i]
                        ELSE [mgEntries[i] EXCEPT !.duration = mgNow - mgCall[c].at, !.error = failed]]
    BY <1>8, <2>2 DEF CursorEvent, CursorFinalized
  <2>4. PICK duration : duration = mgNow - mgCall[c].at
    OBVIOUS
  <2>5. ASSUME NEW i \in DOMAIN mgEntries
        PROVE  /\ mgEntries'[i].call = mgEntries[i].call
               /\ mgEntries[i].call # c => mgEntries'[i] = mgEntries[i]
               /\ mgEntries[i].call = c =>
                    mgEntries'[i].error = failed /\ mgEntries'[i].duration = duration
    <3>1. PICK k, z : k = mgEntries[i] /\ EntryOK(k) /\ z = mgEntries'[i]
      BY DEF MgInv, MgTold
    <3>2. CASE k.call # c
      BY <2>3, <3>1, <3>2
    <3>3. CASE k.call = c
      <4>1. z = [k EXCEPT !.duration = duration, !.error = failed]
        BY <2>3, <2>4, <3>1, <3>3
      <4>2. k = [call |-> k.call, operation |-> k.operation, update |-> k.update, count |-> k.count,
                 error |-> k.error, duration |-> k.duration, streaming |-> k.streaming]
        BY <3>1 DEF EntryOK
      <4>3. z.call = k.call /\ z.error = failed /\ z.duration = duration
        BY ONLY <4>1, <4>2
      <4> QED  BY <3>1, <3>3, <4>3
    <3> QED  BY <3>2, <3>3
  <2>6. DOMAIN mgEntries' = DOMAIN mgEntries
    BY <2>3
  <2>7. ASSUME NEW d \in MgCalls PROVE MgListed(d)' /\ CursorOK(d)'
    <3>1. MgEntriesOf(d)' = MgEntriesOf(d) /\ MgListed(d) /\ CursorOK(d)
      BY <2>5, <2>6 DEF MgEntriesOf, MgOnce
    <3>2. CASE d = c
      <4>1. ASSUME NEW i \in MgEntriesOf(c) PROVE Ends(mgEntries[i], c)'
        <5>1. mgEntries'[i].error = failed /\ mgEntries'[i].duration = duration
          BY <2>5, <4>1 DEF MgEntriesOf
        <5>2. failed = (mgCall'[c].sent = "error")
          BY <1>3, <1>5, <2>1, <2>2
        <5> QED  BY <1>1, <1>3, <1>5, <2>1, <2>4, <5>1, <5>2 DEF Ends
      <4>2. mgCall'[c].stage \in {"settled", "closed"} /\ mgCall'[c].sent = event
        BY <1>1, <1>3, <1>5, <2>1
      <4>3. event # MgNone
        BY MgAssumption
      <4>4. CursorOK(c)'
        BY <3>1, <3>2, <4>1, <4>2, <4>3 DEF CursorOK
      <4> QED  BY <1>6, <3>1, <3>2, <4>4 DEF MgListed
    <3>3. CASE d # c
      <4>1. mgCall'[d] = mgCall[d]
        BY <1>5, <3>3 DEF OnlyCall
      <4>2. MgDone(d)' <=> MgDone(d)
        BY <1>0, <4>1 DEF MgDone
      <4>3. \A i \in MgEntriesOf(d) : mgEntries'[i] = mgEntries[i]
        BY <2>5, <3>3 DEF MgEntriesOf
      <4>4. CursorOK(d)'
        BY <1>0, <3>1, <4>1, <4>3 DEF CursorOK, Ends
      <4> QED  BY <3>1, <4>2, <4>4 DEF MgListed
    <3> QED  BY <3>2, <3>3
  <2> QED  BY <1>0, <2>7 DEF MgOnce
<1> QED  BY <1>0, <1>7, <1>8

LEMMA MgOnceInitially == ASSUME NEW s \in MgScenarios, MgStart(s) PROVE MgOnce
<1>1. /\ mgProfiled \in [MgCalls -> BOOLEAN] /\ mgEntries = <<>>
      /\ mgCall = [c \in MgCalls |-> [stage |-> "new", refusedBy |-> MgNone, late |-> FALSE,
                                      insert |-> FALSE, sent |-> MgNone, update |-> 0,
                                      count |-> MgNone, at |-> 0]]
  BY MgAssumption DEF MgStart
<1>2. \A c \in MgCalls : mgCall[c].stage = "new" /\ mgCall[c].sent = MgNone
  BY <1>1
<1>3. \A c \in MgCalls : ~MgDone(c) /\ MgEntriesOf(c) = {} /\ CursorOK(c)
  BY <1>1, <1>2 DEF MgDone, MgEntriesOf, CursorOK
<1> QED  BY <1>1, <1>3 DEF MgOnce, MgListed

LEMMA MgOnceStays ==
    ASSUME MgInv, MgOnce, EditDocument \/ MgTick \/ UNCHANGED mgVars PROVE MgOnce'
<1>1. UNCHANGED <<mgKind, mgProfiled, mgCall, mgEntries>>
  <2>1. CASE EditDocument
    BY <2>1 DEF EditDocument
  <2>2. CASE MgTick
    BY <2>2 DEF MgTick
  <2>3. CASE UNCHANGED mgVars
    BY <2>3 DEF mgVars
  <2> QED  BY <2>1, <2>2, <2>3
<1> QED  BY <1>1 DEF MgOnce, MgListed, MgDone, CursorOK, Ends, MgEntriesOf

LEMMA MgOnceStep == ASSUME MgInv, MgOnce, [MgNext]_mgVars PROVE MgOnce'
<1>1. CASE EditDocument \/ MgTick \/ UNCHANGED mgVars
  BY <1>1, MgOnceStays
<1>2. ASSUME NEW c \in MgCalls,
             \/ Save(c) \/ SendSave(c) \/ Exec(c)
             \/ \E ok \in BOOLEAN : SaveEnds(c, ok)
      PROVE  MgOnce'
  BY <1>2, MgSaveOrSent
<1>3. ASSUME NEW c \in MgCalls, OpenCursor(c) PROVE MgOnce'
  BY <1>3, MgOpenListed
<1>4. ASSUME NEW c \in MgCalls, SettleSave(c) PROVE MgOnce'
  BY <1>4, MgSettlesListed
<1>5. ASSUME NEW c \in MgCalls, NEW outcome \in MgOutcome, SettleExec(c, outcome) PROVE MgOnce'
  BY <1>5, MgSettlesListed
<1>6. ASSUME NEW c \in MgCalls, NEW event \in {"end", "error", "close"}, CursorEvent(c, event)
      PROVE  MgOnce'
  BY <1>6, MgEndListed
<1> QED  BY <1>1, <1>2, <1>3, <1>4, <1>5, <1>6 DEF MgNext

LEMMA MgAllInitially == MgInit => MgInv /\ MgOnce
BY MgInitially, MgOnceInitially DEF MgInit

LEMMA MgAllStep == MgInv /\ MgOnce /\ [MgNext]_mgVars => (MgInv /\ MgOnce)'
BY MgStep, MgOnceStep

(* A command that ran for a profile has one entry, with its own outcome,   *)
(* and one that did not has none: however many saves of one document meet, *)
(* and a cursor is told once, when its stream ends.                        *)
THEOREM MongoRecordedOnce == MgSpec => []MongoOneEntryPerCommand
<1>1. MgInv /\ MgOnce => MongoOneEntryPerCommand
  BY MgListedOnce
<1> QED  BY <1>1, MgAllInitially, MgAllStep, PTL DEF MgSpec

-----------------------------------------------------------------------------
(* Emissions on their emitter: the branch an execution runs under names    *)
(* the profile that owns it, an emission keeps the owner of the one that   *)
(* emitted it, and those that are done have their one entry.               *)
EvStates == {"dispatching", "waiting", "done", "thrown"}
EvEntriesOf(m) == {i \in DOMAIN evEntries : evEntries[i].emission = m}

OwnedOK(x) ==
    /\ evBranch[x] \in EvExecs /\ evExec[x].owner \in EvExecs
    /\ evBranch[x] \in DOMAIN evProfileIn /\ evProfileIn[evBranch[x]] = evExec[x].owner
EvOwned ==
    /\ DOMAIN evBranch = EvExecs /\ \A x \in EvExecs : OwnedOK(x)
    /\ \A b \in DOMAIN evProfileIn : evProfileIn[b] \in EvExecs
    /\ evStored \subseteq EvExecs

SentBy(m) ==
    /\ evEmission[m].by \in EvExecs /\ evEmission[m].profile = evExec[evEmission[m].by].owner
    /\ evEmission[m].state \in EvStates /\ evEmission[m].waiting \subseteq EvExecs
    /\ evEmission[m].state \in {"dispatching", "waiting"} => evEmission[m].failed = FALSE
EvSent == \A m \in DOMAIN evEmission : SentBy(m)

Tells(e, m) == e.profile = evEmission[m].profile /\ e.failed = evEmission[m].failed
EmissionTold(m) ==
    IF evEmission[m].state = "done"
    THEN \E i \in EvEntriesOf(m) : EvEntriesOf(m) = {i} /\ Tells(evEntries[i], m)
    ELSE EvEntriesOf(m) = {}
EvListed ==
    /\ IsSeq(evEntries)
    /\ \A i \in DOMAIN evEntries : evEntries[i].emission \in DOMAIN evEmission
    /\ \A m \in DOMAIN evEmission : EmissionTold(m)

EvTold == EvOwned /\ EvSent /\ EvListed

LEMMA EvToldEnough == ASSUME EvInv, EvTold PROVE EmissionsOnTheirEmitter /\ EvTypeOK
<1>1. ASSUME NEW m \in DOMAIN evEmission
      PROVE  Cardinality({i \in DOMAIN evEntries : evEntries[i].emission = m}) =
                IF evEmission[m].state = "done" THEN 1 ELSE 0
  <2>1. EmissionTold(m) /\ EvEntriesOf(m) = {i \in DOMAIN evEntries : evEntries[i].emission = m}
    BY DEF EvTold, EvListed, EvEntriesOf
  <2>2. CASE evEmission[m].state = "done"
    <3>1. PICK i : EvEntriesOf(m) = {i}
      BY <2>1, <2>2 DEF EmissionTold
    <3> QED  BY <2>1, <2>2, <3>1, FS_Singleton
  <2>3. CASE evEmission[m].state # "done"
    BY <2>1, <2>3, FS_EmptySet DEF EmissionTold
  <2> QED  BY <2>2, <2>3
<1>2. ASSUME NEW i \in DOMAIN evEntries
      PROVE  LET m == evEmission[evEntries[i].emission]
             IN  evEntries[i].profile = evExec[m.by].owner /\ evEntries[i].failed = m.failed
  <2>1. PICK m \in DOMAIN evEmission : m = evEntries[i].emission
    BY DEF EvTold, EvListed
  <2>2. EmissionTold(m) /\ SentBy(m) /\ i \in EvEntriesOf(m)
    BY <2>1 DEF EvTold, EvListed, EvSent, EvEntriesOf
  <2>3. Tells(evEntries[i], m)
    BY <2>2 DEF EmissionTold
  <2> QED  BY <2>1, <2>2, <2>3 DEF Tells, SentBy
<1>3. EmissionsOnTheirEmitter
  BY <1>1, <1>2 DEF EmissionsOnTheirEmitter
<1>4. EvTypeOK
  <2>1. \A x \in EvExecs : evExec[x].stage \in EvStages /\ OwnedOK(x)
    BY DEF EvInv, EvShaped, ExecOK, EvTold, EvOwned
  <2>2. EvExecs = 0..(Cardinality(EvExecs) - 1)
    BY DEF EvInv, EvShaped
  <2>3. (\A b \in DOMAIN evProfileIn : evProfileIn[b] \in EvExecs) /\ evStored \subseteq EvExecs
    BY DEF EvTold, EvOwned
  <2>4. \A m \in DOMAIN evEmission : SentBy(m)
    BY DEF EvTold, EvSent
  <2> QED  BY <2>1, <2>2, <2>3, <2>4 DEF EvTypeOK, EvStages, OwnedOK, SentBy, EvStates
<1> QED  BY <1>3, <1>4

(* No execution begins: whoever owned one owns it still.                   *)
LEMMA EvOwnedStays ==
    ASSUME EvInv, EvOwned, NEW x, OnlyExec(x), UNCHANGED <<evBranch, evProfileIn>>,
           evStored' \subseteq EvExecs
    PROVE  EvOwned'
<1>1. EvExecs' = EvExecs /\ \A y \in EvExecs : evExec'[y].owner = evExec[y].owner
  BY DEF OnlyExec
<1>2. \A y \in EvExecs : OwnedOK(y)'
  BY <1>1 DEF EvOwned, OwnedOK
<1> QED  BY <1>1, <1>2 DEF EvOwned

(* An emission goes on, or ends; the others are as they were.              *)
LEMMA EvSentStays ==
    ASSUME EvSent, NEW m \in DOMAIN evEmission, OnlyEmission(m),
           EvExecs \subseteq EvExecs', \A y \in EvExecs : evExec'[y].owner = evExec[y].owner,
           evEmission'[m].state \in EvStates, evEmission'[m].waiting \subseteq EvExecs',
           evEmission'[m].state \in {"dispatching", "waiting"} => evEmission'[m].failed = FALSE
    PROVE  EvSent'
<1>1. ASSUME NEW k \in DOMAIN evEmission PROVE SentBy(k)'
  <2>1. SentBy(k) /\ evEmission'[k].by = evEmission[k].by
        /\ evEmission'[k].profile = evEmission[k].profile
        /\ (k # m => evEmission'[k] = evEmission[k])
    BY DEF EvSent, OnlyEmission
  <2>2. CASE k = m
    BY <2>1, <2>2 DEF SentBy
  <2>3. CASE k # m
    BY <2>1, <2>3 DEF SentBy
  <2> QED  BY <2>2, <2>3
<1> QED  BY <1>1 DEF EvSent, OnlyEmission

LEMMA EvListStays ==
    ASSUME EvListed, NEW m \in DOMAIN evEmission, OnlyEmission(m), evEntries' = evEntries,
           evEmission'[m].state = "done" <=> evEmission[m].state = "done",
           evEmission[m].state = "done" => evEmission'[m].failed = evEmission[m].failed
    PROVE  EvListed'
<1>1. ASSUME NEW k \in DOMAIN evEmission PROVE EmissionTold(k)'
  <2>1. /\ EmissionTold(k) /\ EvEntriesOf(k)' = EvEntriesOf(k)
        /\ evEmission'[k].profile = evEmission[k].profile
        /\ (k # m => evEmission'[k] = evEmission[k])
    BY DEF EvListed, OnlyEmission, EvEntriesOf
  <2>2. (evEmission'[k].state = "done" <=> evEmission[k].state = "done")
        /\ (evEmission[k].state = "done" => evEmission'[k].failed = evEmission[k].failed)
    BY <2>1
  <2> QED  BY <2>1, <2>2 DEF EmissionTold, Tells
<1> QED  BY <1>1 DEF EvListed, OnlyEmission

(* An emission ends and is listed.                                         *)
LEMMA EvListsOne ==
    ASSUME EvListed, NEW m \in DOMAIN evEmission, OnlyEmission(m), NEW failed,
           evEmission[m].state # "done", evEmission'[m].state = "done",
           evEmission'[m].failed = failed, evEntries' = Append(evEntries, EmissionEntry(m, failed))
    PROVE  EvListed'
<1>0. PICK e : e = EmissionEntry(m, failed) /\ e.emission = m /\ e.failed = failed
               /\ e.profile = evEmission[m].profile
  BY DEF EmissionEntry
<1>1. PICK n \in Nat : n = Len(evEntries)
  BY SeqFacts DEF EvListed
<1>2. /\ DOMAIN evEntries = 1..n /\ IsSeq(evEntries') /\ Len(evEntries') = n + 1
      /\ \A i \in 1..n : evEntries'[i] = evEntries[i]
      /\ evEntries'[n + 1] = e
  BY <1>0, <1>1, SeqFacts, AppendFacts DEF EvListed
<1>3. DOMAIN evEntries' = 1..(n + 1)
  BY <1>2, SeqFacts
<1>4. ASSUME NEW k \in DOMAIN evEmission PROVE EmissionTold(k)'
  <2>1. /\ EmissionTold(k) /\ evEmission'[k].profile = evEmission[k].profile
        /\ (k # m => evEmission'[k] = evEmission[k])
    BY DEF EvListed, OnlyEmission
  <2>2. CASE k = m
    <3>1. EvEntriesOf(m) = {}
      BY <2>1, <2>2 DEF EmissionTold
    <3>2. \A i \in 1..n : evEntries[i].emission # m
      BY <1>2, <3>1 DEF EvEntriesOf
    <3>3. EvEntriesOf(m)' = {n + 1}
      BY <1>0, <1>2, <1>3, <3>2 DEF EvEntriesOf
    <3>4. Tells(evEntries[n + 1], m)'
      BY <1>0, <1>2, <2>1, <2>2 DEF Tells
    <3> QED  BY <2>2, <3>3, <3>4 DEF EmissionTold
  <2>3. CASE k # m
    <3>1. EvEntriesOf(k)' = EvEntriesOf(k) /\ \A i \in EvEntriesOf(k) : evEntries'[i] = evEntries[i]
      BY <1>0, <1>2, <1>3, <2>3 DEF EvEntriesOf
    <3> QED  BY <2>1, <2>3, <3>1 DEF EmissionTold, Tells
  <2> QED  BY <2>2, <2>3
<1>5. \A i \in DOMAIN evEntries' : evEntries'[i].emission \in DOMAIN evEmission'
  BY <1>0, <1>2, <1>3 DEF EvListed, OnlyEmission
<1> QED  BY <1>2, <1>4, <1>5 DEF EvListed, OnlyEmission

-----------------------------------------------------------------------------
LEMMA EvTellsReturn ==
    ASSUME EvInv, EvTold, NEW x \in EvExecs, ReturnSync(x) \/ ScheduledPersist(x) PROVE EvTold'
<1>1. PICK stage \in EvStages : evExec' = [evExec EXCEPT ![x].stage = stage]
  BY DEF ReturnSync, ScheduledPersist, EvStages
<1>2. OnlyExec(x)
  BY <1>1, EvExecStage
<1>3. UNCHANGED <<evBranch, evProfileIn, evEmission, evEntries>> /\ evStored' \subseteq EvExecs
  BY DEF ReturnSync, ScheduledPersist, EvTold, EvOwned
<1>4. EvOwned'
  BY <1>2, <1>3, EvOwnedStays DEF EvTold
<1>5. EvSent'
  BY <1>2, <1>3 DEF EvTold, EvSent, SentBy, OnlyExec
<1>6. EvListed'
  BY <1>3 DEF EvTold, EvListed, EmissionTold, Tells, EvEntriesOf
<1> QED  BY <1>4, <1>5, <1>6 DEF EvTold

LEMMA EvTellsThrow == ASSUME EvInv, EvTold, NEW x \in EvExecs, ThrowSync(x) PROVE EvTold'
<1>1. x \in EvHandled /\ Runs(x) /\ UNCHANGED <<evBranch, evProfileIn, evStored>>
  BY DEF ThrowSync, EvHandled
<1>2. PICK m \in DOMAIN evEmission : m = evExec[x].parent
  BY <1>1 DEF EvInv, EvShaped
<1>3. OnlyExec(x)
  <2>1. PICK stage \in EvStages, failed \in BOOLEAN : stage = "returned" /\ failed = TRUE
    BY DEF EvStages
  <2>2. evExec' = [evExec EXCEPT ![x].stage = stage, ![x].failed = failed]
    BY <2>1 DEF ThrowSync
  <2> QED  BY <2>1, <2>2, EvExecEnds
<1>4. /\ OnlyEmission(m) /\ evEmission'[m].waiting = evEmission[m].waiting
      /\ evEmission'[m].failed = TRUE
      /\ evEmission'[m].state = (IF evEmission[m].async THEN "thrown" ELSE "done")
  BY <1>2, EvUnwinds
<1>5. evEmission[m].state = "dispatching"
  BY <1>1, <1>2, EvTopRuns
<1>6. /\ EvExecs' = EvExecs /\ \A y \in EvExecs : evExec'[y].owner = evExec[y].owner
  BY <1>3 DEF OnlyExec
<1>7. EvSent'
  <2>1. evEmission'[m].state \in EvStates /\ evEmission'[m].state \notin {"dispatching", "waiting"}
    BY <1>4 DEF EvStates
  <2>2. evEmission'[m].waiting \subseteq EvExecs'
    BY <1>4, <1>6 DEF EvTold, EvSent, SentBy
  <2>3. EvSent
    BY DEF EvTold
  <2> QED  BY ONLY <1>4, <1>6, <2>1, <2>2, <2>3, m \in DOMAIN evEmission, EvSentStays
<1>8. EvListed'
  <2>1. EvListed
    BY DEF EvTold
  <2>2. CASE evEmission[m].async
    <3>1. evEntries' = evEntries
      BY <1>2, <2>2 DEF ThrowSync
    <3> QED  BY <1>4, <1>5, <2>1, <2>2, <3>1, EvListStays
  <2>3. CASE ~evEmission[m].async
    <3>1. PICK failed : failed = TRUE
      OBVIOUS
    <3>2. evEntries' = Append(evEntries, EmissionEntry(m, failed))
      BY <1>2, <2>3, <3>1 DEF ThrowSync
    <3>3. evEmission'[m].state = "done" /\ evEmission[m].state # "done" /\ evEmission'[m].failed = failed
      BY <1>4, <1>5, <2>3, <3>1
    <3> QED  BY <1>4, <2>1, <3>2, <3>3, EvListsOne
  <2> QED  BY <2>2, <2>3
<1>9. EvOwned'
  BY <1>1, <1>3, EvOwnedStays DEF EvTold, EvOwned
<1> QED  BY <1>7, <1>8, <1>9 DEF EvTold

LEMMA EvTellsAwait == ASSUME EvInv, EvTold, NEW x \in EvExecs, Await(x) PROVE EvTold'
<1>1. x \in EvHandled /\ UNCHANGED <<evBranch, evProfileIn, evStored, evEntries>>
  BY DEF Await, EvHandled
<1>2. PICK m \in DOMAIN evEmission : m = evExec[x].parent
  BY <1>1 DEF EvInv, EvShaped
<1>3. OnlyExec(x)
  <2>1. PICK stage \in EvStages : stage = "awaiting"
    BY DEF EvStages
  <2>2. evExec' = [evExec EXCEPT ![x].stage = stage]
    BY <2>1 DEF Await
  <2> QED  BY <2>1, <2>2, EvExecStage
<1>4. /\ OnlyEmission(m) /\ evEmission'[m].waiting = evEmission[m].waiting \cup {x}
      /\ evEmission'[m].state = evEmission[m].state /\ evEmission'[m].failed = evEmission[m].failed
  <2>1. PICK w : w = evEmission[m].waiting \cup {x}
    OBVIOUS
  <2>2. evEmission' = [evEmission EXCEPT ![m].waiting = w]
    BY <1>2, <2>1 DEF Await
  <2> QED  BY <2>1, <2>2, EvEmissionWaits
<1>5. /\ EvExecs' = EvExecs /\ \A y \in EvExecs : evExec'[y].owner = evExec[y].owner
  BY <1>3 DEF OnlyExec
<1>6. EvSent' /\ EvListed'
  <2>1. SentBy(m) /\ EvSent /\ EvListed
    BY DEF EvTold, EvSent
  <2>2. EvSent'
    BY <1>4, <1>5, <2>1, EvSentStays DEF SentBy
  <2>3. EvListed'
    BY <1>1, <1>4, <2>1, EvListStays
  <2> QED  BY <2>2, <2>3
<1>7. EvOwned'
  BY <1>1, <1>3, EvOwnedStays DEF EvTold, EvOwned
<1> QED  BY <1>6, <1>7 DEF EvTold

LEMMA EvTellsReturned ==
    ASSUME EvInv, EvTold, NEW m \in DOMAIN evEmission, EmissionReturns(m) PROVE EvTold'
<1>1. OnTop("emission", m) /\ UNCHANGED <<evExec, evBranch, evProfileIn, evStored>>
  BY DEF EmissionReturns
<1>2. evEmission[m].state = "dispatching"
  BY <1>1, EvTopEmission
<1>3. PICK waits \in BOOLEAN : waits <=> evEmission[m].async /\ evEmission[m].waiting # {}
  OBVIOUS
<1>4. PICK s : /\ s = (IF waits THEN "waiting" ELSE "done")
               /\ evEmission' = [evEmission EXCEPT ![m].state = s]
  BY <1>3 DEF EmissionReturns
<1>5. /\ OnlyEmission(m) /\ evEmission'[m].waiting = evEmission[m].waiting
      /\ evEmission'[m].state = s /\ evEmission'[m].failed = evEmission[m].failed
  <2>1. evEmission' = [evEmission EXCEPT ![m].state = s]
    BY <1>4
  <2> QED  BY <2>1, EvEmissionState
<1>6. SentBy(m) /\ EvSent /\ EvListed /\ EvOwned /\ evEmission[m].failed = FALSE
  BY <1>2 DEF EvTold, EvSent, SentBy
<1>7. EvExecs' = EvExecs
  BY <1>1 DEF EvExecs
<1>8. EvSent'
  <2>1. evEmission'[m].state \in EvStates
    BY <1>4, <1>5 DEF EvStates
  <2>2. evEmission'[m].waiting \subseteq EvExecs' /\ evEmission'[m].failed = FALSE
    BY <1>5, <1>6, <1>7 DEF SentBy
  <2> QED  BY <1>1, <1>5, <1>6, <1>7, <2>1, <2>2, EvSentStays
<1>9. EvListed'
  <2>1. CASE waits
    <3>1. evEntries' = evEntries
      BY <1>3, <2>1 DEF EmissionReturns
    <3> QED  BY <1>2, <1>4, <1>5, <1>6, <2>1, <3>1, EvListStays
  <2>2. CASE ~waits
    <3>1. PICK failed : failed = FALSE
      OBVIOUS
    <3>2. evEntries' = Append(evEntries, EmissionEntry(m, failed))
      BY <1>3, <2>2, <3>1 DEF EmissionReturns
    <3>3. evEmission'[m].state = "done" /\ evEmission[m].state # "done" /\ evEmission'[m].failed = failed
      BY <1>2, <1>4, <1>5, <1>6, <2>2, <3>1
    <3> QED  BY <1>5, <1>6, <3>2, <3>3, EvListsOne
  <2> QED  BY <2>1, <2>2
<1>10. EvOwned'
  BY <1>1, <1>6, <1>7 DEF EvOwned, OwnedOK
<1> QED  BY <1>8, <1>9, <1>10 DEF EvTold

(* A promise settles: its emission ends with it, or goes on waiting.       *)
LEMMA EvTellsSettle ==
    ASSUME EvInv, EvTold, NEW x \in EvHandled, NEW failed, PromiseSettles(x, failed),
           EvExecs' = EvExecs, \A y \in EvExecs : evExec'[y].owner = evExec[y].owner
    PROVE  EvSent' /\ EvListed'
<1>1. PICK m \in DOMAIN evEmission : m = evExec[x].parent
  BY DEF EvInv, EvShaped
<1>0. PICK left : left = evEmission[m].waiting \ {x}
  OBVIOUS
<1>2. PICK settles \in BOOLEAN : settles <=> (evEmission[m].state = "waiting" /\ (failed \/ left = {}))
  OBVIOUS
<1>3. PICK s, f : /\ s = (IF settles THEN "done" ELSE evEmission[m].state)
                  /\ f = (IF settles THEN failed ELSE evEmission[m].failed)
  OBVIOUS
<1>4. evEmission' = [evEmission EXCEPT ![m].waiting = left, ![m].state = s, ![m].failed = f]
  BY <1>0, <1>1, <1>2, <1>3 DEF PromiseSettles
<1>5. /\ settles => evEntries' = Append(evEntries, EmissionEntry(m, failed))
      /\ ~settles => evEntries' = evEntries
  <2>1. evEntries' = IF evEmission[evExec[x].parent].state = "waiting"
                        /\ (failed \/ evEmission[evExec[x].parent].waiting \ {x} = {})
                     THEN Append(evEntries, EmissionEntry(evExec[x].parent, failed)) ELSE evEntries
    BY Zenon DEF PromiseSettles
  <2>2. evEntries' = IF evEmission[m].state = "waiting" /\ (failed \/ left = {})
                     THEN Append(evEntries, EmissionEntry(m, failed)) ELSE evEntries
    BY ONLY <1>0, <1>1, <2>1
  <2>3. CASE settles
    <3>1. evEmission[m].state = "waiting" /\ (failed \/ left = {})
      BY ONLY <1>2, <2>3, Zenon
    <3> QED  BY ONLY <2>2, <2>3, <3>1, Zenon
  <2>4. CASE ~settles
    <3>1. ~(evEmission[m].state = "waiting" /\ (failed \/ left = {}))
      BY ONLY <1>2, <2>4, Zenon
    <3> QED  BY ONLY <2>2, <2>4, <3>1, Zenon
  <2> QED  BY <2>3, <2>4
<1>6. /\ OnlyEmission(m) /\ evEmission'[m].waiting = left
      /\ evEmission'[m].state = s /\ evEmission'[m].failed = f
  <2>1. EvInv /\ m \in DOMAIN evEmission
    OBVIOUS
  <2> QED  BY ONLY <1>4, <2>1, EvEmissionSettles
<1>7. SentBy(m) /\ EvSent /\ EvListed /\ (settles => evEmission[m].state = "waiting")
  BY <1>2 DEF EvTold, EvSent
<1>8. EvSent'
  <2>1. evEmission'[m].state \in EvStates /\ evEmission'[m].waiting \subseteq EvExecs'
    BY <1>0, <1>3, <1>6, <1>7 DEF SentBy, EvStates
  <2>2. evEmission'[m].state \in {"dispatching", "waiting"} => evEmission'[m].failed = FALSE
    BY <1>3, <1>6, <1>7 DEF SentBy
  <2>3. EvExecs \subseteq EvExecs'
    OBVIOUS
  <2> QED  BY <1>6, <1>7, <2>1, <2>2, <2>3, EvSentStays
<1>9. EvListed'
  <2>1. CASE settles
    <3>1. evEntries' = Append(evEntries, EmissionEntry(m, failed))
      BY <1>5, <2>1
    <3>2. evEmission'[m].state = "done" /\ evEmission[m].state # "done" /\ evEmission'[m].failed = failed
      BY <1>3, <1>6, <1>7, <2>1
    <3> QED  BY <1>6, <1>7, <3>1, <3>2, EvListsOne
  <2>2. CASE ~settles
    BY <1>3, <1>5, <1>6, <1>7, <2>2, EvListStays
  <2> QED  BY <2>1, <2>2
<1> QED  BY <1>8, <1>9

LEMMA EvTellsEnd ==
    ASSUME EvInv, EvTold, NEW x \in EvExecs, NEW b \in BOOLEAN,
           HandlerSettles(x, b) \/ HandlerPersisted(x, b)
    PROVE  EvTold'
<1>1. /\ x \in EvHandled /\ UNCHANGED <<evBranch, evProfileIn>>
      /\ evStored' \subseteq EvExecs
  BY DEF HandlerSettles, HandlerPersisted, Resumes, EvInv, EvShaped, EvHandled, EvTold, EvOwned
<1>2. OnlyExec(x) /\ (\/ \E failed : PromiseSettles(x, failed)
                      \/ UNCHANGED <<evEmission, evEntries>>)
  <2>1. CASE HandlerSettles(x, b)
    <3>1. PICK wrapped \in BOOLEAN : wrapped <=> WrappedHandler(evExec[x].handler)
      OBVIOUS
    <3>2. PICK stage \in EvStages : stage = IF wrapped THEN "persisting" ELSE "settled"
      BY DEF EvStages
    <3>3. evExec' = [evExec EXCEPT ![x].stage = stage, ![x].failed = b]
      BY <2>1, <3>1, <3>2 DEF HandlerSettles
    <3>4. OnlyExec(x)
      BY <3>3, EvExecEnds
    <3> QED  BY <2>1, <3>4 DEF HandlerSettles
  <2>2. CASE HandlerPersisted(x, b)
    <3>1. PICK stage \in EvStages : stage = IF b THEN "settled" ELSE "unsaved"
      BY DEF EvStages
    <3>2. evExec' = [evExec EXCEPT ![x].stage = stage]
      BY <2>2, <3>1 DEF HandlerPersisted
    <3>3. OnlyExec(x)
      BY <3>2, EvExecStage
    <3>4. PICK failed : failed = evExec[x].failed
      OBVIOUS
    <3>5. PromiseSettles(x, failed)
      BY <2>2, <3>4 DEF HandlerPersisted
    <3> QED  BY <3>3, <3>5
  <2> QED  BY <2>1, <2>2
<1>3. EvExecs' = EvExecs /\ \A y \in EvExecs : evExec'[y].owner = evExec[y].owner
  BY <1>2 DEF OnlyExec
<1>4. EvSent' /\ EvListed'
  <2>1. CASE \E failed : PromiseSettles(x, failed)
    BY <1>1, <1>3, <2>1, EvTellsSettle
  <2>2. CASE UNCHANGED <<evEmission, evEntries>>
    BY <1>3, <2>2 DEF EvTold, EvSent, SentBy, EvListed, EmissionTold, Tells, EvEntriesOf
  <2> QED  BY <1>2, <2>1, <2>2
<1>5. EvOwned'
  BY <1>1, <1>2, EvOwnedStays DEF EvTold
<1> QED  BY <1>4, <1>5 DEF EvTold

(* An emission begins: it keeps the profile of the branch it is emitted in.*)
LEMMA EvTellsEmit == ASSUME EvInv, EvTold, NEW x \in EvExecs, Emit(x) PROVE EvTold'
<1>1. UNCHANGED <<evBranch, evProfileIn, evEntries, evStored>>
  BY DEF Emit
<1>2. PICK e : /\ e.by = x /\ e.profile = evProfileIn[evBranch[x]] /\ e.waiting = {}
               /\ e.state = "dispatching" /\ e.failed = FALSE
               /\ evEmission' = Append(evEmission, e)
  BY DEF Emit
<1>3. PICK n \in Nat : n = Len(evEmission)
  BY SeqFacts DEF EvInv, EvShaped
<1>4. /\ DOMAIN evEmission' = DOMAIN evEmission \cup {n + 1} /\ n + 1 \notin DOMAIN evEmission
      /\ evEmission'[n + 1] = e /\ \A k \in DOMAIN evEmission : evEmission'[k] = evEmission[k]
  <2>1. IsSeq(evEmission) /\ DOMAIN evEmission = 1..n
    BY <1>3, SeqFacts DEF EvInv, EvShaped
  <2>2. /\ IsSeq(evEmission') /\ Len(evEmission') = n + 1 /\ evEmission'[n + 1] = e
        /\ \A k \in 1..n : evEmission'[k] = evEmission[k]
    BY <1>2, <1>3, <2>1, AppendFacts
  <2>3. DOMAIN evEmission' = 1..(n + 1)
    BY <2>2, SeqFacts
  <2> QED  BY <1>3, <2>1, <2>2, <2>3
<1>5. OnlyExec(x)
  <2>1. PICK emitted : emitted = evExec[x].emitted + 1
    OBVIOUS
  <2>2. evExec' = [evExec EXCEPT ![x].emitted = emitted]
    BY <2>1 DEF Emit
  <2> QED  BY <2>2, EvExecEmits
<1>6. EvExecs' = EvExecs /\ \A y \in EvExecs : evExec'[y].owner = evExec[y].owner
  BY <1>5 DEF OnlyExec
<1>7. EvOwned'
  BY <1>1, <1>5, EvOwnedStays DEF EvTold, EvOwned
<1>8. EvSent'
  <2>1. OwnedOK(x)
    BY DEF EvTold, EvOwned
  <2>2. SentBy(n + 1)'
    BY <1>2, <1>4, <1>6, <2>1 DEF SentBy, OwnedOK, EvStates
  <2>3. ASSUME NEW k \in DOMAIN evEmission PROVE SentBy(k)'
    BY <1>4, <1>6 DEF EvTold, EvSent, SentBy
  <2> QED  BY <1>4, <2>2, <2>3 DEF EvSent
<1>9. EvListed'
  <2>1. EvEntriesOf(n + 1) = {} /\ \A k : EvEntriesOf(k)' = EvEntriesOf(k)
    BY <1>1, <1>4 DEF EvTold, EvListed, EvEntriesOf
  <2>2. EmissionTold(n + 1)'
    BY <1>2, <1>4, <2>1 DEF EmissionTold
  <2>3. ASSUME NEW k \in DOMAIN evEmission PROVE EmissionTold(k)'
    BY <1>1, <1>4, <2>1 DEF EvTold, EvListed, EmissionTold, Tells
  <2> QED  BY <1>1, <1>4, <2>2, <2>3 DEF EvTold, EvListed
<1> QED  BY <1>7, <1>8, <1>9 DEF EvTold

(* A handler is called: a branch of its own for its own profile, or the    *)
(* emitter's branch and the emitter's owner.                               *)
LEMMA EvTellsCall ==
    ASSUME EvInv, EvTold, NEW m \in DOMAIN evEmission, CallHandler(m) PROVE EvTold'
<1>1. UNCHANGED <<evEntries, evStored>>
  BY DEF CallHandler
<1>2. PICK x \in Nat : x = Cardinality(EvExecs)
  BY DEF EvInv, EvShaped
<1>3. EvExecs = 0..(x - 1) /\ x \notin EvExecs
  BY <1>2 DEF EvInv, EvShaped
<1>0. PICK parent, h : parent = evEmission[m].by /\ h = Head(evEmission[m].todo)
  OBVIOUS
<1>4. PICK wrapped \in BOOLEAN : wrapped = WrappedHandler(h)
  BY DEF WrappedHandler
<1>5. parent \in EvExecs /\ OwnedOK(parent)
  BY <1>0 DEF EvTold, EvSent, SentBy, EvOwned
<1>6. PICK branch, owner :
        /\ branch = (IF wrapped THEN x ELSE evBranch[parent])
        /\ owner = (IF wrapped THEN x ELSE evExec[parent].owner)
  OBVIOUS
<1>7. PICK r : /\ r.owner = owner
               /\ evExec' = [k \in DOMAIN evExec \cup {x} |-> IF k = x THEN r ELSE evExec[k]]
  <2>1. PICK r : r = [handler |-> h, owner |-> owner, parent |-> m, emitted |-> 0,
                      stage |-> "running", failed |-> FALSE]
    OBVIOUS
  <2>2. evExec' = [k \in DOMAIN evExec \cup {x} |-> IF k = x THEN r ELSE evExec[k]]
    BY <1>0, <1>2, <1>4, <1>6, <2>1 DEF CallHandler
  <2>3. r.owner = owner
    BY <2>1
  <2> QED  BY <2>2, <2>3
<1>8. evBranch' = [k \in DOMAIN evBranch \cup {x} |-> IF k = x THEN branch ELSE evBranch[k]]
  BY <1>0, <1>2, <1>4, <1>6 DEF CallHandler, BuildClsStore
<1>9. evProfileIn' = IF wrapped THEN [k \in DOMAIN evProfileIn \cup {x} |-> IF k = x THEN x ELSE evProfileIn[k]]
                     ELSE evProfileIn
  <2>1. CASE wrapped
    BY <1>0, <1>2, <1>4, <1>6, <2>1 DEF CallHandler, BuildClsStore
  <2>2. CASE ~wrapped
    BY <1>0, <1>2, <1>4, <1>6, <2>2 DEF CallHandler, BuildClsStore
  <2> QED  BY <2>1, <2>2
<1>10. /\ EvExecs' = EvExecs \cup {x} /\ evExec'[x].owner = owner
       /\ \A y \in EvExecs : evExec'[y] = evExec[y]
  BY <1>3, <1>7 DEF EvExecs
<1>11. /\ OnlyEmission(m) /\ evEmission'[m].waiting = evEmission[m].waiting
       /\ evEmission'[m].state = evEmission[m].state /\ evEmission'[m].failed = evEmission[m].failed
  <2>1. PICK todo : todo = Tail(evEmission[m].todo)
    OBVIOUS
  <2>2. evEmission' = [evEmission EXCEPT ![m].todo = todo]
    BY <2>1 DEF CallHandler
  <2> QED  BY <2>2, EvEmissionCalls
<1>12. EvSent' /\ EvListed'
  <2>1. SentBy(m) /\ EvSent /\ EvListed /\ EvExecs \subseteq EvExecs'
    BY <1>10 DEF EvTold, EvSent
  <2>2. EvSent'
    BY <1>10, <1>11, <2>1, EvSentStays DEF SentBy
  <2>3. EvListed'
    BY <1>1, <1>11, <2>1, EvListStays
  <2> QED  BY <2>2, <2>3
<1>13. EvOwned'
  <2>1. DOMAIN evBranch' = EvExecs' /\ evBranch'[x] = branch
        /\ \A y \in EvExecs : evBranch'[y] = evBranch[y]
    BY <1>3, <1>8, <1>10 DEF EvTold, EvOwned
  <2>2. DOMAIN evProfileIn \subseteq DOMAIN evProfileIn'
        /\ \A b \in DOMAIN evProfileIn : b \in EvExecs => evProfileIn'[b] = evProfileIn[b]
    BY <1>3, <1>9
  <2>3. branch \in EvExecs' /\ owner \in EvExecs' /\ branch \in DOMAIN evProfileIn'
        /\ evProfileIn'[branch] = owner
    <3>1. CASE wrapped
      BY <1>6, <1>9, <1>10, <3>1
    <3>2. CASE ~wrapped
      BY <1>5, <1>6, <1>9, <1>10, <3>2 DEF OwnedOK
    <3> QED  BY <3>1, <3>2
  <2>4. OwnedOK(x)'
    BY <1>10, <2>1, <2>3 DEF OwnedOK
  <2>5. ASSUME NEW y \in EvExecs PROVE OwnedOK(y)'
    <3>1. OwnedOK(y)
      BY DEF EvTold, EvOwned
    <3> QED  BY <1>10, <2>1, <2>2, <3>1 DEF OwnedOK
  <2>6. \A b \in DOMAIN evProfileIn' : evProfileIn'[b] \in EvExecs'
    BY <1>9, <1>10 DEF EvTold, EvOwned
  <2>7. evStored' \subseteq EvExecs'
    BY <1>1, <1>10 DEF EvTold, EvOwned
  <2>8. \A y \in EvExecs' : OwnedOK(y)'
    BY <1>10, <2>4, <2>5
  <2> QED  BY <2>1, <2>6, <2>7, <2>8 DEF EvOwned
<1> QED  BY <1>12, <1>13 DEF EvTold

LEMMA EvToldInitially == ASSUME NEW s \in EvScenarios, EvStart(s) PROVE EvTold
<1>1. /\ evExec = [x \in {0} |-> [handler |-> 0, owner |-> 0, parent |-> 0, emitted |-> 0,
                                  stage |-> "running", failed |-> FALSE]]
      /\ evBranch = [x \in {0} |-> 0] /\ evProfileIn = [x \in {0} |-> 0]
      /\ evStack = <<>> /\ evEmission = <<>> /\ evEntries = <<>> /\ evStored = {}
  BY DEF EvStart, Request
<1>2. IsSeq(<<>>) /\ DOMAIN <<>> = {}
  <2>1. <<>> \in Seq({})
    BY EmptySeq
  <2>2. IsSeq(<<>>)
    BY <2>1 DEF IsSeq
  <2> QED  BY <2>2, SeqFacts
<1>3. EvExecs = {0} /\ evExec[0].owner = 0
  BY <1>1 DEF EvExecs
<1>4. EvOwned
  BY <1>1, <1>3 DEF EvOwned, OwnedOK
<1>5. EvSent /\ EvListed
  BY <1>1, <1>2 DEF EvSent, EvListed
<1> QED  BY <1>4, <1>5 DEF EvTold

LEMMA EvToldStep == ASSUME EvInv, EvTold, [EvNext]_evVars PROVE EvTold'
<1>1. CASE UNCHANGED evVars
  <2>1. UNCHANGED <<evExec, evBranch, evProfileIn, evEmission, evEntries, evStored>>
    BY <1>1 DEF evVars
  <2>2. EvOwned'
    BY <2>1 DEF EvTold, EvOwned, OwnedOK, EvExecs
  <2>3. EvSent'
    BY <2>1 DEF EvTold, EvSent, SentBy, EvExecs
  <2>4. EvListed'
    BY <2>1 DEF EvTold, EvListed, EmissionTold, Tells, EvEntriesOf
  <2> QED  BY <2>2, <2>3, <2>4 DEF EvTold
<1>2. ASSUME NEW x \in EvExecs, Emit(x) PROVE EvTold'
  BY <1>2, EvTellsEmit
<1>3. ASSUME NEW x \in EvExecs, ReturnSync(x) \/ ScheduledPersist(x) PROVE EvTold'
  BY <1>3, EvTellsReturn
<1>4. ASSUME NEW x \in EvExecs, ThrowSync(x) PROVE EvTold'
  BY <1>4, EvTellsThrow
<1>5. ASSUME NEW x \in EvExecs, Await(x) PROVE EvTold'
  BY <1>5, EvTellsAwait
<1>6. ASSUME NEW x \in EvExecs, NEW b \in BOOLEAN, HandlerSettles(x, b) \/ HandlerPersisted(x, b)
      PROVE  EvTold'
  BY <1>6, EvTellsEnd
<1>7. ASSUME NEW m \in DOMAIN evEmission, CallHandler(m) PROVE EvTold'
  BY <1>7, EvTellsCall
<1>8. ASSUME NEW m \in DOMAIN evEmission, EmissionReturns(m) PROVE EvTold'
  BY <1>8, EvTellsReturned
<1> QED  BY <1>1, <1>2, <1>3, <1>4, <1>5, <1>6, <1>7, <1>8 DEF EvNext

LEMMA EvAllInitially == EvInit => EvInv /\ EvTold
BY EvInitially, EvToldInitially DEF EvInit

LEMMA EvAllStep == EvInv /\ EvTold /\ [EvNext]_evVars => (EvInv /\ EvTold)'
BY EvStep, EvToldStep

(* An emission that is over has one entry, on the profile of the execution *)
(* that emitted it and with its own outcome, whatever its handlers do or   *)
(* emit in turn.                                                           *)
THEOREM EmissionsRecordedOnce == EvSpec => [](EmissionsOnTheirEmitter /\ EvTypeOK)
<1>1. EvInv /\ EvTold => EmissionsOnTheirEmitter /\ EvTypeOK
  BY EvToldEnough
<1> QED  BY <1>1, EvAllInitially, EvAllStep, PTL DEF EvSpec

=============================================================================
