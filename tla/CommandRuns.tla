----------------------------- MODULE CommandRuns -----------------------------
(***************************************************************************)
(* The commander package: every CommandRunner's run() and every option     *)
(* parser is wrapped (command-profiler.explorer.ts), a run is profiled and *)
(* persisted before it is reported over, and a parser that rejects its     *)
(* input leaves a profile in the core's deferred queue                     *)
(* (command-profiler.service.ts), drained when the application closes.     *)
(*                                                                         *)
(* nest-commander is external: it parses the argv, runs the command, and   *)
(* closes the application or exits.                                        *)
(***************************************************************************)
EXTENDS Naturals, FiniteSets, Sequences

CONSTANTS
    CmRuns,       \* invocations
    CmScenarios,  \* which command each invocation is of, the storage, the core
    CmNone

ASSUME CmAssumption ==
    /\ \A s \in CmScenarios :
         /\ DOMAIN s = {"command", "providers", "crossProcess", "core"}
         /\ s.command \in [CmRuns -> {"one", "two"}]
         /\ s.providers \in Seq({"one", "two"})
         /\ s.crossProcess \in BOOLEAN /\ s.core \in BOOLEAN
    /\ CmNone \notin {"ok", "error", "rejected"}

VARIABLES
    cmConfig,
    cmWrapped,   \* command -> wrappers around its run() and its parsers
    cmSeen,      \* the explorer's WeakSet
    cmRun,       \* invocation -> stage, the command's own outcome, the caller's
    cmProfiles,  \* the profiles built
    cmDeferred,  \* profiles in the core's deferred queue
    cmStored, cmWarned,
    cmApp        \* booting, up, closing, closed

cmVars == <<cmConfig, cmWrapped, cmSeen, cmRun, cmProfiles, cmDeferred, cmStored, cmWarned,
            cmApp>>

CmStart(s) ==
    /\ cmConfig = s
    /\ cmWrapped = [c \in {"one", "two"} |-> 0] /\ cmSeen = {}
    /\ cmRun = [r \in CmRuns |-> [stage |-> "new", outcome |-> CmNone, told |-> CmNone]]
    /\ cmProfiles = {} /\ cmDeferred = {} /\ cmStored = {} /\ cmWarned = FALSE
    /\ cmApp = 1

CmInit == \E s \in CmScenarios : CmStart(s)

(* onApplicationBootstrap: provider after provider; one listed twice, under*)
(* an alias, is wrapped once.  cmApp counts the providers to look at.      *)
Bootstrap ==
    /\ cmApp \in DOMAIN cmConfig.providers
    /\ LET command == cmConfig.providers[cmApp]
       IN  /\ cmWrapped' = IF command \in cmSeen THEN cmWrapped
                           ELSE [cmWrapped EXCEPT ![command] = @ + 1]
           /\ cmSeen' = cmSeen \cup {command}
    /\ cmApp' = cmApp + 1
    /\ UNCHANGED <<cmConfig, cmRun, cmProfiles, cmDeferred, cmStored, cmWarned>>

CmUp == cmApp = Cardinality(DOMAIN cmConfig.providers) + 1
CmClosing == Cardinality(DOMAIN cmConfig.providers) + 2
CmClosed == Cardinality(DOMAIN cmConfig.providers) + 3

CmMove(r, from, to) == cmRun[r].stage = from /\ cmRun' = [cmRun EXCEPT ![r].stage = to]

(* warnIfProcessLocalStorage: once.                                        *)
Warned == cmWarned' = (cmWarned \/ ~cmConfig.crossProcess)

(* A parser accepts its input, or rejects it before run() is entered: the  *)
(* failure is filed for the deferred queue and thrown on untouched.        *)
Parse(r) ==
    /\ CmUp /\ CmMove(r, "new", "parsed")
    /\ UNCHANGED <<cmConfig, cmWrapped, cmSeen, cmProfiles, cmDeferred, cmStored, cmWarned, cmApp>>

ProfileParseFailure(r) ==
    IF ~cmConfig.core
    THEN UNCHANGED <<cmProfiles, cmDeferred, cmWarned>>
    ELSE LET built == {[run |-> r, layer |-> i, success |-> FALSE] :
                         i \in 1..cmWrapped[cmConfig.command[r]]}
         IN  /\ cmProfiles' = cmProfiles \cup built
             /\ cmDeferred' = cmDeferred \cup built
             /\ Warned

ParserRejects(r) ==
    /\ CmUp /\ cmRun[r].stage = "new"
    /\ cmRun' = [cmRun EXCEPT ![r] = [stage |-> "over", outcome |-> "rejected",
                                      told |-> "rejected"]]
    /\ ProfileParseFailure(r)
    /\ UNCHANGED <<cmConfig, cmWrapped, cmSeen, cmStored, cmApp>>

(* profile: without a core the command just runs.                          *)
Run(r) ==
    /\ CmUp /\ CmMove(r, "parsed", "running")
    /\ IF cmConfig.core /\ cmWrapped[cmConfig.command[r]] > 0 THEN Warned ELSE UNCHANGED cmWarned
    /\ UNCHANGED <<cmConfig, cmWrapped, cmSeen, cmProfiles, cmDeferred, cmStored, cmApp>>

(* The command ends; finalize builds what is to be persisted.              *)
CommandEnds(r, outcome) ==
    /\ cmRun[r].stage = "running"
    /\ IF cmConfig.core /\ cmWrapped[cmConfig.command[r]] > 0
       THEN /\ cmRun' = [cmRun EXCEPT ![r].stage = "persisting", ![r].outcome = outcome]
            /\ cmProfiles' = cmProfiles \cup
                 {[run |-> r, layer |-> i, success |-> outcome = "ok"] :
                    i \in 1..cmWrapped[cmConfig.command[r]]}
       ELSE /\ cmRun' = [cmRun EXCEPT ![r] = [stage |-> "over", outcome |-> outcome,
                                              told |-> outcome]]
            /\ UNCHANGED cmProfiles
    /\ UNCHANGED <<cmConfig, cmWrapped, cmSeen, cmDeferred, cmStored, cmWarned, cmApp>>

ToldOfTheSave(outcome, saved) == IF saved THEN outcome ELSE "error"

(* What the caller of run() sees once the save settled.                    *)
ToldTheCaller(outcome, saved) == outcome

(* core.persist settles; a failing save is only logged.                    *)
PersistSettles(r, saved) ==
    /\ cmRun[r].stage = "persisting"
    /\ cmRun' = [cmRun EXCEPT ![r].stage = IF saved THEN "over" ELSE "unsaved",
                              ![r].told = ToldTheCaller(cmRun[r].outcome, saved)]
    /\ cmStored' = IF saved THEN cmStored \cup {p \in cmProfiles : p.run = r} ELSE cmStored
    /\ UNCHANGED <<cmConfig, cmWrapped, cmSeen, cmProfiles, cmDeferred, cmWarned, cmApp>>

(* A deferred profile is persisted when its turn comes, or at shutdown.    *)
DeferredPersists(p) ==
    /\ p \in cmDeferred
    /\ cmDeferred' = cmDeferred \ {p} /\ cmStored' = cmStored \cup {p}
    /\ UNCHANGED <<cmConfig, cmWrapped, cmSeen, cmRun, cmProfiles, cmWarned, cmApp>>

(* The application closes once its commands are over; the core's shutdown  *)
(* hook waits for the deferred queue.                                      *)
CloseApp ==
    /\ CmUp /\ \A r \in CmRuns : cmRun[r].stage \in {"over", "unsaved"}
    /\ cmApp' = CmClosing
    /\ UNCHANGED <<cmConfig, cmWrapped, cmSeen, cmRun, cmProfiles, cmDeferred, cmStored, cmWarned>>
AppClosed ==
    /\ cmApp = CmClosing /\ cmDeferred = {}
    /\ cmApp' = CmClosed
    /\ UNCHANGED <<cmConfig, cmWrapped, cmSeen, cmRun, cmProfiles, cmDeferred, cmStored, cmWarned>>

CmNext ==
    \/ Bootstrap \/ CloseApp \/ AppClosed
    \/ \E r \in CmRuns :
         \/ Parse(r) \/ ParserRejects(r) \/ Run(r)
         \/ \E o \in {"ok", "error"} : CommandEnds(r, o)
         \/ \E s \in BOOLEAN : PersistSettles(r, s)
    \/ \E p \in cmProfiles : DeferredPersists(p)

CmSpec == CmInit /\ [][CmNext]_cmVars

-----------------------------------------------------------------------------
(* Types: what the variables may hold.                                     *)
CmTypeOK ==
    /\ cmConfig \in CmScenarios /\ cmSeen \subseteq {"one", "two"}
    /\ cmApp \in 1..CmClosed
    /\ cmDeferred \subseteq cmProfiles /\ cmStored \subseteq cmProfiles
    /\ \A r \in CmRuns : cmRun[r].stage \in {"new", "parsed", "running", "persisting", "over",
                                             "unsaved"}

(* "Persistence must never fail the command or replace the command's own   *)
(* error" and "the CLI must fail exactly as it did before": a caller is    *)
(* told the command's own outcome, at a moment its single profile, with    *)
(* that outcome, is stored unless its save failed; a parse failure's is    *)
(* stored by the time the application is closed.                           *)
CommandOutcomeKept ==
    \A r \in CmRuns :
        LET mine == {p \in cmProfiles : p.run = r}
            profiled == cmConfig.core /\ cmWrapped[cmConfig.command[r]] > 0
            storedByNow == /\ cmRun[r].stage # "unsaved"
                           /\ cmRun[r].outcome # "rejected" \/ cmApp = CmClosed
        IN  cmRun[r].told # CmNone =>
              /\ cmRun[r].told = cmRun[r].outcome
              /\ Cardinality(mine) = (IF profiled THEN 1 ELSE 0)
              /\ \A p \in mine : p.success = (cmRun[r].outcome = "ok")
              /\ storedByNow => mine \subseteq cmStored
=============================================================================
