---------------------------- MODULE DriverQueries ----------------------------
(***************************************************************************)
(* The wrappers around a database driver, an ORM's logger, a cache store   *)
(* and a validation pipe (typeorm-driver.patch.ts, mikro-orm-logger.patch  *)
(* .ts, cache-manager.patch.ts, profiler-validation.pipe.ts): how they are *)
(* installed once over shared objects, removed when an application goes    *)
(* away, and what entry a call through them leaves.                        *)
(*                                                                         *)
(* One application after another uses the same cache store and the same    *)
(* driver; the drivers are external.                                       *)
(***************************************************************************)
EXTENDS Naturals, Sequences, FiniteSets

CONSTANTS
    DqApps,       \* applications, in the order they boot: 1..n
    DqCalls,      \* calls through the wrappers
    DqScenarios,  \* what the calls are, what the driver is
    DqNone

DqKinds == {"get", "set", "del", "query", "stream", "logQuery", "pipe"}
DqAnswers == {"value", "null", "rows", "structured", "affected", "opaque", "error"}
DqTargets == {"store", "factory", "runner", "logger"}

ASSUME DqAssumption ==
    /\ DqApps = 1..Cardinality(DqApps)
    /\ DqNone \notin DqApps /\ DqNone \notin DqAnswers
    /\ \A s \in DqScenarios :
         /\ DOMAIN s = {"kind", "profiled", "memoised", "debug"}
         /\ s.kind \in [DqCalls -> DqKinds] /\ s.profiled \in [DqCalls -> BOOLEAN]
         /\ s.memoised \in BOOLEAN /\ s.debug \in BOOLEAN

VARIABLES
    dqKind, dqProfiled,
    dqMemoised,    \* does the driver hand out one query runner only
    dqApp,         \* the application running, or DqNone
    dqNextApp,
    dqLayers,      \* target -> the wrappers around it, innermost first
    dqMarked,      \* target -> does it carry __profilerPatched
    dqDebug,       \* is the host's query logging on
    dqCall,        \* call -> stage, the runner's wrappers, the driver's answer
    dqEntries,     \* what the profile holds
    dqForwarded    \* calls the host's own logger printed

dqVars == <<dqKind, dqProfiled, dqMemoised, dqApp, dqNextApp, dqLayers, dqMarked,
            dqDebug, dqCall, dqEntries, dqForwarded>>

DqStart(s) ==
    /\ dqKind = s.kind /\ dqProfiled = s.profiled /\ dqMemoised = s.memoised
    /\ dqDebug = s.debug
    /\ dqApp = DqNone /\ dqNextApp = 1
    /\ dqLayers = [t \in DqTargets |-> <<>>]
    /\ dqMarked = [t \in DqTargets |-> FALSE]
    /\ dqCall = [c \in DqCalls |-> [stage |-> "new", layers |-> 0, answer |-> DqNone,
                                    debug |-> FALSE]]
    /\ dqEntries = <<>> /\ dqForwarded = {}

DqInit == \E s \in DqScenarios : DqStart(s)

-----------------------------------------------------------------------------
(* Installing.                                                             *)

Unmarked(targets) == {t \in targets : ~dqMarked[t]}

(* onModuleInit of the three patches: what is already marked is left alone.*)
DqModuleInit ==
    /\ dqApp = DqNone /\ dqNextApp \in DqApps
    /\ dqApp' = dqNextApp /\ dqNextApp' = dqNextApp + 1
    /\ LET wrap == Unmarked({"store", "factory", "logger"})
       IN  /\ dqLayers' = [t \in DqTargets |-> IF t \in wrap THEN Append(dqLayers[t], dqNextApp)
                                               ELSE dqLayers[t]]
           /\ dqMarked' = [t \in DqTargets |-> dqMarked[t] \/ t \in wrap]
    /\ UNCHANGED <<dqKind, dqProfiled, dqMemoised, dqDebug, dqCall, dqEntries, dqForwarded>>

(* onModuleDestroy: only the cache store's methods are restored, to what   *)
(* they were when this application wrapped them.                           *)
DqModuleDestroy ==
    /\ dqApp # DqNone
    /\ \A c \in DqCalls : dqCall[c].stage # "open"
    /\ dqApp' = DqNone
    /\ LET store   == dqLayers["store"]
           beneath == {i \in DOMAIN store : \A j \in 1..i : store[j] # dqApp}
       IN  dqLayers' = [dqLayers EXCEPT !["store"] = SubSeq(store, 1, Cardinality(beneath))]
    /\ dqMarked' = [dqMarked EXCEPT !["store"] = FALSE]
    /\ UNCHANGED <<dqKind, dqProfiled, dqMemoised, dqNextApp, dqDebug, dqCall, dqEntries,
                   dqForwarded>>

RewrappedRunner ==
    LET found == IF dqMemoised THEN dqLayers["runner"] ELSE <<>>
    IN  IF dqLayers["factory"] = <<>> THEN found ELSE Append(found, dqLayers["factory"][1])

(* The wrappers of the runner the patched createQueryRunner returns, once  *)
(* it has been through all of them: a fresh runner, or the memoised one,   *)
(* is wrapped unless it already is.                                        *)
RunnerLayers ==
    LET found == IF dqMemoised THEN dqLayers["runner"] ELSE <<>>
        marked == IF dqMemoised THEN dqMarked["runner"] ELSE FALSE
    IN  IF dqLayers["factory"] = <<>> \/ marked THEN found
        ELSE Append(found, dqLayers["factory"][1])

-----------------------------------------------------------------------------
(* Calls.                                                                  *)

AnswersOf(kind) ==
    CASE kind \in {"get", "set", "del"} -> {"value", "null", "error"}
      [] kind = "query"    -> {"rows", "structured", "affected", "opaque", "error"}
      [] kind = "stream"   -> {"value", "error"}
      [] kind = "logQuery" -> {"rows", "affected", "opaque", "error"}
      [] OTHER             -> {"value", "error"}

(* The wrappers between the caller and the driver.                         *)
LayersOf(c) ==
    CASE dqKind[c] \in {"get", "set", "del"} -> Len(dqLayers["store"])
      [] dqKind[c] \in {"query", "stream"}   -> Len(RunnerLayers)
      [] dqKind[c] = "logQuery"              -> Len(dqLayers["logger"])
      [] OTHER                               -> 1

CallDriver(c) ==
    /\ dqApp # DqNone /\ dqCall[c].stage = "new"
    /\ dqCall' = [dqCall EXCEPT ![c].stage = "open", ![c].layers = LayersOf(c)]
    /\ IF dqKind[c] \in {"query", "stream"} /\ dqMemoised
       THEN /\ dqLayers' = [dqLayers EXCEPT !["runner"] = RunnerLayers]
            /\ dqMarked' = [dqMarked EXCEPT !["runner"] = @ \/ RunnerLayers # <<>>]
       ELSE UNCHANGED <<dqLayers, dqMarked>>
    /\ UNCHANGED <<dqKind, dqProfiled, dqMemoised, dqApp, dqNextApp, dqDebug, dqEntries,
                   dqForwarded>>

CacheOperation(kind, answer) ==
    CASE kind = "get" -> IF answer = "value" THEN "GET_HIT" ELSE "GET_MISS"
      [] kind = "set" -> "SET"
      [] OTHER        -> "DEL"

(* deriveRowCount, and affected ?? results: one row here, or unknown.      *)
DeriveRowCount(answer) == IF answer \in {"rows", "structured", "affected"} THEN 1 ELSE 0

(* pushEntry: the pipe records what validates a class and passes primitives*)
(* through; here every value is of a class.                                *)
DriverEntry(c, answer) ==
    [call |-> c,
     says |-> CASE dqKind[c] \in {"get", "set", "del"} -> CacheOperation(dqKind[c], answer)
                [] dqKind[c] = "pipe" -> IF answer = "error" THEN "invalid" ELSE "valid"
                [] OTHER -> "QUERY",
     streaming |-> dqKind[c] = "stream",
     rows |-> IF dqKind[c] \in {"query", "logQuery"} THEN DeriveRowCount(answer) ELSE 0,
     error |-> answer = "error"]

(* Each wrapper appends an entry to the profile of the calling context.    *)
RecordCall(c, answer) ==
    dqEntries' = IF ~dqProfiled[c] THEN dqEntries
                 ELSE dqEntries \o [i \in 1..dqCall[c].layers |-> DriverEntry(c, answer)]

(* The host's own setting is read again for every query.                   *)
ForwardsQuery == dqDebug

(* The driver answers; the wrapper's finally block records and the answer  *)
(* or the error goes back to the caller as it came.  MikroORM calls        *)
(* logQuery once the query settled.                                        *)
DriverAnswers(c, answer) ==
    /\ dqCall[c].stage = "open" /\ dqKind[c] # "stream"
    /\ answer \in AnswersOf(dqKind[c])
    /\ dqCall' = [dqCall EXCEPT ![c].stage = "answered", ![c].answer = answer,
                                ![c].debug = dqDebug]
    /\ RecordCall(c, answer)
    /\ dqForwarded' = IF dqKind[c] = "logQuery" /\ ForwardsQuery THEN dqForwarded \cup {c}
                      ELSE dqForwarded
    /\ UNCHANGED <<dqKind, dqProfiled, dqMemoised, dqApp, dqNextApp, dqLayers, dqMarked,
                   dqDebug>>

(* A stream reports its end or its error, then its close: the first records*)
(* the read, with the profile of the context it was opened in.             *)
StreamEvent(c, event) ==
    /\ dqKind[c] = "stream"
    /\ dqCall[c].stage \in IF event = "close" THEN {"open", "answered"} ELSE {"open"}
    /\ IF dqCall[c].stage = "open"
       THEN RecordCall(c, IF event = "error" THEN "error" ELSE "value")
       ELSE UNCHANGED dqEntries
    /\ dqCall' = [dqCall EXCEPT ![c].stage = IF event = "close" THEN "closed" ELSE "answered",
                    ![c].answer = IF @ # DqNone THEN @
                                  ELSE IF event = "error" THEN "error" ELSE "value"]
    /\ UNCHANGED <<dqKind, dqProfiled, dqMemoised, dqApp, dqNextApp, dqLayers, dqMarked,
                   dqDebug, dqForwarded>>

(* setDebugMode at runtime.                                                *)
ToggleDebug ==
    /\ \E c \in DqCalls : dqKind[c] = "logQuery" /\ dqCall[c].stage \in {"new", "open"}
    /\ dqDebug' = ~dqDebug
    /\ UNCHANGED <<dqKind, dqProfiled, dqMemoised, dqApp, dqNextApp, dqLayers, dqMarked,
                   dqCall, dqEntries, dqForwarded>>

DqNext ==
    \/ DqModuleInit \/ DqModuleDestroy \/ ToggleDebug
    \/ \E c \in DqCalls :
         \/ CallDriver(c)
         \/ \E a \in DqAnswers : DriverAnswers(c, a)
         \/ \E e \in {"end", "error", "close"} : StreamEvent(c, e)

DqSpec == DqInit /\ [][DqNext]_dqVars

-----------------------------------------------------------------------------
(* Types: what the variables may hold.                                     *)
DqTypeOK ==
    /\ dqKind \in [DqCalls -> DqKinds] /\ dqProfiled \in [DqCalls -> BOOLEAN]
    /\ dqApp \in DqApps \cup {DqNone} /\ dqMarked \in [DqTargets -> BOOLEAN]
    /\ \A t \in DqTargets : \A i \in DOMAIN dqLayers[t] : dqLayers[t][i] \in DqApps
    /\ \A c \in DqCalls : dqCall[c].stage \in {"new", "open", "answered", "closed"}
    /\ dqForwarded \subseteq DqCalls

(* "a re-used runner is never wrapped twice", "a second onModuleInit would *)
(* record each operation twice": whatever the sequence of applications over*)
(* one store, driver and logger, and however often the driver hands out the*)
(* same runner, a call made in a profile leaves exactly one entry once it  *)
(* settled, which tells its outcome, and the host's logger prints exactly  *)
(* the queries it was set to print when they ran.                          *)
DriverCallRecordedOnce ==
    /\ \A c \in DqCalls :
         LET mine == {i \in DOMAIN dqEntries : dqEntries[i].call = c}
         IN  /\ Cardinality(mine) = IF dqProfiled[c] /\ dqCall[c].answer # DqNone THEN 1 ELSE 0
             /\ \A i \in mine : dqEntries[i].error = (dqCall[c].answer = "error")
    /\ dqForwarded = {c \in DqCalls : dqKind[c] = "logQuery" /\ dqCall[c].debug}
=============================================================================
