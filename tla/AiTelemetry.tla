----------------------------- MODULE AiTelemetry -----------------------------
(***************************************************************************)
(* The AI collector: the telemetry integration registered once with the AI *)
(* SDK (ai-telemetry.ts), the agent frames that name who ran a generation  *)
(* (ai-agent.ts) and the panel that drains what was recorded               *)
(* (ai.collector.ts).                                                      *)
(*                                                                         *)
(* An operation is one generateText / streamText / generateObject / harness*)
(* turn, known by its call id.  The SDK is external: it starts an          *)
(* operation, runs model calls step after step, each one over one or more  *)
(* attempts, runs tools between them, and ends the operation or reports an *)
(* error.  Operations of one request run concurrently.                     *)
(***************************************************************************)
EXTENDS Naturals, FiniteSets, SequencesExt

CONSTANTS
    AiOps,        \* call ids
    AiScenarios,  \* what the operations are and the profile they run in
    AiNames,      \* the names an agent or a profileAgent wrapper may carry
    AiMaxSteps,   \* bound: model calls of an operation
    AiMaxTools,   \* bound: tool executions of an operation
    AiMaxAttempts,\* bound: provider requests over the whole profile
    AiNone        \* no value

(* What an operation is: whether the SDK reports its model calls, whether  *)
(* it is a harness turn, where its usage is reported, and how it declares  *)
(* structured output.                                                      *)
AiShape == [events : BOOLEAN, harness : BOOLEAN, usage : {"call", "turn"},
            output : {"none", "direct", "promise"}]

(* An agent call of a path: the agent, whether it is called through a      *)
(* profileAgent wrapper and under which name, and the id it declares.      *)
AiAgentCall(target, wrapped, name, id) ==
    [target |-> target, wrapped |-> wrapped, name |-> name, id |-> id]

(* A scenario: each operation's shape, the agent calls it runs under and   *)
(* whether a profile is open where its events fire; the profile's kind and *)
(* whether the module promotes it.                                         *)
ASSUME AiAssumption ==
    /\ AiNone \notin AiNames
    /\ \A s \in AiScenarios :
         /\ DOMAIN s = {"ops", "entrypoint", "promote"} /\ DOMAIN s.ops = AiOps
         /\ s.entrypoint \in {"http", "command"} /\ s.promote \in BOOLEAN
         /\ \A o \in AiOps :
              LET op == s.ops[o]
              IN  /\ DOMAIN op = {"shape", "path", "profiled"}
                  /\ op.shape \in AiShape /\ op.profiled \in BOOLEAN
                  /\ op.shape.harness => op.shape.events
                  /\ op.shape.usage = "turn" => op.shape.harness
                  /\ ~op.shape.events => op.shape.output = "direct"
                  /\ op.path \in Seq(Range(op.path))
                  /\ \A i \in DOMAIN op.path : op.path[i].target # "none"
    /\ IsFiniteSet(AiOps)
    /\ AiNone \notin Nat /\ AiNone \notin [of : Nat \cup {AiNone}, outcome : {"answered", "refused"}]
    /\ AiMaxSteps \in Nat /\ AiMaxTools \in Nat /\ AiMaxAttempts \in Nat

VARIABLES
    aiSdk,          \* op -> the SDK's side: stage, tokens spent, spans tried
    aiShape,        \* op -> shape
    aiPath,         \* op -> the agent calls it runs under
    aiProfiled,     \* op -> is a profile open where its events fire
    operations,     \* op -> Operation; inMap: is it in the operations map
    pendingCalls,   \* op -> PendingCall, or AiNone
    pendingTools,   \* op -> number of tools started and not ended
    outputSpec,     \* op -> the promise of the output format
    aiLog,          \* op -> the entries it recorded, in order
    aiSpan,         \* last span id reserved in the profile
    aiEntrypoint,   \* profile.entrypoint.type
    promoteEntrypoint,
    aiPanel         \* the collected panel, or AiNone

aiVars == <<aiSdk, aiShape, aiPath, aiProfiled, operations, pendingCalls,
            pendingTools, outputSpec, aiLog, aiSpan, aiEntrypoint,
            promoteEntrypoint, aiPanel>>

-----------------------------------------------------------------------------
(* Agent frames.                                                           *)

AiNoFrame == [info |-> AiNone, target |-> "none"]

(* withFrame: stands down when the frame open is already this agent's.     *)
WithFrame(frame, info, target) ==
    IF frame.target = target THEN frame ELSE [info |-> info, target |-> target]

(* The frame the body of an agent call runs in: profileAgent's proxy always*)
(* opens one, then the instrumented method opens its own if the agent      *)
(* declares an id and the frame is not already for the same agent.         *)
FrameIn(frame, call) ==
    LET outer == IF call.wrapped
                 THEN [info   |-> IF call.name # AiNone THEN call.name ELSE call.id,
                       target |-> call.target]
                 ELSE frame
    IN  IF call.id = AiNone THEN outer ELSE WithFrame(outer, call.id, call.target)

FrameAfter(path) == FoldLeft(FrameIn, AiNoFrame, path)
AgentOf(o) == FrameAfter(aiPath[o]).info

-----------------------------------------------------------------------------
(* The entries.                                                            *)

AiEntryOf(o, kind, step, usage) ==
    [kind |-> kind, step |-> step, usage |-> usage, agent |-> AgentOf(o),
     span |-> AiNone, payload |-> AiNone, schema |-> FALSE, result |-> FALSE]

AiCallsOf(o) == {i \in DOMAIN aiLog[o] : aiLog[o][i].kind # "tool"}
AiUsage(o, n) == MapThenSumSet(LAMBDA i : aiLog[o][i].usage, {i \in AiCallsOf(o) : i <= n})

(* record: dropped without a profile; the last call of an operation still  *)
(* in the map is remembered; an HTTP profile becomes an AI one.            *)
Recorded(o, entry, ops) ==
    IF ~aiProfiled[o]
    THEN operations' = ops /\ UNCHANGED <<aiLog, aiEntrypoint>>
    ELSE /\ aiLog' = [aiLog EXCEPT ![o] = Append(@, entry)]
         /\ aiEntrypoint' = IF promoteEntrypoint /\ aiEntrypoint = "http"
                            THEN "ai" ELSE aiEntrypoint
         /\ operations' = IF entry.kind = "tool" \/ ~ops[o].inMap THEN ops
                          ELSE [ops EXCEPT ![o].lastCall = Len(aiLog[o]) + 1]

-----------------------------------------------------------------------------
NoOperation == [inMap |-> FALSE, steps |-> 0, lastCall |-> 0, usageReported |-> FALSE,
                payload |-> AiNone, schema |-> FALSE]

AiStart(s) ==
    /\ aiShape = [o \in AiOps |-> s.ops[o].shape]
    /\ aiPath = [o \in AiOps |-> s.ops[o].path]
    /\ aiProfiled = [o \in AiOps |-> s.ops[o].profiled]
    /\ aiEntrypoint = s.entrypoint
    /\ promoteEntrypoint = s.promote
    /\ aiSdk = [o \in AiOps |-> [stage |-> "new", spent |-> 0, tools |-> 0, attempt |-> AiNone]]
    /\ operations = [o \in AiOps |-> NoOperation]
    /\ pendingCalls = [o \in AiOps |-> AiNone]
    /\ pendingTools = [o \in AiOps |-> 0]
    /\ outputSpec = [o \in AiOps |-> "none"]
    /\ aiLog = [o \in AiOps |-> <<>>]
    /\ aiSpan = 0
    /\ aiPanel = AiNone

AiInit == \E s \in AiScenarios : AiStart(s)

AiStage(o, stage) == aiSdk' = [aiSdk EXCEPT ![o].stage = stage]

(* onStart *)
OperationStart(o) ==
    /\ aiSdk[o].stage = "new"
    /\ AiStage(o, "open")
    /\ operations' = [operations EXCEPT ![o] =
          [NoOperation EXCEPT !.inMap = TRUE, !.schema = aiShape[o].output = "direct"]]
    /\ outputSpec' = [outputSpec EXCEPT ![o] =
                        IF aiShape[o].output = "promise" THEN "pending" ELSE "none"]
    /\ UNCHANGED <<aiShape, aiPath, aiProfiled, pendingCalls, pendingTools, aiLog,
                   aiSpan, aiEntrypoint, promoteEntrypoint, aiPanel>>

(* The format promise resolves: kept on the operation object, which its    *)
(* closure holds even once the operation has left the map, and folded into *)
(* the last call when there is one (foldOutputSpec).                       *)
OutputSpecSettles(o) ==
    /\ outputSpec[o] = "pending"
    /\ outputSpec' = [outputSpec EXCEPT ![o] = "settled"]
    /\ operations' = [operations EXCEPT ![o].schema = TRUE]
    /\ aiLog' = IF operations[o].lastCall = 0 THEN aiLog
                ELSE [aiLog EXCEPT ![o][operations[o].lastCall].schema = TRUE]
    /\ UNCHANGED <<aiSdk, aiShape, aiPath, aiProfiled, pendingCalls, pendingTools,
                   aiSpan, aiEntrypoint, promoteEntrypoint, aiPanel>>

(* onLanguageModelCallStart *)
ModelCallStart(o) ==
    /\ aiSdk[o].stage = "open" /\ aiShape[o].events
    /\ operations[o].steps < AiMaxSteps
    /\ pendingTools[o] = 0
    /\ aiSdk' = [aiSdk EXCEPT ![o].stage = "calling", ![o].attempt = AiNone]
    /\ pendingCalls' = [pendingCalls EXCEPT ![o] = [span |-> AiNone, payload |-> AiNone]]
    /\ UNCHANGED <<aiShape, aiPath, aiProfiled, operations, pendingTools, outputSpec,
                   aiLog, aiSpan, aiEntrypoint, promoteEntrypoint, aiPanel>>

(* runAsSpanParent: a fresh span id, only while something is profiled.     *)
ReserveSpan(o) == IF aiProfiled[o] THEN aiSpan + 1 ELSE aiSpan

(* executeLanguageModelCall, up to the request: one run per attempt.       *)
AttemptStart(o) ==
    /\ aiSdk[o].stage = "calling" /\ aiSpan < AiMaxAttempts
    /\ aiSpan' = ReserveSpan(o)
    /\ aiSdk' = [aiSdk EXCEPT ![o].stage = "requesting",
                              ![o].attempt = IF aiProfiled[o] THEN aiSpan + 1 ELSE AiNone]
    /\ pendingCalls' = IF aiProfiled[o] THEN [pendingCalls EXCEPT ![o].span = aiSpan + 1]
                       ELSE pendingCalls
    /\ UNCHANGED <<aiShape, aiPath, aiProfiled, operations, pendingTools, outputSpec,
                   aiLog, aiEntrypoint, promoteEntrypoint, aiPanel>>

(* executeLanguageModelCall, once the request settled: the attempt's bodies*)
(* replace those of the one before it.                                     *)
AttemptSettles(o, outcome) ==
    /\ aiSdk[o].stage = "requesting"
    /\ AiStage(o, IF outcome = "answered" THEN "answered" ELSE "calling")
    /\ pendingCalls' = [pendingCalls EXCEPT ![o].payload =
                          [of |-> aiSdk[o].attempt, outcome |-> outcome]]
    /\ UNCHANGED <<aiShape, aiPath, aiProfiled, operations, pendingTools, outputSpec,
                   aiLog, aiSpan, aiEntrypoint, promoteEntrypoint, aiPanel>>

(* usageOf: what the call's own event reports; every call spends a token.  *)
UsageOf(o) == IF aiShape[o].usage = "call" THEN 1 ELSE 0

(* onLanguageModelCallEnd *)
ModelCallEnd(o) ==
    /\ aiSdk[o].stage = "answered"
    /\ aiSdk' = [aiSdk EXCEPT ![o].stage = "open", ![o].spent = @ + 1]
    /\ pendingCalls' = [pendingCalls EXCEPT ![o] = AiNone]
    /\ LET op    == operations[o]
           entry == [AiEntryOf(o, "call", op.steps, UsageOf(o)) EXCEPT
                       !.schema = op.schema, !.span = pendingCalls[o].span,
                       !.payload = pendingCalls[o].payload]
       IN  Recorded(o, entry, [operations EXCEPT
                         ![o].steps = @ + 1,
                         ![o].usageReported = @ \/ UsageOf(o) > 0])
    /\ UNCHANGED <<aiShape, aiPath, aiProfiled, pendingTools, outputSpec, aiSpan,
                   promoteEntrypoint, aiPanel>>

(* onToolExecutionStart *)
ToolStart(o) ==
    /\ aiSdk[o].stage = "open" /\ operations[o].steps > 0
    /\ aiSdk[o].tools < AiMaxTools
    /\ aiSdk' = [aiSdk EXCEPT ![o].tools = @ + 1]
    /\ pendingTools' = [pendingTools EXCEPT ![o] = @ + 1]
    /\ UNCHANGED <<aiShape, aiPath, aiProfiled, operations, pendingCalls, outputSpec,
                   aiLog, aiSpan, aiEntrypoint, promoteEntrypoint, aiPanel>>

(* onToolExecutionEnd *)
ToolEnd(o) ==
    /\ pendingTools[o] > 0
    /\ pendingTools' = [pendingTools EXCEPT ![o] = @ - 1]
    /\ Recorded(o, AiEntryOf(o, "tool", 0, 0), operations)
    /\ UNCHANGED <<aiSdk, aiShape, aiPath, aiProfiled, pendingCalls, outputSpec, aiSpan,
                   promoteEntrypoint, aiPanel>>

(* onObjectStepEnd *)
ObjectStepEnd(o) ==
    /\ aiSdk[o].stage = "open" /\ ~aiShape[o].events
    /\ operations[o].payload = AiNone
    /\ operations' = [operations EXCEPT ![o].payload = [of |-> AiNone, outcome |-> "answered"]]
    /\ UNCHANGED <<aiSdk, aiShape, aiPath, aiProfiled, pendingCalls, pendingTools, outputSpec,
                   aiLog, aiSpan, aiEntrypoint, promoteEntrypoint, aiPanel>>

FoldTurnAlways(o, entry) ==
    IF aiShape[o].harness /\ aiSdk[o].spent > 0
    THEN [entry EXCEPT !.usage = @ + aiSdk[o].spent] ELSE entry

(* foldTurnUsage: only a harness turn none of whose calls reported a token.*)
FoldTurnUsage(o, entry) ==
    IF aiShape[o].harness /\ ~operations[o].usageReported /\ aiSdk[o].spent > 0
    THEN [entry EXCEPT !.usage = aiSdk[o].spent] ELSE entry

(* onEnd, of an operation that recorded a call.                            *)
OperationEnd(o) ==
    /\ aiSdk[o].stage = "open" /\ pendingTools[o] = 0
    /\ aiShape[o].events /\ operations[o].steps > 0
    /\ AiStage(o, "ended")
    /\ operations' = [operations EXCEPT ![o].inMap = FALSE]
    /\ LET last == operations[o].lastCall
       IN  aiLog' = IF last = 0 THEN aiLog
                    ELSE [aiLog EXCEPT ![o][last] =
                            [FoldTurnUsage(o, @) EXCEPT !.result = TRUE]]
    /\ UNCHANGED <<aiShape, aiPath, aiProfiled, pendingCalls, pendingTools, outputSpec,
                   aiSpan, aiEntrypoint, promoteEntrypoint, aiPanel>>

(* onEnd, of an operation without model-call events: synthesize.           *)
ObjectEnd(o) ==
    /\ aiSdk[o].stage = "open" /\ ~aiShape[o].events
    /\ aiSdk' = [aiSdk EXCEPT ![o].stage = "ended", ![o].spent = @ + 1]
    /\ LET entry == [AiEntryOf(o, "call", 0, 1) EXCEPT
                       !.schema = operations[o].schema, !.payload = operations[o].payload,
                       !.result = TRUE]
       IN  Recorded(o, entry, [operations EXCEPT ![o].inMap = FALSE])
    /\ UNCHANGED <<aiShape, aiPath, aiProfiled, pendingCalls, pendingTools, outputSpec,
                   aiSpan, promoteEntrypoint, aiPanel>>

(* onError: what is pending goes, the operation stays in the map.          *)
OperationError(o) ==
    /\ aiSdk[o].stage \in {"open", "calling"} /\ pendingTools[o] = 0
    /\ AiStage(o, "failed")
    /\ pendingCalls' = [pendingCalls EXCEPT ![o] = AiNone]
    /\ LET pending == pendingCalls[o]
           entry   == AiEntryOf(o, "error", operations[o].steps, 0)
       IN  Recorded(o, IF pending = AiNone THEN entry
                       ELSE [entry EXCEPT !.span = pending.span, !.payload = pending.payload],
                    operations)
    /\ UNCHANGED <<aiShape, aiPath, aiProfiled, pendingTools, outputSpec, aiSpan,
                   promoteEntrypoint, aiPanel>>

(* AiCollector.collect: the entries move to the panel, which sums them once*)
AiCollect ==
    /\ aiPanel = AiNone
    /\ \E o \in AiOps : aiSdk[o].stage # "new"
    /\ aiPanel' = [totalTokens |-> MapThenSumSet(LAMBDA o : AiUsage(o, Len(aiLog[o])), AiOps),
                   over |-> {o \in AiOps : aiProfiled[o] /\ aiSdk[o].stage = "ended"}]
    /\ UNCHANGED <<aiSdk, aiShape, aiPath, aiProfiled, operations, pendingCalls, pendingTools,
                   outputSpec, aiLog, aiSpan, aiEntrypoint, promoteEntrypoint>>

AiNext ==
    \/ \E o \in AiOps : \/ OperationStart(o) \/ OutputSpecSettles(o)
                        \/ ModelCallStart(o) \/ AttemptStart(o)
                        \/ \E outcome \in {"answered", "refused"} : AttemptSettles(o, outcome)
                        \/ ModelCallEnd(o) \/ ToolStart(o) \/ ToolEnd(o)
                        \/ ObjectStepEnd(o) \/ OperationEnd(o) \/ ObjectEnd(o)
                        \/ OperationError(o)
    \/ AiCollect

AiSpec == AiInit /\ [][AiNext]_aiVars

-----------------------------------------------------------------------------
(* Entries are well-formed and every index the maps keep points into them. *)
AiTypeOK ==
    /\ \A o \in AiOps :
         /\ aiSdk[o].stage \in {"new", "open", "calling", "requesting", "answered",
                               "ended", "failed"}
         /\ operations[o].lastCall \in 0..Len(aiLog[o])
         /\ operations[o].steps <= AiMaxSteps
         /\ pendingTools[o] <= aiSdk[o].tools
         /\ pendingCalls[o] # AiNone =>
              aiSdk[o].stage \in {"calling", "requesting", "answered"}
         /\ \A i \in DOMAIN aiLog[o] : aiLog[o][i].kind \in {"call", "tool", "error"}
    /\ aiEntrypoint \in {"http", "command", "ai"}

AiSettled(o) == aiSdk[o].stage \in {"ended", "failed"}

(* Tokens are counted once: whatever the interleaving of the operations of *)
(* a request, retries and tools included, the entries of an operation that *)
(* ended add up to the tokens the SDK spent on it, whether each call       *)
(* reported its own (onLanguageModelCallEnd) or only the turn did          *)
(* (foldTurnUsage); and the total AiCollector.collect computed once misses *)
(* no operation that was over when it ran.                                 *)
AiUsageCountedOnce ==
    /\ \A o \in AiOps : aiProfiled[o] /\ aiSdk[o].stage = "ended" =>
          AiUsage(o, Len(aiLog[o])) = aiSdk[o].spent
    /\ aiPanel # AiNone =>
          aiPanel.totalTokens >= MapThenSumSet(LAMBDA o : aiSdk[o].spent, aiPanel.over)

(* A recorded call keeps the span and the bodies of one and the same       *)
(* attempt, the last it made: the provider request nested under that span  *)
(* is the one whose answer the panel shows.                                *)
AiSpanOfAnsweringAttempt ==
    \A o \in AiOps : \A i \in AiCallsOf(o) :
        LET entry == aiLog[o][i]
        IN  /\ entry.span # AiNone => entry.payload # AiNone /\ entry.payload.of = entry.span
            /\ \A p \in AiOps : \A j \in AiCallsOf(p) :
                 entry.span # AiNone /\ entry.span = aiLog[p][j].span => <<p, j>> = <<o, i>>

(* What only the finished operation knows (the parsed object, the settled  *)
(* output schema) lands on its own last call and on no other entry, however*)
(* late the format promise resolves.                                       *)
AiFoldedIntoLastCall ==
    \A o \in AiOps :
        LET calls == AiCallsOf(o)
        IN  aiProfiled[o] /\ aiSdk[o].stage = "ended" =>
              /\ calls # {} /\ {i \in calls : aiLog[o][i].result} = {Max(calls)}
              /\ outputSpec[o] # "pending" /\ aiShape[o].output # "none" =>
                   aiLog[o][Max(calls)].schema

(* Every model call leaves exactly one entry, numbered by its step, and a  *)
(* failure exactly one more; nothing pending outlives the operation.       *)
AiOneEntryPerCall ==
    \A o \in AiOps : AiSettled(o) =>
        /\ pendingCalls[o] = AiNone /\ pendingTools[o] = 0
        /\ aiSdk[o].stage = "ended" => ~operations[o].inMap
        /\ aiProfiled[o] =>
             LET calls == AiCallsOf(o)
             IN  /\ Cardinality(calls) = aiSdk[o].spent + (IF aiSdk[o].stage = "failed" THEN 1 ELSE 0)
                 /\ {aiLog[o][i].step : i \in calls} = 0..Cardinality(calls) - 1

(* Every entry names the agent that ran it: the wrapper's name when the    *)
(* innermost call went through profileAgent, even though the class it      *)
(* wraps opens a frame of its own, and an agent called by another one is   *)
(* not taken for its caller.                                               *)
AiNamedByInnermostAgent ==
    \A o \in AiOps : \A i \in DOMAIN aiLog[o] :
        LET path  == aiPath[o]
            last  == path[Len(path)]
            agent == aiLog[o][i].agent
        IN  IF path = <<>> THEN agent = AiNone
            ELSE /\ last.wrapped /\ last.name # AiNone => agent = last.name
                 /\ ~last.wrapped /\ last.id # AiNone
                      /\ (\A k \in 1..Len(path) - 1 : path[k].target # last.target)
                        => agent = last.id

(* What the panel shows of a generation is that generation's: its tokens,  *)
(* the attempt that answered, its result and the agent that asked for it.  *)
AiEntriesTellTheCall ==
    /\ AiUsageCountedOnce
    /\ AiSpanOfAnsweringAttempt
    /\ AiFoldedIntoLastCall
    /\ AiNamedByInnermostAgent
=============================================================================
