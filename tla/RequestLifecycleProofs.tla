----------------------- MODULE RequestLifecycleProofs -----------------------
(* Proofs about RequestLifecycle, for every number of collectors, every set of *)
(* routes and every bound.                                                     *)
EXTENDS MCRequestLifecycle, SequenceTheorems, TLAPS

-----------------------------------------------------------------------------
(* Lemmas about the building blocks *)

LEMMA FirstCollector == 1 \in Collectors /\ 1 \in 0..N /\ 0 \in 0..N
  BY ConstantsAssumption DEF Collectors

(* Starting a pipeline leaves the jobs and the captured entries well formed. *)
LEMMA StartPipelineType ==
  ASSUME TypeOK, NEW j \in JobIds, StartPipeline(j)
  PROVE  jobs' \in [JobIds -> JobType] /\ raw' \in [Collectors -> Nat] /\ panels' = panels
  BY FirstCollector DEF TypeOK, StartPipeline, JobType

LEMMA ScheduleSaveType ==
  ASSUME TypeOK, NEW j \in JobIds, ScheduleSave(j)
  PROVE  jobs' \in [JobIds -> JobType] /\ raw' = raw /\ panels' = panels
  BY FirstCollector DEF TypeOK, ScheduleSave, JobType

LEMMA FinalizeType ==
  ASSUME NEW status \in {"ok", "error"}, NEW body \in BodyType,
         NEW stream \in {"none", "whole", "aborted"}, NEW when \in MeasuredType,
         Finalize(status, body, stream, when)
  PROVE  response' \in ResponseType /\ measured' \in MeasuredType /\ Closed'
  BY DEF Finalize, ResponseType, BodyType, Closed

(* What the write wrappers leave is a transport. *)
LEMMA RepliedType ==
  ASSUME NEW t \in TransportType, NEW body \in BodyType, NEW status \in {"ok", "error"}
  PROVE  Replied(t, body, status) \in TransportType
<1> DEFINE chunks == IF body = "none" THEN t.chunks ELSE t.chunks + 1
           kept == IF t.body = "none" THEN body ELSE t.body
<1>1. chunks \in Nat /\ kept \in BodyType
  BY DEF TransportType
<1>2. Replied(t, body, status) = [t EXCEPT !.chunks = chunks, !.body = kept,
                                           !.status = status, !.ended = TRUE]
  BY DEF Replied
<1> HIDE DEF chunks, kept
<1> QED
  BY <1>1, <1>2 DEF TransportType

LEMMA WrittenType ==
  ASSUME transport \in TransportType, NEW json \in BOOLEAN, graphql \in BOOLEAN,
         CollectBody \in BOOLEAN
  PROVE  Written(json) \in TransportType
<1> DEFINE t == transport
           first == t.chunks = 0
           buffering == IF first THEN json /\ (CollectBody \/ graphql) ELSE t.buffering
           streaming == IF first THEN handler = "stream" ELSE t.streaming
           buffered == IF buffering THEN t.buffered + 1 ELSE t.buffered
<1>1. t.chunks + 1 \in Nat /\ t.chunks \in Nat /\ t.buffered \in Nat
  BY DEF TransportType
<1>2. buffering \in BOOLEAN /\ streaming \in BOOLEAN
  BY DEF TransportType
<1>3. buffered \in Nat
  BY <1>1, <1>2
<1>4. Written(json) = [t EXCEPT !.chunks = t.chunks + 1, !.streaming = streaming,
                                !.buffering = buffering, !.buffered = buffered]
  BY DEF Written
<1> HIDE DEF streaming, buffering, buffered
<1> QED
  BY <1>1, <1>2, <1>3, <1>4 DEF TransportType

LEMMA EndedWithType ==
  ASSUME transport \in TransportType, NEW last \in BOOLEAN
  PROVE  EndedWith(last) \in TransportType
<1> DEFINE t == transport
           chunks == IF last THEN t.chunks + 1 ELSE t.chunks
           captured == IF last THEN IF t.chunks = 0 THEN "whole" ELSE "part"
                       ELSE IF t.buffered \in 1..MaxBuffered THEN "whole" ELSE "none"
           body == IF t.body = "none" THEN captured ELSE t.body
<1>1. chunks \in Nat
  BY DEF TransportType
<1>2. captured \in BodyType
  BY DEF BodyType
<1>3. body \in BodyType
  BY <1>2 DEF TransportType
<1>4. EndedWith(last) = [t EXCEPT !.chunks = chunks, !.body = body, !.ended = TRUE]
  BY DEF EndedWith
<1> HIDE DEF chunks, captured, body
<1> QED
  BY <1>1, <1>3, <1>4 DEF TransportType

LEMMA StreamType ==
  ASSUME NEW aborted \in BOOLEAN
  PROVE  Stream(aborted) \in {"none", "whole", "aborted"}
  BY DEF Stream

LEMMA SingletonIsSeq ==
  ASSUME NEW S, NEW x \in S
  PROVE  <<x>> \in Seq(S)
  OBVIOUS

LEMMA EnvelopeErrorsType ==
  ASSUME NEW body
  PROVE  EnvelopeErrors(body) \in ExceptionsType
<1>1. <<"envelope">> \in ExceptionsType
  BY SingletonIsSeq DEF ExceptionsType
<1>2. << >> \in ExceptionsType
  BY EmptySeq DEF ExceptionsType
<1>3. EnvelopeErrors(body) = <<"envelope">> \/ EnvelopeErrors(body) = << >>
  BY Zenon DEF EnvelopeErrors
<1> QED
  BY <1>1, <1>2, <1>3

(* What the steps do to the observations. *)
LEMMA HistoryUpdates ==
  ASSUME TypeOK, NEW a \in Nat, NEW b \in Nat, NEW late \in BOOLEAN, NEW c \in Collectors
  PROVE  /\ [history EXCEPT !.failures = a, !.late = late, !.runs = b] \in HistoryType
         /\ [history EXCEPT !.failures = a, !.late = late] \in HistoryType
         /\ [history EXCEPT !.failures = a, !.runs = b] \in HistoryType
         /\ [history EXCEPT !.emissions = a, !.runs = b] \in HistoryType
         /\ [history EXCEPT !.entries = a, !.due[c] = b] \in HistoryType
<1>1. history \in HistoryType
  BY DEF TypeOK
<1>2. history.due \in [Collectors -> Nat]
  BY <1>1 DEF HistoryType
<1>3. [history EXCEPT !.failures = a, !.late = late, !.runs = b] \in HistoryType
  BY <1>1 DEF HistoryType
<1>4. [history EXCEPT !.failures = a, !.late = late] \in HistoryType
  BY <1>1 DEF HistoryType
<1>5. [history EXCEPT !.failures = a, !.runs = b] \in HistoryType
  BY <1>1 DEF HistoryType
<1>6. [history EXCEPT !.emissions = a, !.runs = b] \in HistoryType
  BY <1>1 DEF HistoryType
<1>7. [history EXCEPT !.entries = a, !.due[c] = b] \in HistoryType
  BY <1>1, <1>2 DEF HistoryType
<1> QED
  BY <1>3, <1>4, <1>5, <1>6, <1>7

LEMMA HistoryCounts ==
  ASSUME TypeOK
  PROVE  /\ history.runs \in Nat /\ history.runs + 1 \in Nat
         /\ history.failures + 1 \in Nat
         /\ history.emissions + 1 \in Nat /\ history.entries + 1 \in Nat
         /\ \A c \in Collectors : history.due[c] \in Nat
  BY DEF TypeOK, HistoryType

-----------------------------------------------------------------------------
(* The finish hook *)

LEMMA CompleteProfileType ==
  ASSUME TypeOK, NEW aborted \in BOOLEAN, CompleteProfile(aborted)
  PROVE  /\ response' \in ResponseType
         /\ exceptions' \in ExceptionsType
         /\ graphql' \in BOOLEAN
         /\ measured' \in MeasuredType
         /\ raw' \in [Collectors -> Nat]
         /\ panels' = panels
         /\ jobs' \in [JobIds -> JobType]
         /\ history' \in HistoryType
         /\ completed' \in BOOLEAN
<1> DEFINE st == Stream(aborted)
<1>0. st \in {"none", "whole", "aborted"}
  BY StreamType
<1>1. CASE completed \/ ~deferred
  BY <1>1 DEF CompleteProfile, pipelineVars, TypeOK
<1>2. CASE ~(completed \/ ~deferred) /\ Closed
  <2>1. completed' = TRUE /\ Backfill(st)
    BY <1>2 DEF CompleteProfile
  <2>2. response' \in ResponseType /\ measured' \in MeasuredType
    BY <1>0, <2>1 DEF Backfill, Completed, TypeOK, ResponseType, TransportType, BodyType,
       MeasuredType
  <2>3. jobs' \in [JobIds -> JobType] /\ raw' = raw /\ panels' = panels
    <3>1. CASE BodyChanged \/ st # "none"
      <4>1. ScheduleSave("hook")
        BY <2>1, <3>1 DEF Backfill
      <4> QED
        BY <4>1, ScheduleSaveType DEF JobIds
    <3>2. CASE ~(BodyChanged \/ st # "none")
      BY <2>1, <3>2 DEF Backfill, pipelineVars, TypeOK
    <3> QED
      BY <3>1, <3>2
  <2> QED
    BY <2>1, <2>2, <2>3 DEF Backfill, TypeOK
<1>3. CASE ~(completed \/ ~deferred) /\ ~Closed
  <2>1. completed' = TRUE /\ CloseFromTransport(st)
    BY <1>3 DEF CompleteProfile
  <2>2. response' \in ResponseType /\ measured' \in MeasuredType
    BY <1>0, <2>1, FinalizeType DEF CloseFromTransport, TypeOK, TransportType, MeasuredType
  <2>3. jobs' \in [JobIds -> JobType] /\ raw' \in [Collectors -> Nat] /\ panels' = panels
    BY <2>1, StartPipelineType DEF CloseFromTransport, JobIds
  <2>4. exceptions' \in ExceptionsType
    <3>1. EnvelopeErrors(transport.body) \in ExceptionsType
      BY EnvelopeErrorsType
    <3>2. exceptions' = exceptions \o EnvelopeErrors(transport.body)
      BY <2>1 DEF CloseFromTransport
    <3> QED
      BY <3>1, <3>2, ConcatProperties DEF TypeOK, ExceptionsType
  <2>5. graphql' \in BOOLEAN /\ history' \in HistoryType
    <3>1. graphql' \in BOOLEAN
      BY <2>1, Zenon DEF CloseFromTransport
    <3>2. history' = [history EXCEPT !.runs = history.runs + 1]
      BY <2>1 DEF CloseFromTransport
    <3>3. history' \in HistoryType
      BY <3>2 DEF TypeOK, HistoryType
    <3> QED
      BY <3>1, <3>3
  <2>6. completed' \in BOOLEAN
    BY <2>1
  <2> HIDE DEF st
  <2> QED
    BY <2>2, <2>3, <2>4, <2>5, <2>6
<1> QED
  BY <1>1, <1>2, <1>3

-----------------------------------------------------------------------------
(* Type correctness *)

LEMMA CatchErrorType ==
  ASSUME TypeOK, NEW runs \in Nat, CatchError(runs)
  PROVE  /\ exceptions' \in ExceptionsType
         /\ recorded' \in BOOLEAN /\ route' \in BOOLEAN
         /\ phase' = "failing"
         /\ history' \in HistoryType
<1>1. exceptions' \in ExceptionsType
  BY AppendProperties DEF CatchError, TypeOK, ExceptionsType
<1>2. history' = [history EXCEPT !.failures = history.failures + 1,
                                 !.late = history.late \/ Closed,
                                 !.runs = history.runs + runs]
  BY DEF CatchError
<1>3. history' \in HistoryType
  <2> DEFINE late == history.late \/ Closed
  <2>1. late \in BOOLEAN
    BY Zenon
  <2>2. history' = [history EXCEPT !.failures = history.failures + 1, !.late = late,
                                   !.runs = history.runs + runs]
    BY <1>2, Zenon
  <2>3. history.failures + 1 \in Nat /\ history.runs + runs \in Nat
    BY HistoryCounts
  <2> HIDE DEF late
  <2> QED
    BY <2>1, <2>2, <2>3, HistoryUpdates, FirstCollector
<1>4. recorded' = TRUE /\ route' = TRUE /\ phase' = "failing"
  BY Zenon DEF CatchError
<1> QED
  BY <1>1, <1>3, <1>4

LEMMA NowType == Now \in MeasuredType
  BY DEF Now, MeasuredType

(* An emission that closes the profile. *)
LEMMA CloseOnEmissionType ==
  ASSUME TypeOK, CloseOnEmission
  PROVE  /\ response' \in ResponseType /\ measured' \in MeasuredType
         /\ route' \in BOOLEAN /\ settled' \in BOOLEAN /\ graphql' \in BOOLEAN
         /\ exceptions' = exceptions
         /\ deferred' = deferred /\ completed' = completed /\ recorded' = recorded
<1>1. EmittedBody \in BodyType
  BY DEF EmittedBody, BodyType, TypeOK, TransportType
<1>2. transport.status \in {"ok", "error"}
  BY DEF TypeOK, TransportType
<1>3. Finalize(transport.status, EmittedBody, "none", Now)
  BY DEF CloseOnEmission
<1>4. response' \in ResponseType /\ measured' \in MeasuredType
  BY <1>1, <1>2, <1>3, FinalizeType, NowType
<1>5. graphql' \in BOOLEAN
  BY Zenon DEF CloseOnEmission
<1> QED
  BY <1>4, <1>5 DEF CloseOnEmission

(* The panels a finished collector leaves. *)
LEMMA CollectingType ==
  ASSUME TypeOK, NEW j \in JobIds, NEW ok \in BOOLEAN, Collecting(j, ok)
  PROVE  panels' \in [Collectors -> PanelType]
<1>1. jobs[j].held \in Nat
  BY DEF TypeOK, JobType
<1>2. Panel(j, ok) \in PanelType
  BY <1>1 DEF Panel, PanelType
<1> QED
  BY <1>2 DEF Collecting, SetPanel, TypeOK
(* The initial profile, and one lemma per group of actions. *)
LEMMA InitType == Init => TypeOK
<1> SUFFICES ASSUME Init PROVE TypeOK
  OBVIOUS
<1> USE DEF Init
<1>1. transport \in TransportType
  BY DEF TransportType, BodyType
<1>2. response \in ResponseType
  BY DEF NoResponse, ResponseType, BodyType
<1>3. exceptions \in ExceptionsType
  BY EmptySeq DEF ExceptionsType
<1>4. panels \in [Collectors -> PanelType]
  BY DEF PanelType
<1>5. jobs \in [JobIds -> JobType]
  BY FirstCollector DEF JobType
<1>6. doc \in DocType
  BY EmptySeq DEF NoDoc, DocType, NoResponse, ResponseType, BodyType, ExceptionsType,
     MeasuredType, PanelType
<1>7. history \in HistoryType
  BY DEF HistoryType
<1> QED
  BY <1>1, <1>2, <1>3, <1>4, <1>5, <1>6, <1>7 DEF TypeOK, MeasuredType

LEMMA OpeningType ==
  ASSUME TypeOK, Skip \/ Use \/ GuardRejects \/ Intercept
         \/ (\E c \in Collectors : Capture(c))
  PROVE  TypeOK'
<1> USE DEF profileVars, latches, pipelineVars
<1>1. CASE Skip
  BY <1>1 DEF Skip, TypeOK
<1>2. CASE Use
  BY <1>2, ConstantsAssumption DEF Use, TypeOK
<1>3. CASE GuardRejects
  <2>1. history' \in HistoryType
    BY <1>3 DEF GuardRejects, TypeOK, HistoryType
  <2> QED
    BY <1>3, <2>1 DEF GuardRejects, TypeOK
<1>4. CASE Intercept
  <2>1. graphql' \in BOOLEAN
    BY <1>4, Zenon DEF Intercept
  <2>2. /\ phase' = "handling"
        /\ UNCHANGED <<handler, transport, response, exceptions, route, measured,
                       latches, pipelineVars, page, doc, history>>
    BY <1>4, Zenon DEF Intercept
  <2> QED
    BY <2>1, <2>2 DEF TypeOK
<1>5. ASSUME NEW c \in Collectors, Capture(c)
      PROVE  TypeOK'
  <2>1. raw' \in [Collectors -> Nat]
    <3>1. raw' = [raw EXCEPT ![c] = raw[c] + 1]
      BY <1>5, Zenon DEF Capture
    <3> QED
      BY <3>1 DEF TypeOK
  <2>2. history' \in HistoryType
    <3> DEFINE due == /\ ~TransportOver
                      /\ \/ phase \in {"opened", "handling"} /\ ~settled
                         \/ handler \in Streamed /\ ~transport.ended
               n == IF due THEN history.due[c] + 1 ELSE history.due[c]
    <3>1. history' = [history EXCEPT !.entries = history.entries + 1, !.due[c] = n]
      BY <1>5, Zenon DEF Capture
    <3> HIDE DEF due
    <3>2. n \in Nat
      BY HistoryCounts
    <3> HIDE DEF n
    <3> QED
      BY <3>1, <3>2, HistoryCounts, HistoryUpdates
  <2>3. UNCHANGED <<handler, phase, transport, profileVars, latches, panels, jobs, page, doc>>
    BY <1>5, Zenon DEF Capture
  <2> QED
    BY <2>1, <2>2, <2>3 DEF TypeOK
<1> QED
  BY <1>1, <1>2, <1>3, <1>4, <1>5

LEMMA EmissionType ==
  ASSUME TypeOK, Emission
  PROVE  TypeOK'
<1> USE DEF profileVars, latches, pipelineVars
<1>1. ASSUME NEW more \in BOOLEAN, EmitForwarded(more) PROVE TypeOK'
  <2>1. history' \in HistoryType
    BY <1>1 DEF EmitForwarded, AfterEmission, TypeOK, HistoryType
  <2>2. phase' \in {"handling", "done", "emitted"}
    BY <1>1 DEF EmitForwarded, AfterEmission
  <2>3. /\ settled' = TRUE
        /\ UNCHANGED <<handler, transport, profileVars, deferred, completed, recorded,
                       pipelineVars, page, doc>>
    BY <1>1, Zenon DEF EmitForwarded
  <2> QED
    BY <2>1, <2>2, <2>3 DEF TypeOK
<1>2. ASSUME NEW more \in BOOLEAN, EmitStreamed(more) PROVE TypeOK'
  <2>1. history' \in HistoryType
    BY <1>2 DEF EmitStreamed, AfterEmission, TypeOK, HistoryType
  <2>2. phase' \in {"handling", "done", "emitted"}
    BY <1>2 DEF EmitStreamed, AfterEmission
  <2>3. /\ settled' = TRUE /\ route' = TRUE
        /\ UNCHANGED <<handler, transport, response, exceptions, graphql, measured,
                       deferred, completed, recorded, pipelineVars, page, doc>>
    BY <1>2, Zenon DEF EmitStreamed
  <2> QED
    BY <2>1, <2>2, <2>3 DEF TypeOK
<1>3. ASSUME NEW more \in BOOLEAN, EmitPersisted(more) PROVE TypeOK'
  <2>1. history' \in HistoryType
    <3>1. history' = [history EXCEPT !.emissions = history.emissions + 1,
                                     !.runs = history.runs + 1]
      BY <1>3, Zenon DEF EmitPersisted
    <3> QED
      BY <3>1, HistoryCounts, HistoryUpdates, FirstCollector
  <2>2. phase' \in {"handling", "done", "emitted"}
    BY <1>3 DEF EmitPersisted
  <2>3. jobs' \in [JobIds -> JobType] /\ raw' \in [Collectors -> Nat] /\ panels' = panels
    BY <1>3, StartPipelineType DEF EmitPersisted, JobIds
  <2>4. CloseOnEmission
    BY <1>3 DEF EmitPersisted
  <2>5. UNCHANGED <<handler, transport, page, doc>>
    BY <1>3 DEF EmitPersisted
  <2> QED
    BY <2>1, <2>2, <2>3, <2>4, <2>5, CloseOnEmissionType DEF TypeOK
<1>4. CASE EmitPage
  <2>1. history' \in HistoryType
    <3>1. history' = [history EXCEPT !.emissions = history.emissions + 1,
                                     !.runs = history.runs + 1]
      BY <1>4, Zenon DEF EmitPage
    <3> QED
      BY <3>1, HistoryCounts, HistoryUpdates, FirstCollector
  <2>2. jobs' \in [JobIds -> JobType] /\ raw' \in [Collectors -> Nat] /\ panels' = panels
    BY <1>4, StartPipelineType DEF EmitPage, JobIds
  <2>3. CloseOnEmission /\ phase' = "awaiting" /\ UNCHANGED <<handler, transport, page, doc>>
    BY <1>4 DEF EmitPage
  <2> QED
    BY <2>1, <2>2, <2>3, CloseOnEmissionType DEF TypeOK
<1>5. CASE Resolve
  <2>1. CASE deferred
    BY <1>5, <2>1 DEF Resolve, TypeOK
  <2>2. CASE ~deferred
    <3>1. response' \in ResponseType /\ measured' \in MeasuredType
      BY <1>5, <2>2, NowType DEF Resolve, ResponseType, BodyType
    <3>2. jobs' \in [JobIds -> JobType] /\ raw' \in [Collectors -> Nat] /\ panels' = panels
      BY <1>5, <2>2, StartPipelineType DEF Resolve, JobIds
    <3>3. history' \in HistoryType
      BY <1>5, <2>2 DEF Resolve, TypeOK, HistoryType
    <3> QED
      BY <1>5, <3>1, <3>2, <3>3 DEF Resolve, TypeOK
  <2> QED
    BY <2>1, <2>2
<1> QED
  BY <1>1, <1>2, <1>3, <1>4, <1>5 DEF Emission

LEMMA FailureType ==
  ASSUME TypeOK, Throw \/ ResolverThrows \/ FilterCatches \/ AppFilterCatches
  PROVE  TypeOK'
<1> USE DEF profileVars, latches, pipelineVars
<1>0. ErrorReply \in TransportType
  <2>1. Replied(transport, "whole", "error") \in TransportType
    BY RepliedType DEF TypeOK, BodyType
  <2>2. [transport EXCEPT !.ended = TRUE] \in TransportType
    BY DEF TypeOK, TransportType
  <2> QED
    BY <2>1, <2>2 DEF ErrorReply
<1>1. CASE Throw
  <2>1. UNCHANGED <<handler, transport, graphql, deferred, settled, completed, page, doc>>
    BY <1>1, Zenon DEF Throw
  <2>2. CASE deferred
    <3>1. CatchError(0) /\ UNCHANGED <<response, measured, pipelineVars>>
      BY <1>1, <2>2 DEF Throw
    <3>2. /\ exceptions' \in ExceptionsType
          /\ recorded' \in BOOLEAN /\ route' \in BOOLEAN
          /\ phase' = "failing" /\ history' \in HistoryType
      BY <3>1, CatchErrorType
    <3> QED
      BY <2>1, <3>1, <3>2 DEF TypeOK
  <2>3. CASE ~deferred
    <3>1. CatchError(1) /\ Finalize("error", "none", "none", Now) /\ StartPipeline("error")
      BY <1>1, <2>3 DEF Throw
    <3>2. /\ exceptions' \in ExceptionsType
          /\ recorded' \in BOOLEAN /\ route' \in BOOLEAN
          /\ phase' = "failing" /\ history' \in HistoryType
      BY <3>1, CatchErrorType
    <3>3. response' \in ResponseType /\ measured' \in MeasuredType
      BY <3>1, FinalizeType, NowType DEF BodyType
    <3>4. jobs' \in [JobIds -> JobType] /\ raw' \in [Collectors -> Nat] /\ panels' = panels
      BY <3>1, StartPipelineType DEF JobIds
    <3> QED
      BY <2>1, <3>2, <3>3, <3>4 DEF TypeOK
  <2> QED
    BY <2>2, <2>3
<1>2. CASE ResolverThrows
  <2>1. phase' = "emitted" /\ exceptions' \in ExceptionsType
    BY <1>2, AppendProperties DEF ResolverThrows, TypeOK, ExceptionsType
  <2>2. UNCHANGED <<handler, transport, route, graphql, latches, page, doc>>
    BY <1>2, Zenon DEF ResolverThrows
  <2>3. CASE deferred
    <3> DEFINE late == history.late \/ Closed
    <3>1. late \in BOOLEAN
      BY Zenon
    <3>2. /\ history' = [history EXCEPT !.failures = history.failures + 1, !.late = late]
          /\ UNCHANGED <<response, measured, pipelineVars>>
      BY <1>2, <2>3 DEF ResolverThrows
    <3> HIDE DEF late
    <3>3. history' \in HistoryType
      BY <3>1, <3>2, HistoryCounts, HistoryUpdates, FirstCollector
    <3> QED
      BY <2>1, <2>2, <3>2, <3>3 DEF TypeOK
  <2>4. CASE ~deferred
    <3>1. Finalize("error", "none", "none", Now) /\ StartPipeline("error")
      BY <1>2, <2>4 DEF ResolverThrows
    <3>2. history' \in HistoryType
      <4>1. history' = [history EXCEPT !.failures = history.failures + 1,
                                       !.runs = history.runs + 1]
        BY <1>2, <2>4, Zenon DEF ResolverThrows
      <4> QED
        BY <4>1, HistoryCounts, HistoryUpdates, FirstCollector
    <3>3. response' \in ResponseType /\ measured' \in MeasuredType
      BY <3>1, FinalizeType, NowType DEF BodyType
    <3>4. jobs' \in [JobIds -> JobType] /\ raw' \in [Collectors -> Nat] /\ panels' = panels
      BY <3>1, StartPipelineType DEF JobIds
    <3> QED
      BY <2>1, <2>2, <3>2, <3>3, <3>4 DEF TypeOK
  <2> QED
    BY <2>3, <2>4
<1>3. CASE FilterCatches
  <2>1. phase' \in {"emitted", "done"}
    BY <1>3 DEF FilterCatches
  <2>2. exceptions' \in ExceptionsType
    BY <1>3, AppendProperties DEF FilterCatches, TypeOK, ExceptionsType
  <2>3. transport' \in TransportType
    BY <1>0, <1>3 DEF FilterCatches, TypeOK
  <2>4. UNCHANGED <<handler, response, route, graphql, measured, latches,
                    pipelineVars, page, doc, history>>
    BY <1>3, Zenon DEF FilterCatches
  <2> QED
    BY <2>1, <2>2, <2>3, <2>4 DEF TypeOK
<1>4. CASE AppFilterCatches
  BY <1>0, <1>4 DEF AppFilterCatches, TypeOK
<1> QED
  BY <1>1, <1>2, <1>3, <1>4

LEMMA TransportActionType ==
  ASSUME TypeOK, Reply \/ ReplyFails \/ (\E json \in BOOLEAN : Write(json))
                 \/ (\E last \in BOOLEAN : EndResponse(last)) \/ Finish \/ Close
  PROVE  TypeOK'
<1> USE DEF profileVars, latches, pipelineVars
<1>1. CASE Reply
  <2>1. PICK body \in BodyType : transport' = Replied(transport, body, transport.status)
    BY <1>1 DEF Reply, BodyType
  <2>2. transport.status \in {"ok", "error"}
    BY DEF TypeOK, TransportType
  <2>3. transport' \in TransportType
    BY <2>1, <2>2, RepliedType DEF TypeOK
  <2>4. history' \in HistoryType
    BY <1>1 DEF Reply, TypeOK, HistoryType
  <2>5. /\ phase' = "done"
        /\ UNCHANGED <<handler, profileVars, latches, pipelineVars, page, doc>>
    BY <1>1, Zenon DEF Reply
  <2> QED
    BY <2>3, <2>4, <2>5 DEF TypeOK
<1>2. CASE ReplyFails
  <2>1. transport' \in TransportType
    BY <1>2 DEF ReplyFails, TypeOK, TransportType, BodyType
  <2>2. history' \in HistoryType
    BY <1>2 DEF ReplyFails, TypeOK, HistoryType
  <2> QED
    BY <1>2, <2>1, <2>2 DEF ReplyFails, TypeOK
<1>3. ASSUME NEW json \in BOOLEAN, Write(json) PROVE TypeOK'
  <2>1. transport' \in TransportType
    BY <1>3, WrittenType, ConstantsAssumption DEF Write, TypeOK
  <2>2. UNCHANGED <<handler, phase, profileVars, latches, pipelineVars, page, doc, history>>
    BY <1>3, Zenon DEF Write
  <2> QED
    BY <2>1, <2>2 DEF TypeOK
<1>4. ASSUME NEW last \in BOOLEAN, EndResponse(last) PROVE TypeOK'
  <2>1. transport' \in TransportType
    BY <1>4, EndedWithType DEF EndResponse, TypeOK
  <2>2. phase' \in {phase, "done"}
    BY <1>4 DEF EndResponse
  <2>3. UNCHANGED <<handler, profileVars, latches, pipelineVars, page, doc, history>>
    BY <1>4, Zenon DEF EndResponse
  <2> QED
    BY <2>1, <2>2, <2>3 DEF TypeOK
<1>5. CASE Finish
  <2>1. transport' \in TransportType
    BY <1>5 DEF Finish, TypeOK, TransportType
  <2>2. CompleteProfile(FALSE)
    BY <1>5 DEF Finish
  <2>3. UNCHANGED <<handler, phase, route, deferred, settled, recorded, page, doc>>
    BY <1>5, Zenon DEF Finish
  <2> QED
    BY <2>1, <2>2, <2>3, CompleteProfileType DEF TypeOK
<1>6. CASE Close
  <2> DEFINE aborted == ~transport.ended
  <2>1. aborted \in BOOLEAN
    BY Zenon
  <2>2. transport' = [transport EXCEPT !.closed = TRUE, !.aborted = aborted]
        /\ CompleteProfile(aborted)
    BY <1>6 DEF Close
  <2>3. UNCHANGED <<handler, phase, route, deferred, settled, recorded, page, doc>>
    BY <1>6, Zenon DEF Close
  <2> HIDE DEF aborted
  <2>4. transport' \in TransportType
    BY <2>1, <2>2 DEF TypeOK, TransportType
  <2> QED
    BY <2>1, <2>2, <2>3, <2>4, CompleteProfileType DEF TypeOK
<1> QED
  BY <1>1, <1>2, <1>3, <1>4, <1>5, <1>6

LEMMA PipelineType ==
  ASSUME TypeOK, NEW j \in JobIds, Pipeline(j)
  PROVE  TypeOK'
<1> USE DEF profileVars, latches, pipelineVars
<1>1. ASSUME NEW ok \in BOOLEAN, CollectNext(j, ok) PROVE TypeOK'
  <2>1. panels' \in [Collectors -> PanelType]
    BY <1>1, CollectingType DEF CollectNext
  <2>2. jobs[j].at + 1 \in Collectors /\ jobs[j].at + 1 \in 0..N
    BY <1>1, ConstantsAssumption DEF CollectNext, TypeOK, JobType, Collectors
  <2>3. jobs' \in [JobIds -> JobType] /\ raw' \in [Collectors -> Nat]
    BY <1>1, <2>2 DEF CollectNext, TypeOK, JobType
  <2> QED
    BY <1>1, <2>1, <2>3 DEF CollectNext, TypeOK
<1>2. ASSUME NEW ok \in BOOLEAN, CollectLast(j, ok) PROVE TypeOK'
  <2>1. panels' \in [Collectors -> PanelType]
    BY <1>2, CollectingType DEF CollectLast
  <2>2. jobs' \in [JobIds -> JobType]
    BY <1>2, FirstCollector DEF CollectLast, TypeOK, JobType
  <2>3. page' \in {page, "toolbar"} /\ phase' \in {phase, "emitted"}
    BY <1>2 DEF CollectLast
  <2>4. UNCHANGED <<handler, transport, profileVars, latches, raw, doc, history>>
    BY <1>2, Zenon DEF CollectLast
  <2> QED
    BY <2>1, <2>2, <2>3, <2>4 DEF TypeOK
<1>3. ASSUME NEW ok \in BOOLEAN, CollectRejects(j, ok) PROVE TypeOK'
  <2>1. panels' \in [Collectors -> PanelType]
    BY <1>3, CollectingType DEF CollectRejects
  <2>2. UNCHANGED <<handler, transport, graphql, deferred, settled, completed, page, doc>>
    BY <1>3, Zenon DEF CollectRejects
  <2>3. CASE ~Toolbar(j)
    <3>1. /\ jobs' = [jobs EXCEPT ![j] = [pc |-> "lost", at |-> 0, held |-> 0]]
          /\ UNCHANGED <<phase, response, measured, exceptions, route, recorded, raw, history>>
      BY <1>3, <2>3 DEF CollectRejects
    <3>2. jobs' \in [JobIds -> JobType]
      BY <3>1, FirstCollector DEF TypeOK, JobType
    <3> QED
      BY <2>1, <2>2, <3>1, <3>2 DEF TypeOK
  <2>4. CASE Toolbar(j) /\ deferred
    <3>1. /\ CatchError(0)
          /\ jobs' = [jobs EXCEPT ![j] = [pc |-> "lost", at |-> 0, held |-> 0]]
          /\ UNCHANGED <<response, measured, raw>>
      BY <1>3, <2>4 DEF CollectRejects
    <3>2. jobs' \in [JobIds -> JobType]
      BY <3>1, FirstCollector DEF TypeOK, JobType
    <3>3. /\ exceptions' \in ExceptionsType
          /\ recorded' \in BOOLEAN /\ route' \in BOOLEAN
          /\ phase' = "failing" /\ history' \in HistoryType
      BY <3>1, CatchErrorType
    <3> QED
      BY <2>1, <2>2, <3>1, <3>2, <3>3 DEF TypeOK
  <2>5. CASE Toolbar(j) /\ ~deferred
    <3>1. /\ CatchError(1)
          /\ Finalize("error", "none", "none", Now)
          /\ jobs' = [jobs EXCEPT
                ![j] = [pc |-> "lost", at |-> 0, held |-> 0],
                !["error"] = [pc |-> "collecting", at |-> 1, held |-> raw[1]]]
          /\ raw' = [raw EXCEPT ![1] = 0]
      BY <1>3, <2>5 DEF CollectRejects
    <3>2. jobs' \in [JobIds -> JobType]
      BY <3>1, FirstCollector DEF TypeOK, JobType
    <3>3. raw' \in [Collectors -> Nat]
      BY <3>1 DEF TypeOK
    <3>4. /\ exceptions' \in ExceptionsType
          /\ recorded' \in BOOLEAN /\ route' \in BOOLEAN
          /\ phase' = "failing" /\ history' \in HistoryType
      BY <3>1, CatchErrorType
    <3>5. response' \in ResponseType /\ measured' \in MeasuredType
      BY <3>1, FinalizeType, NowType DEF BodyType
    <3> QED
      BY <2>1, <2>2, <3>2, <3>3, <3>4, <3>5 DEF TypeOK
  <2> QED
    BY <2>3, <2>4, <2>5
<1>4. CASE Save(j)
  <2>1. doc' \in DocType
    BY <1>4 DEF Save, Snapshot, TypeOK, DocType
  <2>2. jobs' \in [JobIds -> JobType]
    BY <1>4 DEF Save, TypeOK, JobType
  <2> QED
    BY <1>4, <2>1, <2>2 DEF Save, TypeOK
<1>5. CASE SaveFails(j)
  <2>1. jobs' \in [JobIds -> JobType]
    BY <1>5 DEF SaveFails, TypeOK, JobType
  <2>2. UNCHANGED <<handler, phase, transport, profileVars, latches, raw, panels,
                    page, doc, history>>
    BY <1>5, Zenon DEF SaveFails
  <2> QED
    BY <2>1, <2>2 DEF TypeOK
<1> QED
  BY <1>1, <1>2, <1>3, <1>4, <1>5 DEF Pipeline

(* No step of any actor takes a variable out of its domain. *)
LEMMA NextType == TypeOK /\ [Next]_vars => TypeOK'
<1> SUFFICES ASSUME TypeOK, [Next]_vars PROVE TypeOK'
  OBVIOUS
<1>1. CASE UNCHANGED vars
  BY <1>1 DEF vars, profileVars, latches, pipelineVars, TypeOK
<1>2. CASE Next
  BY <1>2, OpeningType, EmissionType, FailureType, TransportActionType, PipelineType
     DEF Next
<1> QED
  BY <1>1, <1>2

(* Every variable of the request keeps its domain: in particular a panel is   *)
(* absent, complete, or an error without entries (safeCollect).               *)
THEOREM TypeCorrect == Spec => []TypeOK
  BY InitType, NextType, PTL DEF Spec

-----------------------------------------------------------------------------
(* The collector pipeline runs once *)

Waiting == phase \in {"arrived", "skipped"}

(* The inductive invariant: under an armed finish hook a pipeline runs exactly *)
(* when the profile is closed, and nothing runs before the middleware.         *)
RunsWhenClosed ==
    /\ deferred => history.runs = IF Closed THEN 1 ELSE 0
    /\ Waiting => history.runs = 0 /\ ~Closed

LEMMA InitRuns == Init => RunsWhenClosed
  BY DEF Init, RunsWhenClosed, Closed, NoResponse

(* The three shapes of a step: it leaves the profile as it was, closes it and   *)
(* starts the one pipeline, or no hook watches the profile.                     *)
LEMMA RunsKept ==
  ASSUME RunsWhenClosed, deferred' = deferred, Closed' = Closed,
         history.runs' = history.runs, Waiting' => Waiting
  PROVE  RunsWhenClosed'
  BY DEF RunsWhenClosed

LEMMA RunsStarted ==
  ASSUME TypeOK, RunsWhenClosed, deferred' = deferred, ~Closed, Closed',
         history.runs' = history.runs + 1, ~Waiting'
  PROVE  RunsWhenClosed'
  BY HistoryCounts DEF RunsWhenClosed

LEMMA RunsUnwatched ==
  ASSUME ~deferred', ~Waiting'
  PROVE  RunsWhenClosed'
  BY DEF RunsWhenClosed

LEMMA CompleteProfileRuns ==
  ASSUME TypeOK, RunsWhenClosed, NEW aborted \in BOOLEAN, CompleteProfile(aborted),
         UNCHANGED <<phase, deferred>>, ~Waiting
  PROVE  RunsWhenClosed' /\ (Closed => Closed')
<1> DEFINE st == Stream(aborted)
<1>0. ~Waiting'
  BY DEF Waiting
<1>1. CASE completed \/ ~deferred
  <2>1. UNCHANGED <<response, history>>
    BY <1>1 DEF CompleteProfile
  <2> QED
    BY <2>1, RunsKept DEF Closed, Waiting
<1>2. CASE ~(completed \/ ~deferred) /\ Closed
  <2>1. response' = Completed(st) /\ history' = history
    BY <1>2 DEF CompleteProfile, Backfill
  <2>2. Closed'
    BY <1>2, <2>1 DEF Closed, Completed, TypeOK, TransportType
  <2> QED
    BY <1>2, <2>1, <2>2, RunsKept DEF Waiting
<1>3. CASE ~(completed \/ ~deferred) /\ ~Closed
  <2>1. CloseFromTransport(st)
    BY <1>3 DEF CompleteProfile
  <2>2. Closed'
    BY <2>1, FinalizeType, StreamType DEF CloseFromTransport, TypeOK, TransportType, MeasuredType
  <2>3. history' = [history EXCEPT !.runs = history.runs + 1]
    BY <2>1, Zenon DEF CloseFromTransport
  <2>4. history.runs' = history.runs + 1
    BY <2>3 DEF TypeOK, HistoryType
  <2> QED
    BY <1>0, <1>3, <2>2, <2>4, RunsStarted
<1> QED
  BY <1>1, <1>2, <1>3

LEMMA CatchErrorRuns ==
  ASSUME TypeOK, NEW runs \in Nat, CatchError(runs)
  PROVE  history.runs' = history.runs + runs /\ ~Waiting' /\ phase' = "failing"
<1>1. /\ phase' = "failing"
      /\ history' = [history EXCEPT !.failures = history.failures + 1,
                        !.late = history.late \/ Closed, !.runs = history.runs + runs]
  BY Zenon DEF CatchError
<1>2. history.runs' = history.runs + runs
  BY <1>1 DEF TypeOK, HistoryType
<1> QED
  BY <1>1, <1>2 DEF Waiting

LEMMA EmissionRuns ==
  ASSUME TypeOK, RunsWhenClosed, Emission
  PROVE  RunsWhenClosed'
<1>1. ASSUME NEW more \in BOOLEAN, EmitForwarded(more) \/ EmitStreamed(more)
      PROVE  RunsWhenClosed'
  <2>1. UNCHANGED <<response, deferred>>
    BY <1>1, Zenon DEF EmitForwarded, EmitStreamed, profileVars
  <2>2. AfterEmission(more)
    BY <1>1 DEF EmitForwarded, EmitStreamed
  <2>3. history.runs' = history.runs /\ ~Waiting'
    BY <2>2 DEF AfterEmission, Waiting, TypeOK, HistoryType
  <2> QED
    BY <2>1, <2>3, RunsKept DEF Closed
<1>2. ASSUME NEW more \in BOOLEAN, EmitPersisted(more) \/ EmitPage
      PROVE  RunsWhenClosed'
  <2>1. CloseOnEmission /\ ~Waiting'
    BY <1>2 DEF EmitPersisted, EmitPage, Waiting
  <2>2. history' = [history EXCEPT !.emissions = history.emissions + 1,
                                   !.runs = history.runs + 1]
    BY <1>2, Zenon DEF EmitPersisted, EmitPage
  <2>3. history.runs' = history.runs + 1
    BY <2>2 DEF TypeOK, HistoryType
  <2>4. deferred' = deferred /\ ~Closed
    BY <2>1 DEF CloseOnEmission
  <2>5. response'.status = transport.status
    BY <2>1 DEF CloseOnEmission, Finalize
  <2>6. Closed'
    BY <2>5 DEF Closed, TypeOK, TransportType
  <2> QED
    BY <2>1, <2>3, <2>4, <2>6, RunsStarted
<1>3. CASE Resolve
  <2>1. deferred' = deferred /\ ~Waiting'
    BY <1>3, Zenon DEF Resolve, latches, Waiting
  <2>2. CASE ~deferred
    BY <2>1, <2>2, RunsUnwatched
  <2>3. CASE deferred
    <3>1. UNCHANGED <<response, history>>
      BY <1>3, <2>3 DEF Resolve
    <3> QED
      BY <2>1, <3>1, RunsKept DEF Closed
  <2> QED
    BY <2>2, <2>3
<1> QED
  BY <1>1, <1>2, <1>3 DEF Emission

LEMMA FailureRuns ==
  ASSUME TypeOK, RunsWhenClosed, Throw \/ ResolverThrows
  PROVE  RunsWhenClosed'
<1>1. deferred' = deferred /\ ~Waiting'
  <2>1. CASE Throw
    <3>1. \E runs \in Nat : CatchError(runs)
      BY <2>1 DEF Throw
    <3> QED
      BY <2>1, <3>1, CatchErrorRuns DEF Throw
  <2>2. CASE ResolverThrows
    BY <2>2, Zenon DEF ResolverThrows, latches, Waiting
  <2> QED
    BY <2>1, <2>2
<1>2. CASE ~deferred
  BY <1>1, <1>2, RunsUnwatched
<1>3. CASE deferred
  <2>1. response' = response
    BY <1>3 DEF Throw, ResolverThrows
  <2>2. history.runs' = history.runs
    <3>1. CASE Throw
      <4>1. CatchError(0)
        BY <1>3, <3>1 DEF Throw
      <4> QED
        BY <4>1, CatchErrorRuns, HistoryCounts
    <3>2. CASE ResolverThrows
      <4>1. history' = [history EXCEPT !.failures = history.failures + 1,
                                       !.late = history.late \/ Closed]
        BY <1>3, <3>2, Zenon DEF ResolverThrows
      <4> QED
        BY <4>1 DEF TypeOK, HistoryType
    <3> QED
      BY <3>1, <3>2
  <2> QED
    BY <1>1, <2>1, <2>2, RunsKept DEF Closed
<1> QED
  BY <1>2, <1>3

LEMMA PipelineRuns ==
  ASSUME TypeOK, RunsWhenClosed, NEW j \in JobIds, Pipeline(j)
  PROVE  RunsWhenClosed'
<1>0. deferred' = deferred
  BY Zenon DEF Pipeline, CollectNext, CollectLast, CollectRejects, Save, SaveFails, latches
<1>1. ASSUME NEW ok \in BOOLEAN, CollectRejects(j, ok), Toolbar(j)
      PROVE  RunsWhenClosed'
  <2>1. CASE deferred
    <3>1. CatchError(0) /\ response' = response
      BY <1>1, <2>1 DEF CollectRejects
    <3>2. history.runs' = history.runs /\ ~Waiting'
      BY <3>1, CatchErrorRuns, HistoryCounts
    <3> QED
      BY <1>0, <3>1, <3>2, RunsKept DEF Closed
  <2>2. CASE ~deferred
    <3>1. CatchError(1)
      BY <1>1, <2>2 DEF CollectRejects
    <3> QED
      BY <1>0, <2>2, <3>1, CatchErrorRuns, RunsUnwatched
  <2> QED
    BY <2>1, <2>2
<1>2. ASSUME NEW ok \in BOOLEAN, CollectRejects(j, ok), ~Toolbar(j)
      PROVE  RunsWhenClosed'
  <2>1. UNCHANGED <<phase, response, history>>
    BY <1>2 DEF CollectRejects
  <2> QED
    BY <1>0, <2>1, RunsKept DEF Closed, Waiting
<1>3. ASSUME NEW ok \in BOOLEAN, CollectLast(j, ok) PROVE RunsWhenClosed'
  <2>1. UNCHANGED <<response, history>> /\ phase' \in {phase, "emitted"}
    BY <1>3 DEF CollectLast, profileVars
  <2> QED
    BY <1>0, <2>1, RunsKept DEF Closed, Waiting
<1>4. ASSUME NEW ok \in BOOLEAN, CollectNext(j, ok) \/ Save(j) \/ SaveFails(j)
      PROVE  RunsWhenClosed'
  <2>1. UNCHANGED <<phase, response, history>>
    BY <1>4, Zenon DEF CollectNext, Save, SaveFails, profileVars
  <2> QED
    BY <1>0, <2>1, RunsKept DEF Closed, Waiting
<1> QED
  BY <1>1, <1>2, <1>3, <1>4 DEF Pipeline

LEMMA NextRuns == TypeOK /\ RunsWhenClosed /\ [Next]_vars => RunsWhenClosed'
<1> SUFFICES ASSUME TypeOK, RunsWhenClosed, [Next]_vars PROVE RunsWhenClosed'
  OBVIOUS
<1> USE DEF profileVars, latches
<1>1. CASE UNCHANGED vars
  BY <1>1, RunsKept DEF vars, Closed, Waiting
<1>2. CASE Skip \/ Intercept \/ (\E json \in BOOLEAN : Write(json))
           \/ (\E last \in BOOLEAN : EndResponse(last)) \/ FilterCatches
           \/ AppFilterCatches
  <2>1. UNCHANGED <<response, deferred, history>>
    BY <1>2, Zenon DEF Skip, Intercept, Write, EndResponse, FilterCatches, AppFilterCatches
  <2>2. Waiting' => Waiting
    BY <1>2 DEF Waiting, Skip, Intercept, Write, EndResponse, FilterCatches,
       AppFilterCatches
  <2> QED
    BY <2>1, <2>2, RunsKept DEF Closed
<1>3. CASE Use
  BY <1>3 DEF Use, RunsWhenClosed, Waiting, Closed
<1>4. CASE (\E c \in Collectors : Capture(c)) \/ GuardRejects \/ Reply \/ ReplyFails
  <2>1. UNCHANGED <<response, deferred>> /\ (Waiting' => Waiting)
    BY <1>4, Zenon DEF Capture, GuardRejects, Reply, ReplyFails, Waiting
  <2>2. history.runs' = history.runs
    <3>1. CASE \E c \in Collectors : Capture(c)
      <4>1. PICK c \in Collectors : Capture(c)
        BY <3>1
      <4> DEFINE due == /\ ~TransportOver
                        /\ \/ phase \in {"opened", "handling"} /\ ~settled
                           \/ handler \in Streamed /\ ~transport.ended
                 n == IF due THEN history.due[c] + 1 ELSE history.due[c]
      <4>2. history' = [history EXCEPT !.entries = history.entries + 1, !.due[c] = n]
        BY <4>1, Zenon DEF Capture
      <4> HIDE DEF n
      <4> QED
        BY <4>2 DEF TypeOK, HistoryType
    <3>2. CASE GuardRejects \/ Reply \/ ReplyFails
      BY <3>2 DEF GuardRejects, Reply, ReplyFails, TypeOK, HistoryType
    <3> QED
      BY <1>4, <3>1, <3>2
  <2> QED
    BY <2>1, <2>2, RunsKept DEF Closed
<1>5. CASE Finish \/ Close
  <2>1. /\ \E aborted \in BOOLEAN : CompleteProfile(aborted)
        /\ UNCHANGED <<phase, deferred>> /\ ~Waiting
    BY <1>5, Zenon DEF Finish, Close, Waiting
  <2> QED
    BY <2>1, CompleteProfileRuns
<1> QED
  BY <1>1, <1>2, <1>3, <1>4, <1>5, EmissionRuns, FailureRuns, PipelineRuns DEF Next

(* Whichever of the interceptor, the toolbar and the finish hook closes a      *)
(* watched profile, the collectors are drained by one pipeline only.           *)
THEOREM RunsOnce == Spec => []PipelineRunsOnce
<1>1. RunsWhenClosed => PipelineRunsOnce
  BY DEF RunsWhenClosed, PipelineRunsOnce
<1> QED
  BY <1>1, InitType, NextType, InitRuns, NextRuns, PTL DEF Spec

-----------------------------------------------------------------------------
(* One failure, one entry *)

(* An HTTP route never records more than it failed, and one less while a failure *)
(* is on its way to a filter that would record it.                               *)
Covered ==
    /\ transport.body # "errors"
    /\ Len(exceptions) <= history.failures
    /\ (phase = "failing" /\ ~Closed /\ ~recorded) => Len(exceptions) + 1 <= history.failures

FailuresCover == handler \in HttpKinds => Covered

LEMMA InitCover == Init => FailuresCover
  BY DEF Init, FailuresCover, Covered

LEMMA LengthsAreCounts ==
  ASSUME TypeOK
  PROVE  Len(exceptions) \in Nat /\ history.failures \in Nat
  BY LenProperties DEF TypeOK, ExceptionsType, HistoryType

(* A step that records nothing and lets no failure out of sight. *)
LEMMA CoverKept ==
  ASSUME TypeOK, Covered, exceptions' = exceptions, transport'.body # "errors",
         \/ history'.failures = history.failures + 1
         \/ /\ history'.failures = history.failures
            /\ phase' = "failing" => /\ phase = "failing"
                                     /\ Closed => Closed'
                                     /\ recorded => recorded'
  PROVE  Covered'
  BY LengthsAreCounts DEF Covered

(* A failure recorded where it is caught. *)
LEMMA CoverCaught ==
  ASSUME TypeOK, Covered, NEW runs \in Nat, CatchError(runs), transport'.body # "errors"
  PROVE  Covered'
<1>1. Len(exceptions') = Len(exceptions) + 1
  BY AppendProperties DEF CatchError, TypeOK, ExceptionsType
<1>2. history'.failures = history.failures + 1
  BY DEF CatchError, TypeOK, HistoryType
<1>3. recorded' = TRUE
  BY DEF CatchError
<1> QED
  BY <1>1, <1>2, <1>3, LengthsAreCounts DEF Covered

LEMMA OpeningCover ==
  ASSUME TypeOK, Covered,
         Skip \/ Use \/ GuardRejects \/ Intercept \/ (\E c \in Collectors : Capture(c))
  PROVE  Covered'
<1> USE DEF profileVars
<1>1. exceptions' = exceptions /\ transport' = transport /\ transport'.body # "errors"
  BY Zenon DEF Skip, Use, GuardRejects, Intercept, Capture, Covered
<1>2. CASE Skip \/ Use \/ Intercept
  BY <1>1, <1>2, CoverKept DEF Skip, Use, Intercept
<1>3. CASE GuardRejects
  <2>1. history'.failures = history.failures + 1
    BY <1>3 DEF GuardRejects, TypeOK, HistoryType
  <2> QED
    BY <1>1, <2>1, CoverKept
<1>4. ASSUME NEW c \in Collectors, Capture(c) PROVE Covered'
  <2>1. UNCHANGED <<phase, response, recorded>>
    BY <1>4, Zenon DEF Capture, latches
  <2> DEFINE due == /\ ~TransportOver
                    /\ \/ phase \in {"opened", "handling"} /\ ~settled
                       \/ handler \in Streamed /\ ~transport.ended
             n == IF due THEN history.due[c] + 1 ELSE history.due[c]
  <2>2. history' = [history EXCEPT !.entries = history.entries + 1, !.due[c] = n]
    BY <1>4, Zenon DEF Capture
  <2> HIDE DEF n
  <2>3. history'.failures = history.failures
    BY <2>2 DEF TypeOK, HistoryType
  <2> QED
    BY <1>1, <2>1, <2>3, CoverKept DEF Closed
<1> QED
  BY <1>2, <1>3, <1>4

LEMMA EmissionCover ==
  ASSUME TypeOK, Covered, handler \in HttpKinds, Emission
  PROVE  Covered'
<1> USE DEF profileVars
<1>1. exceptions' = exceptions /\ transport' = transport /\ transport'.body # "errors"
  BY Zenon DEF Emission, EmitForwarded, EmitStreamed, EmitPersisted, EmitPage, Resolve,
     CloseOnEmission, Covered
<1>2. phase' # "failing"
  BY DEF Emission, EmitForwarded, EmitStreamed, EmitPersisted, EmitPage, Resolve, AfterEmission
<1>3. history'.failures = history.failures
  BY DEF Emission, EmitForwarded, EmitStreamed, EmitPersisted, EmitPage, Resolve,
     AfterEmission, HttpKinds, TypeOK, HistoryType
<1> QED
  BY <1>1, <1>2, <1>3, CoverKept

LEMMA FailureCover ==
  ASSUME TypeOK, Covered, handler \in HttpKinds,
         Throw \/ ResolverThrows \/ FilterCatches \/ AppFilterCatches \/ ReplyFails
  PROVE  Covered'
<1> USE DEF profileVars, latches
<1>0. ErrorReply.body # "errors"
  BY DEF ErrorReply, Replied, Covered, TypeOK, TransportType
<1>1. CASE Throw
  <2>1. transport' = transport /\ (CatchError(0) \/ CatchError(1))
    BY <1>1, Zenon DEF Throw
  <2> QED
    BY <2>1, CoverCaught DEF Covered
<1>2. CASE ResolverThrows
  BY <1>2 DEF ResolverThrows, HttpKinds
<1>3. CASE FilterCatches
  <2>1. /\ phase = "failing" /\ phase' = "done" /\ transport' = ErrorReply
        /\ exceptions' = IF Closed \/ recorded THEN exceptions ELSE Append(exceptions, "filter")
        /\ history' = history
    BY <1>3 DEF FilterCatches, AlreadyRecorded, HttpKinds
  <2>2. Len(Append(exceptions, "filter")) = Len(exceptions) + 1
    BY AppendProperties DEF TypeOK, ExceptionsType
  <2> QED
    BY <1>0, <2>1, <2>2, LengthsAreCounts DEF Covered
<1>4. CASE AppFilterCatches
  BY <1>0, <1>4, CoverKept DEF AppFilterCatches
<1>5. CASE ReplyFails
  <2>1. exceptions' = exceptions /\ transport'.body = "whole"
        /\ history'.failures = history.failures + 1
    BY <1>5 DEF ReplyFails, TypeOK, TransportType, HistoryType
  <2> QED
    BY <2>1, CoverKept
<1> QED
  BY <1>1, <1>2, <1>3, <1>4, <1>5

LEMMA CompleteProfileCover ==
  ASSUME TypeOK, Covered, NEW aborted \in BOOLEAN, CompleteProfile(aborted),
         phase' = phase, recorded' = recorded, transport'.body # "errors"
  PROVE  Covered'
<1>1. CASE completed \/ ~deferred
  BY <1>1, CoverKept DEF CompleteProfile, Closed
<1>2. CASE ~(completed \/ ~deferred) /\ Closed
  <2>1. exceptions' = exceptions /\ history' = history
    BY <1>2 DEF CompleteProfile, Backfill
  <2>2. Closed'
    BY <1>2 DEF CompleteProfile, Backfill, Completed, Closed, BodyChanged, TypeOK,
       TransportType
  <2> QED
    BY <2>1, <2>2, CoverKept
<1>3. CASE ~(completed \/ ~deferred) /\ ~Closed
  <2> DEFINE st == Stream(aborted)
  <2>1. CloseFromTransport(st)
    BY <1>3 DEF CompleteProfile
  <2> HIDE DEF st
  <2>2. EnvelopeErrors(transport.body) = << >>
    BY DEF EnvelopeErrors, Covered
  <2>3. exceptions' = exceptions
    BY <2>1, <2>2, ConcatEmptySeq DEF CloseFromTransport, TypeOK, ExceptionsType
  <2>4. history'.failures = history.failures
    BY <2>1 DEF CloseFromTransport, TypeOK, HistoryType
  <2>5. Closed'
    BY <2>1 DEF CloseFromTransport, Finalize, Closed, TypeOK, TransportType
  <2> QED
    BY <2>3, <2>4, <2>5, CoverKept
<1> QED
  BY <1>1, <1>2, <1>3

LEMMA TransportCover ==
  ASSUME TypeOK, Covered, handler \in HttpKinds,
         \/ Reply \/ Finish \/ Close
         \/ \E json \in BOOLEAN : Write(json)
         \/ \E last \in BOOLEAN : EndResponse(last)
  PROVE  Covered'
<1> USE DEF profileVars, latches
<1>1. CASE Reply
  <2> DEFINE body == IF handler = "void" THEN "none" ELSE "whole"
  <2>1. /\ transport' = Replied(transport, body, transport.status)
        /\ UNCHANGED <<exceptions, history>> /\ phase' = "done"
    BY <1>1 DEF Reply, HttpKinds
  <2>2. body # "errors"
    OBVIOUS
  <2> HIDE DEF body
  <2>3. transport'.body # "errors"
    BY <2>1, <2>2 DEF Replied, Covered, TypeOK, TransportType
  <2> QED
    BY <2>1, <2>3, CoverKept
<1>2. ASSUME NEW json \in BOOLEAN, Write(json) PROVE Covered'
  <2>1. transport'.body = transport.body
    BY <1>2 DEF Write, Written, TypeOK, TransportType
  <2> QED
    BY <1>2, <2>1, CoverKept DEF Write, Covered, Closed
<1>3. ASSUME NEW last \in BOOLEAN, EndResponse(last) PROVE Covered'
  <2>1. transport'.body # "errors"
    BY <1>3 DEF EndResponse, EndedWith, Covered, TypeOK, TransportType
  <2>2. phase' = "failing" => phase = "failing"
    BY <1>3 DEF EndResponse
  <2> QED
    BY <1>3, <2>1, <2>2, CoverKept DEF EndResponse, Closed
<1>4. CASE Finish
  <2>1. transport'.body = transport.body
    BY <1>4 DEF Finish, TypeOK, TransportType
  <2> QED
    BY <1>4, <2>1, CompleteProfileCover DEF Finish, Covered
<1>5. CASE Close
  <2>1. transport'.body = transport.body
    BY <1>5 DEF Close, TypeOK, TransportType
  <2>2. (~transport.ended) \in BOOLEAN
    BY Zenon
  <2> QED
    BY <1>5, <2>1, <2>2, CompleteProfileCover DEF Close, Covered
<1> QED
  BY <1>1, <1>2, <1>3, <1>4, <1>5

LEMMA PipelineCover ==
  ASSUME TypeOK, Covered, NEW j \in JobIds, Pipeline(j)
  PROVE  Covered'
<1> USE DEF profileVars, latches
<1>1. transport' = transport /\ transport'.body # "errors"
  BY Zenon DEF Pipeline, CollectNext, CollectLast, CollectRejects, Save, SaveFails, Covered
<1>2. ASSUME NEW ok \in BOOLEAN, CollectRejects(j, ok) PROVE Covered'
  <2>1. CASE CatchError(0) \/ CatchError(1)
    BY <1>1, <2>1, CoverCaught
  <2>2. CASE ~(CatchError(0) \/ CatchError(1))
    <3>1. UNCHANGED <<phase, response, exceptions, recorded, history>>
      BY <1>2, <2>2, Zenon DEF CollectRejects
    <3> QED
      BY <1>1, <3>1, CoverKept DEF Closed
  <2> QED
    BY <2>1, <2>2
<1>3. ASSUME NEW ok \in BOOLEAN, CollectNext(j, ok) \/ CollectLast(j, ok) PROVE Covered'
  <2>1. UNCHANGED <<response, exceptions, recorded, history>> /\ phase' \in {phase, "emitted"}
    BY <1>3, Zenon DEF CollectNext, CollectLast
  <2> QED
    BY <1>1, <2>1, CoverKept DEF Closed
<1>4. CASE Save(j) \/ SaveFails(j)
  <2>1. UNCHANGED <<phase, response, exceptions, recorded, history>>
    BY <1>4, Zenon DEF Save, SaveFails
  <2> QED
    BY <1>1, <2>1, CoverKept DEF Closed
<1> QED
  BY <1>2, <1>3, <1>4 DEF Pipeline

LEMMA HandlerKept ==
  ASSUME Next
  PROVE  handler' = handler
<1> USE DEF profileVars
<1>1. CASE Skip \/ Use \/ GuardRejects \/ Intercept \/ (\E c \in Collectors : Capture(c))
  BY <1>1, Zenon DEF Skip, Use, GuardRejects, Intercept, Capture
<1>2. CASE Emission
  BY <1>2, Zenon DEF Emission, EmitForwarded, EmitStreamed, EmitPersisted, EmitPage, Resolve
<1>3. CASE Throw \/ ResolverThrows \/ FilterCatches \/ AppFilterCatches
  BY <1>3, Zenon DEF Throw, ResolverThrows, FilterCatches, AppFilterCatches
<1>4. CASE Reply \/ ReplyFails \/ (\E json \in BOOLEAN : Write(json))
           \/ (\E last \in BOOLEAN : EndResponse(last)) \/ Finish \/ Close
  BY <1>4, Zenon DEF Reply, ReplyFails, Write, EndResponse, Finish, Close
<1>5. CASE \E j \in JobIds : Pipeline(j)
  BY <1>5, Zenon DEF Pipeline, CollectNext, CollectLast, CollectRejects, Save, SaveFails
<1> QED
  BY <1>1, <1>2, <1>3, <1>4, <1>5 DEF Next

LEMMA NextCover == TypeOK /\ FailuresCover /\ [Next]_vars => FailuresCover'
<1> SUFFICES ASSUME TypeOK, FailuresCover, [Next]_vars PROVE FailuresCover'
  OBVIOUS
<1>1. CASE UNCHANGED vars
  BY <1>1 DEF vars, profileVars, latches, FailuresCover, Covered, Closed
<1>2. CASE Next
  <2>1. handler' = handler
    BY <1>2, HandlerKept
  <2>2. ASSUME handler \in HttpKinds PROVE Covered'
    BY <1>2, <2>2, OpeningCover, EmissionCover, FailureCover, TransportCover,
       PipelineCover DEF Next, FailuresCover
  <2> QED
    BY <2>1, <2>2 DEF FailuresCover
<1> QED
  BY <1>1, <1>2

(* The interceptor, the exception filter and the finish hook record a failure of *)
(* an HTTP route once between them, whether or not the response takes listeners. *)
THEOREM OneEntry == Spec => []OneEntryPerFailure
<1>1. FailuresCover => OneEntryPerFailure
  BY DEF FailuresCover, Covered, OneEntryPerFailure
<1> QED
  BY <1>1, InitType, NextType, InitCover, NextCover, PTL DEF Spec

-----------------------------------------------------------------------------
(* What comes of a request the finish hook watches, for every number of        *)
(* collectors, every set of routes and every bound: what its panels hold, what *)
(* is stored, which status, which duration; and that it is a ProfileRecord.    *)

(* The inductive invariant *)

(* The hook is armed, or the middleware has not decided. *)
Watched == deferred \/ Waiting

(* A finished collector holds all that was due in its panel, or failed. *)
Handed(c) ==
    \/ panels[c].state = "failed"
    \/ panels[c].state = "ok" /\ panels[c].n >= history.due[c]

(* A running pipeline: what is due of a collector is in its panel, in the hands *)
(* of its collect(), or still under its private key.                            *)
Gathers(j) ==
    /\ jobs[j].at \in Collectors
    /\ \A c \in Collectors :
         /\ c < jobs[j].at => Handed(c)
         /\ c = jobs[j].at => jobs[j].held >= history.due[c]
         /\ c > jobs[j].at => raw[c] >= history.due[c]

(* The hook runs once and leaves the profile closed; before it, only an emission *)
(* that is not streamed closes it, and nothing is due any more.                  *)
HookWatches ==
    /\ TransportOver => completed
    /\ completed => Closed
    /\ ~completed => jobs["hook"].pc = "idle"
    /\ Closed /\ ~TransportOver => settled /\ (handler \in Streamed => transport.ended)
    /\ TransportOver /\ ~transport.aborted => transport.ended

(* An open profile: no pipeline, nothing drained, nothing stored. *)
NothingStarted ==
    ~Closed => /\ \A j \in JobIds : jobs[j].pc = "idle"
               /\ \A c \in Collectors : raw[c] >= history.due[c]
               /\ ~doc.present

(* A closed one: its one pipeline is under way, or every panel is there. *)
OnePipeline ==
    /\ \A j, k \in JobIds : jobs[j].pc = "collecting" /\ jobs[k].pc = "collecting" => j = k
    /\ \A j \in JobIds : jobs[j].pc = "collecting" => Gathers(j)
    /\ Closed /\ ~CollectionRuns => \A c \in Collectors : Handed(c)

Orderly == Watched => HookWatches /\ NothingStarted /\ OnePipeline

-----------------------------------------------------------------------------
(* The steps that neither close, collect, save nor run the hook *)

Elsewhere ==
    \/ Skip \/ Use \/ GuardRejects \/ Intercept
    \/ \E more \in BOOLEAN : EmitForwarded(more) \/ EmitStreamed(more)
    \/ FilterCatches \/ AppFilterCatches \/ Reply \/ ReplyFails
    \/ \E json \in BOOLEAN : Write(json)
    \/ \E last \in BOOLEAN : EndResponse(last)
    \/ deferred /\ (Resolve \/ Throw \/ ResolverThrows)

LEMMA ElsewhereKeeps ==
  ASSUME TypeOK, Elsewhere
  PROVE  /\ UNCHANGED <<handler, response, measured, completed, raw, panels, jobs, page, doc>>
         /\ settled => settled'
         /\ deferred' = deferred \/ Waiting
<1> USE DEF profileVars, latches, pipelineVars
<1>1. ASSUME Skip \/ Use \/ GuardRejects \/ Intercept
      PROVE  UNCHANGED <<handler, response, measured, completed, settled, raw, panels, jobs,
                         page, doc>>
  BY <1>1 DEF Skip, Use, GuardRejects, Intercept
<1>2. CASE Skip \/ Use \/ GuardRejects \/ Intercept
  BY <1>1, <1>2 DEF Skip, Use, GuardRejects, Intercept, Waiting
<1>3. CASE \E more \in BOOLEAN : EmitForwarded(more) \/ EmitStreamed(more)
  BY <1>3 DEF EmitForwarded, EmitStreamed
<1>4. CASE FilterCatches \/ AppFilterCatches \/ Reply \/ ReplyFails
  BY <1>4 DEF FilterCatches, AppFilterCatches, Reply, ReplyFails
<1>5. CASE (\E json \in BOOLEAN : Write(json)) \/ (\E last \in BOOLEAN : EndResponse(last))
  BY <1>5 DEF Write, EndResponse
<1>6. CASE deferred /\ (Resolve \/ Throw \/ ResolverThrows)
  <2>1. UNCHANGED <<response, measured, pipelineVars>>
    BY <1>6, Zenon DEF Resolve, Throw, ResolverThrows
  <2>2. UNCHANGED <<handler, deferred, settled, completed, page, doc>>
    BY <1>6, Zenon DEF Resolve, Throw, ResolverThrows
  <2> QED
    BY <2>1, <2>2
<1> QED
  BY <1>2, <1>3, <1>4, <1>5, <1>6 DEF Elsewhere

(* Nothing becomes due, a failure on a closed profile is late, and no step goes *)
(* back to the middleware.                                                      *)
LEMMA ElsewhereHistory ==
  ASSUME TypeOK, Elsewhere
  PROVE  /\ history'.due = history.due
         /\ history.late => history'.late
         /\ Waiting' => Waiting
<1>1. CASE Skip \/ Use \/ Intercept
  BY <1>1 DEF Skip, Use, Intercept, Waiting
<1>2. CASE GuardRejects \/ Reply \/ ReplyFails
  BY <1>2 DEF GuardRejects, Reply, ReplyFails, Waiting, TypeOK, HistoryType
<1>3. ASSUME NEW more \in BOOLEAN, EmitForwarded(more) \/ EmitStreamed(more)
      PROVE  history'.due = history.due /\ (history.late => history'.late) /\ ~Waiting'
  BY <1>3 DEF EmitForwarded, EmitStreamed, AfterEmission, Waiting, TypeOK, HistoryType
<1>4. CASE FilterCatches \/ AppFilterCatches
  BY <1>4 DEF FilterCatches, AppFilterCatches, Waiting
<1>5. CASE (\E json \in BOOLEAN : Write(json)) \/ (\E last \in BOOLEAN : EndResponse(last))
  BY <1>5 DEF Write, EndResponse, Waiting
<1>6. CASE deferred /\ (Resolve \/ Throw \/ ResolverThrows)
  <2>1. CASE Resolve
    BY <1>6, <2>1 DEF Resolve, Waiting
  <2>2. CASE Throw
    <3>1. CatchError(0)
      BY <1>6, <2>2 DEF Throw
    <3>2. /\ phase' = "failing"
          /\ history' = [history EXCEPT !.failures = history.failures + 1,
                            !.late = history.late \/ Closed, !.runs = history.runs + 0]
      BY <3>1, Zenon DEF CatchError
    <3> QED
      BY <3>2 DEF Waiting, TypeOK, HistoryType
  <2>3. CASE ResolverThrows
    <3>1. /\ phase' = "emitted"
          /\ history' = [history EXCEPT !.failures = history.failures + 1,
                            !.late = history.late \/ Closed]
      BY <1>6, <2>3, Zenon DEF ResolverThrows
    <3> QED
      BY <3>1 DEF Waiting, TypeOK, HistoryType
  <2> QED
    BY <1>6, <2>1, <2>2, <2>3
<1> QED
  BY <1>1, <1>2, <1>3, <1>4, <1>5, <1>6 DEF Elsewhere

(* The response only goes forward, and its status is settled by its headers. *)
LEMMA ElsewhereTransport ==
  ASSUME TypeOK, Elsewhere
  PROVE  /\ transport'.finished = transport.finished
         /\ transport'.closed = transport.closed
         /\ transport'.aborted = transport.aborted
         /\ transport.ended => transport'.ended
         /\ transport.ended => transport'.status = transport.status
<1> USE DEF profileVars, latches, pipelineVars
<1>1. CASE Skip \/ Use \/ GuardRejects \/ Intercept
           \/ (\E more \in BOOLEAN : EmitForwarded(more) \/ EmitStreamed(more))
           \/ (deferred /\ (Resolve \/ Throw \/ ResolverThrows))
  <2>1. ASSUME Skip PROVE transport' = transport
    BY <2>1 DEF Skip
  <2>2. ASSUME Use PROVE transport' = transport
    BY <2>2 DEF Use
  <2>3. ASSUME GuardRejects PROVE transport' = transport
    BY <2>3 DEF GuardRejects
  <2>4. ASSUME Intercept PROVE transport' = transport
    BY <2>4 DEF Intercept
  <2>5. ASSUME NEW more \in BOOLEAN, EmitForwarded(more) \/ EmitStreamed(more)
        PROVE  transport' = transport
    BY <2>5 DEF EmitForwarded, EmitStreamed
  <2>6. ASSUME Resolve \/ Throw \/ ResolverThrows PROVE transport' = transport
    BY <2>6, Zenon DEF Resolve, Throw, ResolverThrows
  <2>7. transport' = transport
    BY <1>1, <2>1, <2>2, <2>3, <2>4, <2>5, <2>6, Zenon
  <2> QED
    BY <2>7, Zenon
<1>2. CASE FilterCatches \/ AppFilterCatches
  <2>1. transport' = transport \/ transport' = ErrorReply
    BY <1>2, Zenon DEF FilterCatches, AppFilterCatches
  <2>2. CASE transport' = transport
    BY <2>2
  <2>3. CASE transport' = ErrorReply
    BY <2>3 DEF ErrorReply, HeadersSent, Replied, TypeOK, TransportType
  <2> QED
    BY <2>1, <2>2, <2>3
<1>3. CASE Reply
  <2>1. \E body : transport' = Replied(transport, body, transport.status)
    BY <1>3 DEF Reply
  <2> QED
    BY <2>1 DEF Replied, TypeOK, TransportType
<1>4. CASE ReplyFails
  BY <1>4 DEF ReplyFails, TypeOK, TransportType
<1>5. ASSUME NEW json \in BOOLEAN, Write(json)
      PROVE  ~transport.ended /\ UNCHANGED <<transport.finished, transport.closed,
                                             transport.aborted>>
  BY <1>5 DEF Write, CanWrite, Written, TypeOK, TransportType
<1>6. ASSUME NEW last \in BOOLEAN, EndResponse(last)
      PROVE  ~transport.ended /\ UNCHANGED <<transport.finished, transport.closed,
                                             transport.aborted>>
  BY <1>6 DEF EndResponse, CanWrite, EndedWith, TypeOK, TransportType
<1> QED
  BY <1>1, <1>2, <1>3, <1>4, <1>5, <1>6 DEF Elsewhere

-----------------------------------------------------------------------------
(* The inductive invariant holds *)

LEMMA CountsAreNat ==
  ASSUME TypeOK
  PROVE  \A c \in Collectors : raw[c] \in Nat /\ history.due[c] \in Nat
  BY DEF TypeOK, HistoryType

LEMMA InitOrderly == Init => Orderly
<1> SUFFICES ASSUME Init PROVE Orderly
  OBVIOUS
<1>1. ~Closed /\ ~TransportOver /\ ~completed /\ ~doc.present
  BY DEF Init, Closed, TransportOver, NoResponse, NoDoc
<1>2. \A j \in JobIds : jobs[j].pc = "idle"
  BY DEF Init
<1>3. \A c \in Collectors : raw[c] >= history.due[c]
  BY DEF Init
<1>4. HookWatches
  BY <1>1, <1>2 DEF HookWatches, JobIds
<1> QED
  BY <1>1, <1>2, <1>3, <1>4 DEF Orderly, NothingStarted, OnePipeline

(* A step that starts, ends and drains nothing keeps the pipeline's promise. *)
LEMMA OnePipelineKept ==
  ASSUME TypeOK, TypeOK', OnePipeline, UNCHANGED <<jobs, panels>>, Closed' = Closed,
         \A c \in Collectors : /\ history'.due[c] = history.due[c]
                               /\ raw'[c] >= raw[c]
  PROVE  OnePipeline'
<1>1. \A c \in Collectors : Handed(c) => Handed(c)'
  BY DEF Handed
<1>2. ASSUME NEW j \in JobIds, Gathers(j) PROVE Gathers(j)'
  <2>1. \A c \in Collectors : raw'[c] \in Nat
    BY DEF TypeOK
  <2>2. jobs'[j] = jobs[j]
    OBVIOUS
  <2> QED
    BY <1>1, <1>2, <2>1, <2>2, CountsAreNat DEF Gathers
<1>3. CollectionRuns' = CollectionRuns
  BY DEF CollectionRuns
<1> QED
  BY <1>1, <1>2, <1>3 DEF OnePipeline

LEMMA ElsewhereOrderly ==
  ASSUME TypeOK, TypeOK', RunsWhenClosed, Orderly, Elsewhere
  PROVE  Orderly'
<1> SUFFICES ASSUME Watched' PROVE (HookWatches /\ NothingStarted /\ OnePipeline)'
  BY DEF Orderly
<1>1. Watched
  BY ElsewhereKeeps, ElsewhereHistory DEF Watched
<1>2. HookWatches /\ NothingStarted /\ OnePipeline
  BY <1>1 DEF Orderly
<1>3. Closed' = Closed /\ TransportOver' = TransportOver
  BY ElsewhereKeeps, ElsewhereTransport DEF Closed, TransportOver
<1>4. HookWatches'
  BY <1>2, <1>3, ElsewhereKeeps, ElsewhereTransport DEF HookWatches
<1>5. NothingStarted'
  BY <1>2, <1>3, ElsewhereKeeps, ElsewhereHistory DEF NothingStarted
<1>6. OnePipeline'
  BY <1>2, <1>3, ElsewhereKeeps, ElsewhereHistory, OnePipelineKept, CountsAreNat
<1> QED
  BY <1>4, <1>5, <1>6

LEMMA CaptureOrderly ==
  ASSUME TypeOK, TypeOK', RunsWhenClosed, Orderly, NEW c \in Collectors, Capture(c)
  PROVE  Orderly'
<1> DEFINE due == /\ ~TransportOver
                  /\ \/ phase \in {"opened", "handling"} /\ ~settled
                     \/ handler \in Streamed /\ ~transport.ended
           n == IF due THEN history.due[c] + 1 ELSE history.due[c]
<1>1. /\ raw' = [raw EXCEPT ![c] = raw[c] + 1]
      /\ history' = [history EXCEPT !.entries = history.entries + 1, !.due[c] = n]
      /\ UNCHANGED <<handler, phase, transport, profileVars, latches, panels, jobs, page, doc>>
  BY Zenon DEF Capture
<1>2. UNCHANGED <<phase, transport, response, deferred, settled, completed, handler>>
  BY <1>1, Zenon DEF profileVars, latches
<1> SUFFICES ASSUME Watched' PROVE (HookWatches /\ NothingStarted /\ OnePipeline)'
  BY DEF Orderly
<1>3. HookWatches /\ NothingStarted /\ OnePipeline
  BY <1>2 DEF Orderly, Watched, Waiting
<1>4. Closed => ~due
  BY <1>3 DEF HookWatches
<1> HIDE DEF due
<1>5. n \in Nat /\ n <= history.due[c] + 1 /\ (Closed => n = history.due[c])
  BY <1>4, CountsAreNat
<1> HIDE DEF n
<1>6. \A d \in Collectors : /\ raw'[d] = IF d = c THEN raw[d] + 1 ELSE raw[d]
                           /\ history'.due[d] = IF d = c THEN n ELSE history.due[d]
  BY <1>1 DEF TypeOK, HistoryType
<1>7. Closed' = Closed /\ TransportOver' = TransportOver
  BY <1>2 DEF Closed, TransportOver
<1>8. HookWatches'
  BY <1>1, <1>2, <1>3, <1>7 DEF HookWatches
<1>9. NothingStarted'
  BY <1>1, <1>3, <1>5, <1>6, <1>7, CountsAreNat DEF NothingStarted
<1>10. OnePipeline'
  <2>1. CASE Closed
    BY <1>1, <1>3, <1>5, <1>6, <1>7, <2>1, OnePipelineKept, CountsAreNat
  <2>2. CASE ~Closed
    <3>1. \A j \in JobIds : jobs'[j].pc = "idle"
      BY <1>1, <1>3, <2>2 DEF NothingStarted
    <3> QED
      BY <1>7, <2>2, <3>1 DEF OnePipeline
  <2> QED
    BY <2>1, <2>2
<1> QED
  BY <1>8, <1>9, <1>10

(* The first pipeline over an open profile finds everything that is due. *)
LEMMA PipelineStarts ==
  ASSUME TypeOK, TypeOK', NothingStarted, ~Closed, NEW j \in JobIds, StartPipeline(j),
         history'.due = history.due
  PROVE  OnePipeline'
<1>1. /\ jobs'[j] = [pc |-> "collecting", at |-> 1, held |-> raw[1]]
      /\ \A k \in JobIds \ {j} : jobs'[k].pc = "idle"
      /\ \A c \in Collectors \ {1} : raw'[c] = raw[c]
  BY DEF StartPipeline, NothingStarted, TypeOK
<1>2. \A c \in Collectors : raw[c] >= history.due[c]
  BY DEF NothingStarted
<1>3. Gathers(j)'
  BY <1>1, <1>2, FirstCollector DEF Gathers, Collectors
<1> QED
  BY <1>1, <1>3 DEF OnePipeline, CollectionRuns

(* An emission that closes the profile starts its pipeline. *)
LEMMA EmissionOrderly ==
  ASSUME TypeOK, TypeOK', RunsWhenClosed, Orderly,
         EmitPage \/ \E more \in BOOLEAN : EmitPersisted(more)
  PROVE  Orderly'
<1>1. CloseOnEmission /\ StartPipeline("emit") /\ ~Waiting'
  BY DEF EmitPage, EmitPersisted, Waiting
<1>2. UNCHANGED <<handler, transport, doc>> /\ history'.due = history.due
  BY DEF EmitPage, EmitPersisted, TypeOK, HistoryType
<1>3. ~Closed /\ settled' = TRUE /\ UNCHANGED <<deferred, completed>> /\ Closed'
  BY <1>1 DEF CloseOnEmission, Finalize, Closed, TypeOK, TransportType
<1> SUFFICES ASSUME Watched' PROVE (HookWatches /\ NothingStarted /\ OnePipeline)'
  BY DEF Orderly
<1>4. deferred /\ HookWatches /\ NothingStarted
  BY <1>1, <1>3 DEF Orderly, Watched
<1>5. HookWatches'
  <2>1. handler \in Streamed => transport.ended
    BY <1>1, <1>4 DEF EmitPage, EmitPersisted, Emitting, CloseOnEmission, IsStreamedResponse,
       Streamed, HttpKinds
  <2>2. jobs'["hook"].pc = jobs["hook"].pc
    BY <1>1 DEF StartPipeline, TypeOK, JobIds
  <2> QED
    BY <1>2, <1>3, <1>4, <2>1, <2>2 DEF HookWatches, TransportOver
<1>6. OnePipeline'
  BY <1>1, <1>2, <1>3, <1>4, PipelineStarts DEF JobIds
<1> QED
  BY <1>3, <1>5, <1>6 DEF NothingStarted

(* The finish hook: nothing, a save of what it completed, or the pipeline. *)
LEMMA HookOrderly ==
  ASSUME TypeOK, TypeOK', RunsWhenClosed, Orderly, NEW aborted \in BOOLEAN,
         CompleteProfile(aborted), UNCHANGED <<handler, phase, deferred, settled, doc>>,
         ~Waiting, TransportOver', transport'.ended = transport.ended,
         ~transport'.aborted => transport.ended
  PROVE  Orderly'
<1> SUFFICES ASSUME Watched' PROVE (HookWatches /\ NothingStarted /\ OnePipeline)'
  BY DEF Orderly
<1>1. deferred /\ HookWatches /\ NothingStarted /\ OnePipeline
  BY DEF Orderly, Watched, Waiting
<1>2. \A c \in Collectors : history'.due[c] = history.due[c]
  BY DEF CompleteProfile, Backfill, CloseFromTransport, TypeOK, HistoryType
<1>3. CASE completed
  <2>1. UNCHANGED <<response, jobs, panels, raw, completed>>
    BY <1>3 DEF CompleteProfile, pipelineVars
  <2>2. Closed' /\ Closed
    BY <1>1, <1>3, <2>1 DEF HookWatches, Closed
  <2>3. OnePipeline'
    BY <1>1, <1>2, <2>1, <2>2, OnePipelineKept, CountsAreNat
  <2> QED
    BY <1>1, <1>3, <2>1, <2>2, <2>3 DEF HookWatches, NothingStarted
<1>4. CASE ~completed /\ Closed
  <2> DEFINE st == Stream(aborted)
  <2>1. completed' = TRUE /\ Backfill(st)
    BY <1>1, <1>4 DEF CompleteProfile
  <2> HIDE DEF st
  <2>2. Closed'
    BY <1>4, <2>1 DEF Backfill, Completed, Closed, TypeOK, TransportType
  <2>3. UNCHANGED <<raw, panels>>
    BY <2>1 DEF Backfill, ScheduleSave, pipelineVars
  <2>4. /\ jobs'["hook"].pc # "collecting"
        /\ \A k \in JobIds \ {"hook"} : jobs'[k] = jobs[k]
    BY <1>1, <1>4, <2>1 DEF Backfill, ScheduleSave, pipelineVars, HookWatches, TypeOK
  <2>5. \A k \in JobIds : jobs'[k].pc = "collecting" <=> jobs[k].pc = "collecting"
    BY <1>1, <1>4, <2>4 DEF HookWatches
  <2>6. \A c \in Collectors : Handed(c)' <=> Handed(c)
    BY <1>2, <2>3 DEF Handed
  <2>7. ASSUME NEW k \in JobIds, jobs'[k].pc = "collecting" PROVE Gathers(k)'
    <3>1. jobs'[k] = jobs[k] /\ Gathers(k)
      BY <1>1, <2>4, <2>5, <2>7 DEF OnePipeline
    <3> QED
      BY <1>2, <2>3, <2>6, <3>1 DEF Gathers
  <2>8. OnePipeline'
    BY <1>1, <1>4, <2>5, <2>6, <2>7 DEF OnePipeline, CollectionRuns
  <2> QED
    BY <1>1, <2>1, <2>2, <2>8 DEF HookWatches, NothingStarted
<1>5. CASE ~completed /\ ~Closed
  <2> DEFINE st == Stream(aborted)
  <2>1. completed' = TRUE /\ CloseFromTransport(st)
    BY <1>1, <1>5 DEF CompleteProfile
  <2>2. Closed'
    BY <2>1, FinalizeType, StreamType DEF CloseFromTransport, TypeOK, TransportType, MeasuredType
  <2>3. OnePipeline'
    <3>1. StartPipeline("hook") /\ history'.due = history.due
      BY <2>1 DEF CloseFromTransport, TypeOK, HistoryType
    <3> QED
      BY <1>1, <1>5, <3>1, PipelineStarts DEF JobIds
  <2> QED
    BY <2>1, <2>2, <2>3 DEF HookWatches, NothingStarted
<1> QED
  BY <1>3, <1>4, <1>5

LEMMA TransportEndsOrderly ==
  ASSUME TypeOK, TypeOK', RunsWhenClosed, Orderly, Finish \/ Close
  PROVE  Orderly'
<1>1. UNCHANGED <<handler, phase, deferred, settled, doc>> /\ ~Waiting
  BY DEF Finish, Close, Waiting
<1>2. CASE Finish
  <2>1. /\ CompleteProfile(FALSE) /\ transport.ended
        /\ TransportOver' /\ transport'.ended = transport.ended
    BY <1>2 DEF Finish, TransportOver, TypeOK, TransportType
  <2> QED
    BY <1>1, <2>1, HookOrderly
<1>3. CASE Close
  <2> DEFINE aborted == ~transport.ended
  <2>1. /\ CompleteProfile(aborted)
        /\ transport' = [transport EXCEPT !.closed = TRUE, !.aborted = aborted]
    BY <1>3 DEF Close
  <2>2. aborted \in BOOLEAN
    BY Zenon
  <2>3. /\ TransportOver' /\ transport'.ended = transport.ended
        /\ ~transport'.aborted => transport.ended
    BY <2>1 DEF TransportOver, TypeOK, TransportType
  <2> HIDE DEF aborted
  <2> QED
    BY <1>1, <2>1, <2>2, <2>3, HookOrderly
<1> QED
  BY <1>2, <1>3

(* A pipeline's step is that of a closed profile the hook watches. *)
LEMMA PipelineOfClosed ==
  ASSUME TypeOK, RunsWhenClosed, Orderly, Watched', NEW j \in JobIds, Pipeline(j)
  PROVE  /\ deferred /\ Closed /\ HookWatches /\ OnePipeline
         /\ UNCHANGED <<handler, transport, response, measured, deferred, settled, completed>>
         /\ history'.due = history.due
         /\ Closed' /\ HookWatches'
<1>1. deferred' = deferred /\ UNCHANGED <<handler, transport, settled, completed>>
  BY Zenon DEF Pipeline, CollectNext, CollectLast, CollectRejects, Save, SaveFails, latches
<1>2. jobs[j].pc # "idle"
  BY DEF Pipeline, CollectNext, CollectLast, CollectRejects, Collecting, Save, SaveFails
<1>3. Waiting' => Waiting
  BY DEF Pipeline, CollectNext, CollectLast, CollectRejects, Save, SaveFails, CatchError, Waiting
<1>4. Watched /\ HookWatches /\ NothingStarted /\ OnePipeline
  BY <1>1, <1>3 DEF Watched, Orderly
<1>5. Closed
  BY <1>2, <1>4 DEF NothingStarted
<1>6. deferred
  BY <1>4, <1>5 DEF Watched, RunsWhenClosed
<1>7. UNCHANGED <<response, measured>> /\ history'.due = history.due
  BY <1>6 DEF Pipeline, CollectNext, CollectLast, CollectRejects, CatchError, Save, SaveFails,
     profileVars, TypeOK, HistoryType
<1>8. Closed' /\ TransportOver' = TransportOver
  BY <1>1, <1>5, <1>7 DEF Closed, TransportOver
<1>9. ~completed => jobs'["hook"].pc = "idle"
  <2>1. ~completed => j # "hook"
    BY <1>2, <1>4 DEF HookWatches
  <2>2. j # "hook" => jobs'["hook"].pc = jobs["hook"].pc
    BY <1>6 DEF Pipeline, CollectNext, CollectLast, CollectRejects, Save, SaveFails, TypeOK, JobIds
  <2> QED
    BY <1>4, <2>1, <2>2 DEF HookWatches
<1> QED
  BY <1>1, <1>4, <1>5, <1>6, <1>7, <1>8, <1>9 DEF HookWatches

(* What the collector hands over is in its panel, and the others keep theirs. *)
LEMMA CollectorHands ==
  ASSUME TypeOK, TypeOK', NEW j \in JobIds, NEW ok \in BOOLEAN, Collecting(j, ok), Gathers(j),
         history'.due = history.due
  PROVE  \A c \in Collectors : c <= jobs[j].at => Handed(c)'
<1> PICK at \in Collectors : at = jobs[j].at
  BY DEF Gathers
<1>1. jobs[j].held \in Nat
  BY DEF TypeOK, JobType
<1>2. panels' = [panels EXCEPT ![at] = Panel(j, ok)]
  BY DEF Collecting, SetPanel
<1>3. \A c \in Collectors \ {at} : panels'[c] = panels[c]
  BY <1>2 DEF TypeOK
<1>4. panels'[at] = Panel(j, ok)
  BY <1>1, <1>2 DEF TypeOK
<1>5. Handed(at)'
  BY <1>1, <1>4 DEF Handed, Panel, Gathers
<1>6. \A c \in Collectors : c < at => Handed(c)'
  BY <1>1, <1>3 DEF Handed, Gathers, Collectors
<1> QED
  BY <1>1, <1>5, <1>6 DEF Collectors

(* The last collector ends the one pipeline, whether or not the analysis throws. *)
LEMMA PipelineEnds ==
  ASSUME TypeOK, TypeOK', OnePipeline, deferred, history'.due = history.due,
         NEW j \in JobIds, NEW ok \in BOOLEAN, CollectLast(j, ok) \/ CollectRejects(j, ok)
  PROVE  /\ \A k \in JobIds : jobs'[k].pc # "collecting"
         /\ \A c \in Collectors : Handed(c)'
<1>1. /\ Collecting(j, ok) /\ jobs[j].at = N
      /\ \E pc \in {"saving", "lost"} :
           jobs' = [jobs EXCEPT ![j] = [pc |-> pc, at |-> 0, held |-> 0]]
  BY DEF CollectLast, CollectRejects
<1>2. /\ jobs[j].pc = "collecting" /\ Gathers(j)
      /\ \A k \in JobIds \ {j} : jobs[k].pc # "collecting"
  BY <1>1 DEF Collecting, OnePipeline
<1>3. \A k \in JobIds : jobs'[k].pc # "collecting"
  BY <1>1, <1>2 DEF TypeOK
<1>4. \A c \in Collectors : c <= N => Handed(c)'
  BY <1>1, <1>2, CollectorHands
<1>5. \A c \in Collectors : Handed(c)'
  BY <1>4, ConstantsAssumption DEF Collectors
<1> QED
  BY <1>3, <1>5

LEMMA PipelineOrderly ==
  ASSUME TypeOK, TypeOK', RunsWhenClosed, Orderly, NEW j \in JobIds, Pipeline(j)
  PROVE  Orderly'
<1> SUFFICES ASSUME Watched' PROVE (HookWatches /\ NothingStarted /\ OnePipeline)'
  BY DEF Orderly
<1>1. /\ deferred /\ Closed /\ OnePipeline /\ history'.due = history.due
      /\ Closed' /\ HookWatches'
  BY PipelineOfClosed
<1>2. NothingStarted'
  BY <1>1 DEF NothingStarted
<1> SUFFICES OnePipeline'
  BY <1>1, <1>2
<1>3. ASSUME NEW ok \in BOOLEAN, CollectNext(j, ok) PROVE OnePipeline'
  <2> DEFINE at == jobs[j].at
  <2>1. /\ Collecting(j, ok) /\ at < N
        /\ jobs' = [jobs EXCEPT ![j] = [pc |-> "collecting", at |-> at + 1, held |-> raw[at + 1]]]
        /\ raw' = [raw EXCEPT ![at + 1] = 0]
    BY <1>3 DEF CollectNext
  <2>2. /\ jobs[j].pc = "collecting" /\ Gathers(j)
        /\ \A k \in JobIds \ {j} : jobs[k].pc # "collecting"
    BY <1>1, <2>1 DEF Collecting, OnePipeline
  <2>3. at \in Collectors /\ at + 1 \in Collectors
    BY <2>1, <2>2, ConstantsAssumption DEF Gathers, Collectors
  <2>4. /\ jobs'[j] = [pc |-> "collecting", at |-> at + 1, held |-> raw[at + 1]]
        /\ \A k \in JobIds \ {j} : jobs'[k] = jobs[k]
        /\ \A c \in Collectors \ {at + 1} : raw'[c] = raw[c]
    BY <2>1 DEF TypeOK
  <2>5. \A c \in Collectors : c <= at => Handed(c)'
    BY <1>1, <2>1, <2>2, CollectorHands
  <2>6. \A c \in Collectors : c > at => raw[c] >= history.due[c]
    BY <2>2 DEF Gathers
  <2>7. Gathers(j)'
    BY <1>1, <2>3, <2>4, <2>5, <2>6 DEF Gathers, Collectors
  <2> QED
    BY <2>2, <2>4, <2>7 DEF OnePipeline, CollectionRuns
<1>4. ASSUME NEW ok \in BOOLEAN, CollectLast(j, ok) \/ CollectRejects(j, ok)
      PROVE  OnePipeline'
  BY <1>1, <1>4, PipelineEnds DEF OnePipeline
<1>5. CASE Save(j) \/ SaveFails(j)
  <2>1. /\ UNCHANGED <<raw, panels>> /\ jobs[j].pc = "saving"
        /\ \E pc \in {"saved", "lost"} : jobs' = [jobs EXCEPT ![j].pc = pc]
    BY <1>5 DEF Save, SaveFails
  <2>2. /\ jobs'[j].pc # "collecting"
        /\ \A k \in JobIds \ {j} : jobs'[k] = jobs[k]
    BY <2>1 DEF TypeOK, JobType
  <2>3. \A k \in JobIds : jobs'[k].pc = "collecting" <=> jobs[k].pc = "collecting"
    BY <2>1, <2>2
  <2>4. \A c \in Collectors : Handed(c)' <=> Handed(c)
    BY <1>1, <2>1 DEF Handed
  <2>5. ASSUME NEW k \in JobIds, jobs'[k].pc = "collecting" PROVE Gathers(k)'
    <3>1. jobs'[k] = jobs[k] /\ Gathers(k)
      BY <1>1, <2>2, <2>3, <2>5 DEF OnePipeline
    <3> QED
      BY <1>1, <2>1, <2>4, <3>1 DEF Gathers
  <2> QED
    BY <1>1, <2>3, <2>4, <2>5 DEF OnePipeline, CollectionRuns
<1> QED
  BY <1>3, <1>4, <1>5 DEF Pipeline

(* Every step is one of these, or that of a profile nobody watches. *)
LEMMA StepKinds ==
  ASSUME Next
  PROVE  \/ Elsewhere
         \/ \E c \in Collectors : Capture(c)
         \/ EmitPage \/ \E more \in BOOLEAN : EmitPersisted(more)
         \/ Finish \/ Close
         \/ \E j \in JobIds : Pipeline(j)
         \/ ~deferred /\ (Resolve \/ Throw \/ ResolverThrows)
<1>1. CASE Emission
  BY <1>1 DEF Emission, Elsewhere
<1>2. CASE Throw \/ ResolverThrows
  BY <1>2 DEF Elsewhere
<1>3. CASE Skip \/ Use \/ GuardRejects \/ Intercept \/ FilterCatches \/ AppFilterCatches
           \/ Reply \/ ReplyFails \/ (\E json \in BOOLEAN : Write(json))
           \/ (\E last \in BOOLEAN : EndResponse(last))
  BY <1>3 DEF Elsewhere
<1> QED
  BY <1>1, <1>2, <1>3 DEF Next

LEMMA UnwatchedStays ==
  ASSUME TypeOK, ~deferred, Resolve \/ Throw \/ ResolverThrows
  PROVE  ~Watched' /\ ~deferred'
<1>1. deferred' = deferred
  BY Zenon DEF Resolve, Throw, ResolverThrows, latches
<1>2. phase' \in {"emitted", "failing"}
  BY DEF Resolve, Throw, ResolverThrows, CatchError
<1> QED
  BY <1>1, <1>2 DEF Watched, Waiting

LEMMA NextOrderly ==
  TypeOK /\ TypeOK' /\ RunsWhenClosed /\ Orderly /\ [Next]_vars => Orderly'
<1> SUFFICES ASSUME TypeOK, TypeOK', RunsWhenClosed, Orderly, [Next]_vars PROVE Orderly'
  OBVIOUS
<1>1. CASE UNCHANGED vars
  <2>1. UNCHANGED <<handler, phase, transport, response, deferred, settled, completed, raw,
                    panels, jobs, doc, history>>
    BY <1>1 DEF vars, profileVars, latches, pipelineVars
  <2>2. (Watched' => Watched) /\ Closed' = Closed /\ TransportOver' = TransportOver
    BY <2>1 DEF Watched, Waiting, Closed, TransportOver
  <2>3. OnePipeline => OnePipeline'
    BY <2>1, <2>2, OnePipelineKept, CountsAreNat
  <2>4. HookWatches => HookWatches'
    BY <2>1, <2>2 DEF HookWatches
  <2>5. NothingStarted => NothingStarted'
    BY <2>1, <2>2 DEF NothingStarted
  <2> QED
    BY <2>2, <2>3, <2>4, <2>5 DEF Orderly
<1>2. CASE Next
  <2>1. (~deferred /\ (Resolve \/ Throw \/ ResolverThrows)) => Orderly'
    BY UnwatchedStays DEF Orderly
  <2> QED
    BY <1>2, <2>1, StepKinds, ElsewhereOrderly, CaptureOrderly, EmissionOrderly,
       TransportEndsOrderly, PipelineOrderly
<1> QED
  BY <1>1, <1>2
-----------------------------------------------------------------------------
(* What is due reaches the panels *)

(* IndInv: what every property below follows from. *)
IndInv == TypeOK /\ RunsWhenClosed /\ Orderly

(* In every reachable state the actors of the request stand where the code's order *)
(* of calls, and the profile each of them holds, allows.                           *)
THEOREM Inductive == Spec => []IndInv
<1>1. Init => IndInv
  BY InitType, InitRuns, InitOrderly DEF IndInv
<1>2. IndInv /\ [Next]_vars => IndInv'
  BY NextType, NextRuns, NextOrderly DEF IndInv
<1> QED
  BY <1>1, <1>2, PTL DEF Spec

(* Whatever the request's own work recorded while the pipeline could still wait  *)
(* for it is in the panels once the pipeline is through, in however many         *)
(* collectors and however they interleave with captures, emissions and the hook. *)
THEOREM DueReached == Spec => []DueEntriesReachPanels
<1>1. IndInv => DueEntriesReachPanels
  <2> SUFFICES ASSUME IndInv, deferred, Collected, ~CollectionRuns, NEW c \in Collectors
               PROVE  panels[c].state = "failed" \/ panels[c].n >= history.due[c]
    BY DEF DueEntriesReachPanels
  <2>1. NothingStarted /\ OnePipeline
    BY DEF IndInv, Orderly, Watched
  <2>2. Closed
    BY <2>1 DEF NothingStarted, Collected
  <2> QED
    BY <2>1, <2>2 DEF OnePipeline, Handed
<1> QED
  BY <1>1, Inductive, PTL

-----------------------------------------------------------------------------
(* The duration of a stream *)

LEMMA NextStream == TypeOK /\ StreamMeasuredToItsEnd /\ [Next]_vars => StreamMeasuredToItsEnd'
<1> SUFFICES ASSUME TypeOK, StreamMeasuredToItsEnd, [Next]_vars PROVE StreamMeasuredToItsEnd'
  OBVIOUS
<1>1. ASSUME UNCHANGED <<response, measured>> PROVE StreamMeasuredToItsEnd'
  BY <1>1 DEF StreamMeasuredToItsEnd
<1>2. ASSUME NEW status, NEW body, NEW when, Finalize(status, body, "none", when)
      PROVE  StreamMeasuredToItsEnd'
  BY <1>2 DEF Finalize, StreamMeasuredToItsEnd
<1>3. CASE UNCHANGED vars
  BY <1>1, <1>3 DEF vars, profileVars
<1>4. CASE Elsewhere
  BY <1>1, <1>4, ElsewhereKeeps
<1>5. CASE \E c \in Collectors : Capture(c)
  BY <1>1, <1>5, Zenon DEF Capture, profileVars
<1>6. CASE EmitPage \/ \E more \in BOOLEAN : EmitPersisted(more)
  BY <1>2, <1>6, Zenon DEF EmitPage, EmitPersisted, CloseOnEmission
<1>7. CASE ~deferred /\ (Resolve \/ Throw \/ ResolverThrows)
  <2>1. CASE Resolve
    BY <1>7, <2>1 DEF Resolve, StreamMeasuredToItsEnd
  <2>2. CASE Throw \/ ResolverThrows
    BY <1>2, <1>7, <2>2, Zenon DEF Throw, ResolverThrows
  <2> QED
    BY <1>7, <2>1, <2>2
<1>8. CASE Finish \/ Close
  <2>1. PICK aborted \in BOOLEAN : CompleteProfile(aborted)
    BY <1>8, Zenon DEF Finish, Close
  <2>2. CASE completed \/ ~deferred
    BY <1>1, <2>1, <2>2 DEF CompleteProfile
  <2> DEFINE st == Stream(aborted)
  <2>3. CASE ~(completed \/ ~deferred) /\ Closed
    <3>1. Backfill(st)
      BY <2>1, <2>3 DEF CompleteProfile
    <3> HIDE DEF st
    <3> QED
      BY <3>1 DEF Backfill, Completed, StreamMeasuredToItsEnd
  <2>4. CASE ~(completed \/ ~deferred) /\ ~Closed
    <3>1. CloseFromTransport(st)
      BY <2>1, <2>4 DEF CompleteProfile
    <3> HIDE DEF st
    <3> QED
      BY <3>1 DEF CloseFromTransport, Finalize, StreamMeasuredToItsEnd
  <2> QED
    BY <2>2, <2>3, <2>4
<1>9. ASSUME NEW j \in JobIds, Pipeline(j) PROVE StreamMeasuredToItsEnd'
  <2>1. UNCHANGED <<response, measured>> \/ Finalize("error", "none", "none", Now)
    BY <1>9, Zenon DEF Pipeline, CollectNext, CollectLast, CollectRejects, Save, SaveFails,
       profileVars
  <2> QED
    BY <1>1, <1>2, <2>1
<1> QED
  BY <1>3, <1>4, <1>5, <1>6, <1>7, <1>8, <1>9, StepKinds

(* A duration recorded beside a stream's measure was read when the transport was *)
(* over: by the hook that closes the profile or completes the interceptor's.     *)
THEOREM StreamMeasured == Spec => []StreamMeasuredToItsEnd
<1>1. Init => StreamMeasuredToItsEnd
  BY DEF Init, NoResponse, StreamMeasuredToItsEnd
<1> QED
  BY <1>1, InitType, NextType, NextStream, PTL DEF Spec
-----------------------------------------------------------------------------
(* The toolbar *)

(* Every collector before the one that runs has its panel, for good. *)
PanelsFilled ==
    /\ \A j \in JobIds : jobs[j].pc = "collecting" =>
         \A c \in Collectors : c < jobs[j].at => panels[c].state # "none"
    /\ page = "toolbar" => \A c \in Collectors : panels[c].state # "none"

LEMMA FilledStart ==
  ASSUME TypeOK, PanelsFilled, NEW j \in JobIds, StartPipeline(j) \/ ScheduleSave(j),
         page' = page
  PROVE  PanelsFilled'
<1>1. panels' = panels /\ \A k \in JobIds \ {j} : jobs'[k] = jobs[k]
  BY DEF StartPipeline, ScheduleSave, TypeOK
<1>2. jobs'[j].pc = "collecting" => jobs'[j].at = 1
  BY DEF StartPipeline, ScheduleSave, TypeOK
<1> QED
  BY <1>1, <1>2 DEF PanelsFilled, Collectors

LEMMA PipelineFilled ==
  ASSUME TypeOK, TypeOK', PanelsFilled, NEW j \in JobIds, Pipeline(j)
  PROVE  PanelsFilled'
<1>1. CASE Save(j) \/ SaveFails(j)
  <2>1. /\ panels' = panels /\ page' = page
        /\ jobs'[j].pc # "collecting" /\ \A k \in JobIds \ {j} : jobs'[k] = jobs[k]
    BY <1>1 DEF Save, SaveFails, TypeOK, JobType
  <2> QED
    BY <2>1 DEF PanelsFilled
<1>2. ASSUME NEW ok \in BOOLEAN,
             CollectNext(j, ok) \/ CollectLast(j, ok) \/ CollectRejects(j, ok)
      PROVE  PanelsFilled'
  <2> PICK at \in 0..N : at = jobs[j].at
    BY DEF TypeOK, JobType
  <2>1. jobs[j].pc = "collecting" /\ panels' = [panels EXCEPT ![at] = Panel(j, ok)]
    BY <1>2 DEF CollectNext, CollectLast, CollectRejects, Collecting, SetPanel
  <2>2. \A c \in Collectors : panels[c].state # "none" \/ c = at => panels'[c].state # "none"
    BY <2>1 DEF Panel, TypeOK
  <2>3. \A c \in Collectors : c <= at => panels'[c].state # "none"
    BY <2>1, <2>2 DEF PanelsFilled, Collectors
  <2>4. \A k \in JobIds : jobs'[k].pc = "collecting" =>
          jobs'[k] = jobs[k] \/ jobs'[k].at = 1 \/ (jobs'[k].at = at + 1 /\ k = j)
    <3> SUFFICES ASSUME NEW k \in JobIds, jobs'[k].pc = "collecting", jobs'[k] # jobs[k]
                 PROVE  jobs'[k].at = 1 \/ (jobs'[k].at = at + 1 /\ k = j)
      OBVIOUS
    <3>0. jobs \in [JobIds -> JobType]
      BY DEF TypeOK
    <3>1. CASE CollectNext(j, ok)
      <4>1. \E held : jobs' = [jobs EXCEPT ![j] = [pc |-> "collecting", at |-> at + 1, held |-> held]]
        BY <3>1 DEF CollectNext
      <4> QED
        BY <3>0, <4>1
    <3>2. CASE CollectLast(j, ok)
      <4>1. jobs' = [jobs EXCEPT ![j] = [pc |-> "saving", at |-> 0, held |-> 0]]
        BY <3>2, Zenon DEF CollectLast
      <4> QED
        BY <3>0, <4>1
    <3>3. CASE CollectRejects(j, ok)
      <4>1. \/ jobs' = [jobs EXCEPT ![j] = [pc |-> "lost", at |-> 0, held |-> 0]]
            \/ jobs' = [jobs EXCEPT ![j] = [pc |-> "lost", at |-> 0, held |-> 0],
                           !["error"] = [pc |-> "collecting", at |-> 1, held |-> raw[1]]]
        BY <3>3, Zenon DEF CollectRejects
      <4> QED
        BY <3>0, <4>1 DEF JobIds
    <3> QED
      BY <1>2, <3>1, <3>2, <3>3
  <2>5. ASSUME NEW k \in JobIds, jobs'[k].pc = "collecting", NEW c \in Collectors,
               c < jobs'[k].at
        PROVE  panels'[c].state # "none"
    <3>1. CASE jobs'[k] = jobs[k]
      BY <2>2, <2>5, <3>1 DEF PanelsFilled
    <3>2. CASE jobs'[k].at = 1
      BY <2>5, <3>2 DEF Collectors
    <3>3. CASE jobs'[k].at = at + 1
      BY <2>3, <2>5, <3>3 DEF Collectors
    <3> QED
      BY <2>4, <2>5, <3>1, <3>2, <3>3
  <2>6. page' = "toolbar" => page = "toolbar" \/ at = N
    BY <1>2 DEF CollectNext, CollectLast, CollectRejects
  <2>7. page' = "toolbar" => \A c \in Collectors : panels'[c].state # "none"
    BY <2>2, <2>3, <2>6, ConstantsAssumption DEF PanelsFilled, Collectors
  <2> QED
    BY <2>5, <2>7 DEF PanelsFilled
<1> QED
  BY <1>1, <1>2 DEF Pipeline

LEMMA NextFilled == TypeOK /\ TypeOK' /\ PanelsFilled /\ [Next]_vars => PanelsFilled'
<1> SUFFICES ASSUME TypeOK, TypeOK', PanelsFilled, [Next]_vars PROVE PanelsFilled'
  OBVIOUS
<1>1. ASSUME UNCHANGED <<jobs, panels, page>> PROVE PanelsFilled'
  BY <1>1 DEF PanelsFilled
<1>2. CASE UNCHANGED vars
  BY <1>1, <1>2 DEF vars, pipelineVars
<1>3. CASE Elsewhere
  BY <1>1, <1>3, ElsewhereKeeps
<1>4. CASE \E c \in Collectors : Capture(c)
  BY <1>1, <1>4, Zenon DEF Capture
<1>5. CASE EmitPage \/ \E more \in BOOLEAN : EmitPersisted(more)
  BY <1>5, FilledStart DEF EmitPage, EmitPersisted, JobIds
<1>6. CASE Finish \/ Close
  <2>1. page' = page /\ \E aborted \in BOOLEAN : CompleteProfile(aborted)
    BY <1>6, Zenon DEF Finish, Close
  <2>2. UNCHANGED <<jobs, panels>> \/ StartPipeline("hook") \/ ScheduleSave("hook")
    BY <2>1, Zenon DEF CompleteProfile, Backfill, CloseFromTransport, pipelineVars
  <2> QED
    BY <1>1, <2>1, <2>2, FilledStart DEF JobIds
<1>7. CASE ~deferred /\ (Resolve \/ Throw \/ ResolverThrows)
  <2>1. page' = page /\ \E j \in {"emit", "error"} : StartPipeline(j)
    BY <1>7 DEF Resolve, Throw, ResolverThrows
  <2> QED
    BY <2>1, FilledStart DEF JobIds
<1> QED
  BY <1>2, <1>3, <1>4, <1>5, <1>6, <1>7, StepKinds, PipelineFilled

(* A page leaves with the toolbar only when every collector's panel is there, with *)
(* or without the hook, and whatever another pipeline does meanwhile.              *)
THEOREM ToolbarFinished == Spec => []ToolbarShowsFinishedPanels
<1>1. Init => PanelsFilled
  BY DEF Init, PanelsFilled
<1>2. PanelsFilled => ToolbarShowsFinishedPanels
  BY DEF PanelsFilled, ToolbarShowsFinishedPanels
<1> QED
  BY <1>1, <1>2, InitType, NextType, NextFilled, PTL DEF Spec
-----------------------------------------------------------------------------
(* The status of a failure *)

(* A profile the hook closed holds the status the transport was left with. *)
StatusServed ==
    /\ (deferred /\ Closed /\ ~settled /\ ~transport.aborted /\ handler \in HttpKinds)
         => response.status = transport.status
    /\ transport.aborted => transport.closed

LEMMA ElsewhereStatus ==
  ASSUME IndInv, StatusServed, Elsewhere
  PROVE  StatusServed'
<1> SUFFICES ASSUME deferred', Closed', ~settled', ~transport'.aborted, handler' \in HttpKinds
             PROVE  response'.status = transport'.status
  BY ElsewhereTransport DEF StatusServed, IndInv
<1>1. Closed /\ ~settled /\ ~transport.aborted /\ handler \in HttpKinds
  BY ElsewhereKeeps, ElsewhereTransport DEF Closed, IndInv
<1>2. deferred
  BY <1>1, ElsewhereKeeps DEF IndInv, RunsWhenClosed
<1>3. HookWatches
  BY <1>2 DEF IndInv, Orderly, Watched
<1>4. transport.ended
  BY <1>1, <1>3 DEF HookWatches
<1> QED
  BY <1>1, <1>2, <1>4, ElsewhereKeeps, ElsewhereTransport DEF StatusServed, IndInv

LEMMA HookStatus ==
  ASSUME IndInv, StatusServed, Finish \/ Close
  PROVE  StatusServed'
<1>1. /\ UNCHANGED <<handler, deferred, settled>> /\ transport'.status = transport.status
      /\ ~transport.closed
      /\ \E aborted \in BOOLEAN : CompleteProfile(aborted)
  <2>1. CASE Finish
    BY <2>1 DEF Finish, TransportOver, IndInv, TypeOK, TransportType
  <2>2. CASE Close
    <3>1. (~transport.ended) \in BOOLEAN
      BY Zenon
    <3> QED
      BY <2>2, <3>1 DEF Close, IndInv, TypeOK, TransportType
  <2> QED
    BY <2>1, <2>2
<1>2. transport'.aborted => transport'.closed
  BY <1>1 DEF Finish, Close, StatusServed, IndInv, TypeOK, TransportType
<1> SUFFICES ASSUME deferred', Closed', ~settled', ~transport'.aborted, handler' \in HttpKinds
             PROVE  response'.status = transport'.status
  BY <1>2 DEF StatusServed
<1>3. deferred /\ ~settled /\ ~transport.aborted /\ HookWatches
  BY <1>1 DEF StatusServed, IndInv, Orderly, Watched
<1>4. PICK aborted \in BOOLEAN : CompleteProfile(aborted)
  BY <1>1
<1>5. CASE completed
  <2>1. response' = response /\ Closed
    BY <1>3, <1>4, <1>5 DEF CompleteProfile, HookWatches
  <2> QED
    BY <1>1, <1>3, <2>1 DEF StatusServed
<1>6. CASE ~completed
  <2>1. ~Closed
    BY <1>3, <1>6 DEF HookWatches
  <2> DEFINE st == Stream(aborted)
  <2>2. CloseFromTransport(st)
    BY <1>3, <1>4, <1>6, <2>1 DEF CompleteProfile
  <2> QED
    BY <1>1, <2>2 DEF CloseFromTransport, Finalize
<1> QED
  BY <1>5, <1>6

LEMMA NextStatus == IndInv /\ StatusServed /\ [Next]_vars => StatusServed'
<1> SUFFICES ASSUME IndInv, StatusServed, [Next]_vars PROVE StatusServed'
  OBVIOUS
<1>1. ASSUME UNCHANGED <<handler, transport, response, deferred, settled>> PROVE StatusServed'
  BY <1>1 DEF StatusServed, Closed
<1>2. CASE UNCHANGED vars
  BY <1>1, <1>2 DEF vars, profileVars, latches
<1>3. CASE \E c \in Collectors : Capture(c)
  <2>1. UNCHANGED <<handler, transport, response, deferred, settled>>
    BY <1>3, Zenon DEF Capture, profileVars, latches
  <2> QED
    BY <1>1, <2>1
<1>4. CASE EmitPage \/ \E more \in BOOLEAN : EmitPersisted(more)
  <2>1. settled' = TRUE /\ transport' = transport
    BY <1>4, Zenon DEF EmitPage, EmitPersisted, CloseOnEmission
  <2> QED
    BY <2>1 DEF StatusServed
<1>5. CASE ~deferred /\ (Resolve \/ Throw \/ ResolverThrows)
  <2>1. transport' = transport
    BY <1>5, Zenon DEF Resolve, Throw, ResolverThrows
  <2> QED
    BY <1>5, <2>1, UnwatchedStays DEF StatusServed, IndInv
<1>6. ASSUME NEW j \in JobIds, Pipeline(j) PROVE StatusServed'
  <2>1. deferred' = deferred /\ transport' = transport
    BY <1>6, Zenon DEF Pipeline, CollectNext, CollectLast, CollectRejects, Save, SaveFails,
       latches
  <2>2. CASE deferred
    BY <1>1, <1>6, <2>1, <2>2, PipelineOfClosed DEF IndInv, Watched
  <2>3. CASE ~deferred
    BY <2>1, <2>3 DEF StatusServed
  <2> QED
    BY <2>2, <2>3
<1>7. CASE Elsewhere
  BY <1>7, ElsewhereStatus
<1>8. CASE Finish \/ Close
  BY <1>8, HookStatus
<1> QED
  BY <1>2, <1>3, <1>4, <1>5, <1>6, <1>7, <1>8, StepKinds

(* A request that failed before it emitted has, in the end, the status the filters *)
(* chose: whichever filter answered, and whenever the transport closed.            *)
THEOREM FailureServed == Spec => []FailureStatusIsServed
<1>1. Init => StatusServed
  BY DEF Init, StatusServed
<1>2. IndInv /\ StatusServed => FailureStatusIsServed
  BY DEF IndInv, StatusServed, Orderly, HookWatches, Watched, FailureStatusIsServed, Quiet
<1> QED
  BY <1>1, <1>2, Inductive, NextStatus, PTL DEF Spec

-----------------------------------------------------------------------------
(* The response is built once *)

(* Under an armed hook only the hook touches the response of a closed profile, and *)
(* what it completes it never turns into something else, but for GraphQL.          *)
THEOREM ResponseBuiltOnce == Spec => ClosedOnce
<1>1. TypeOK /\ [Next]_vars =>
        [(Closed /\ deferred) =>
            /\ response'.status # "none"
            /\ response'.status # response.status => graphql
            /\ response.body \notin {"none", response'.body} => graphql]_vars
  <2> SUFFICES ASSUME TypeOK, [Next]_vars, Closed, deferred, ~UNCHANGED vars
               PROVE  /\ response'.status # "none"
                      /\ response'.status # response.status => graphql
                      /\ response.body \notin {"none", response'.body} => graphql
    OBVIOUS
  <2>1. ASSUME response' = response
        PROVE  /\ response'.status # "none"
               /\ response'.status # response.status => graphql
               /\ response.body \notin {"none", response'.body} => graphql
    BY <2>1 DEF Closed
  <2>2. CASE Elsewhere
    BY <2>1, <2>2, ElsewhereKeeps
  <2>3. CASE \E c \in Collectors : Capture(c)
    BY <2>1, <2>3, Zenon DEF Capture, profileVars
  <2>4. CASE EmitPage \/ \E more \in BOOLEAN : EmitPersisted(more)
    BY <2>4 DEF EmitPage, EmitPersisted, CloseOnEmission
  <2>5. CASE \E j \in JobIds : Pipeline(j)
    BY <2>1, <2>5, Zenon DEF Pipeline, CollectNext, CollectLast, CollectRejects, Save, SaveFails,
       profileVars
  <2>6. CASE Finish \/ Close
    <3>1. PICK aborted \in BOOLEAN : CompleteProfile(aborted)
      BY <2>6, Zenon DEF Finish, Close
    <3>2. CASE completed
      BY <2>1, <3>1, <3>2 DEF CompleteProfile
    <3>3. CASE ~completed
      <4> DEFINE st == Stream(aborted)
      <4>1. response' = Completed(st)
        BY <3>1, <3>3 DEF CompleteProfile, Backfill
      <4> HIDE DEF st
      <4> QED
        BY <4>1 DEF Completed, BodyChanged, Closed, TypeOK, TransportType
    <3> QED
      BY <3>2, <3>3
  <2> QED
    BY <2>2, <2>3, <2>4, <2>5, <2>6, StepKinds
<1> QED
  BY <1>1, InitType, NextType, PTL DEF Spec, ClosedOnce
-----------------------------------------------------------------------------
(* What is stored last is the profile *)

SavePending == \E j \in JobIds : jobs[j].pc \in {"collecting", "saving"}

(* Whatever changed a closed profile since the last save has a save to come. *)
StoredLast ==
    (deferred /\ Closed /\ NothingLost /\ ~history.late) => SavePending \/ doc = Snapshot

(* On a closed profile only a failure, and then a late one, records anything. *)
LEMMA ElsewhereRecords ==
  ASSUME TypeOK, Elsewhere, Closed, ~history'.late
  PROVE  UNCHANGED <<exceptions, route>>
<1> USE DEF profileVars
<1>1. CASE Skip \/ Use \/ GuardRejects \/ Intercept \/ Resolve
  BY <1>1, Zenon DEF Skip, Use, GuardRejects, Intercept, Resolve
<1>2. CASE \E more \in BOOLEAN : EmitForwarded(more) \/ EmitStreamed(more)
  BY <1>2, Zenon DEF EmitForwarded, EmitStreamed
<1>3. CASE FilterCatches
  BY <1>3 DEF FilterCatches, AlreadyRecorded
<1>4. CASE AppFilterCatches \/ Reply \/ ReplyFails \/ (\E json \in BOOLEAN : Write(json))
           \/ (\E last \in BOOLEAN : EndResponse(last))
  BY <1>4, Zenon DEF AppFilterCatches, Reply, ReplyFails, Write, EndResponse
<1>5. CASE deferred /\ (Throw \/ ResolverThrows)
  <2>1. \E failures, runs :
          \/ history' = [history EXCEPT !.failures = failures, !.late = history.late \/ Closed,
                                        !.runs = runs]
          \/ history' = [history EXCEPT !.failures = failures, !.late = history.late \/ Closed]
    BY <1>5, Zenon DEF Throw, ResolverThrows, CatchError
  <2>2. history'.late
    BY <2>1 DEF TypeOK, HistoryType
  <2> QED
    BY <2>2
<1> QED
  BY <1>1, <1>2, <1>3, <1>4, <1>5 DEF Elsewhere

(* A save or a pipeline that was just started is pending. *)
LEMMA StartedPending ==
  ASSUME TypeOK, NEW j \in JobIds, StartPipeline(j) \/ ScheduleSave(j)
  PROVE  SavePending'
  BY DEF StartPipeline, ScheduleSave, SavePending, TypeOK

LEMMA HookStored ==
  ASSUME IndInv, StoredLast, NEW aborted \in BOOLEAN, CompleteProfile(aborted),
         UNCHANGED <<deferred, route, doc>>
  PROVE  StoredLast'
<1> DEFINE st == Stream(aborted)
<1>1. CASE completed \/ ~deferred
  <2>1. deferred => UNCHANGED <<response, exceptions, measured, panels, jobs, history>>
    BY <1>1 DEF CompleteProfile, pipelineVars
  <2> QED
    BY <2>1 DEF StoredLast, Closed, NothingLost, SavePending, Snapshot
<1>2. CASE ~(completed \/ ~deferred) /\ Closed
  <2>1. Backfill(st)
    BY <1>2 DEF CompleteProfile
  <2>2. CASE BodyChanged \/ st # "none"
    <3>1. ScheduleSave("hook")
      BY <2>1, <2>2 DEF Backfill
    <3> QED
      BY <3>1, StartedPending DEF JobIds, StoredLast, IndInv
  <2>3. CASE ~(BodyChanged \/ st # "none")
    <3>1. response' = Completed("none") /\ UNCHANGED <<measured, exceptions, panels, jobs, history>>
      BY <2>1, <2>3 DEF Backfill, pipelineVars
    <3>2. response' = response
      BY <2>3, <3>1 DEF Completed, IndInv, TypeOK, ResponseType
    <3> QED
      BY <3>1, <3>2 DEF StoredLast, Closed, NothingLost, SavePending, Snapshot
  <2> QED
    BY <2>2, <2>3
<1>3. CASE ~(completed \/ ~deferred) /\ ~Closed
  <2>1. StartPipeline("hook")
    BY <1>3 DEF CompleteProfile, CloseFromTransport
  <2> QED
    BY <2>1, StartedPending DEF JobIds, StoredLast, IndInv
<1> QED
  BY <1>1, <1>2, <1>3

LEMMA PipelineStored ==
  ASSUME IndInv, StoredLast, NEW j \in JobIds, Pipeline(j)
  PROVE  StoredLast'
<1> SUFFICES ASSUME deferred', NothingLost' PROVE SavePending' \/ doc' = Snapshot'
  BY DEF StoredLast
<1>1. UNCHANGED <<response, measured>> /\ deferred
  BY PipelineOfClosed DEF Watched, IndInv
<1>2. ASSUME NEW ok \in BOOLEAN,
             CollectNext(j, ok) \/ CollectLast(j, ok) \/ CollectRejects(j, ok)
      PROVE  SavePending'
  <2>1. jobs'[j].pc \in {"collecting", "saving", "lost"}
    BY <1>1, <1>2 DEF CollectNext, CollectLast, CollectRejects, IndInv, TypeOK
  <2> QED
    BY <2>1 DEF NothingLost, SavePending
<1>3. CASE Save(j)
  <2>1. doc' = Snapshot /\ UNCHANGED <<exceptions, route, panels>>
    BY <1>3 DEF Save, profileVars
  <2> QED
    BY <1>1, <2>1 DEF Snapshot
<1>4. CASE SaveFails(j)
  <2>1. jobs'[j].pc = "lost"
    BY <1>4 DEF SaveFails, IndInv, TypeOK, JobType
  <2> QED
    BY <2>1 DEF NothingLost
<1> QED
  BY <1>2, <1>3, <1>4 DEF Pipeline

LEMMA NextStored == IndInv /\ StoredLast /\ [Next]_vars => StoredLast'
<1> SUFFICES ASSUME IndInv, StoredLast, [Next]_vars PROVE StoredLast'
  OBVIOUS
<1>1. ASSUME UNCHANGED <<response, exceptions, route, measured, panels, jobs, doc>>,
             deferred' => deferred, history.late => history'.late
      PROVE  StoredLast'
  BY <1>1 DEF StoredLast, Closed, NothingLost, SavePending, Snapshot
<1>2. CASE UNCHANGED vars
  BY <1>1, <1>2 DEF vars, profileVars, latches, pipelineVars
<1>3. CASE Elsewhere
  <2> SUFFICES ASSUME deferred', Closed', ~history'.late PROVE StoredLast'
    BY DEF StoredLast
  <2>1. Closed
    BY <1>3, ElsewhereKeeps DEF Closed, IndInv
  <2>2. deferred
    BY <1>3, <2>1, ElsewhereKeeps DEF IndInv, RunsWhenClosed
  <2> QED
    BY <1>1, <1>3, <2>1, <2>2, ElsewhereKeeps, ElsewhereHistory, ElsewhereRecords DEF IndInv
<1>4. ASSUME NEW c \in Collectors, Capture(c) PROVE StoredLast'
  <2>1. UNCHANGED <<response, exceptions, route, measured, panels, jobs, doc, deferred>>
    BY <1>4, Zenon DEF Capture, profileVars, latches
  <2>2. \E entries, due : history' = [history EXCEPT !.entries = entries, !.due[c] = due]
    BY <1>4, Zenon DEF Capture
  <2>3. history'.late = history.late
    BY <2>2 DEF IndInv, TypeOK, HistoryType
  <2> QED
    BY <1>1, <2>1, <2>3
<1>5. CASE EmitPage \/ \E more \in BOOLEAN : EmitPersisted(more)
  BY <1>5, StartedPending DEF EmitPage, EmitPersisted, StoredLast, JobIds, IndInv
<1>6. CASE Finish \/ Close
  <2>1. UNCHANGED <<deferred, route, doc>> /\ \E aborted \in BOOLEAN : CompleteProfile(aborted)
    BY <1>6, Zenon DEF Finish, Close
  <2> QED
    BY <2>1, HookStored
<1>7. CASE ~deferred /\ (Resolve \/ Throw \/ ResolverThrows)
  BY <1>7, UnwatchedStays DEF StoredLast, IndInv
<1> QED
  BY <1>2, <1>3, <1>4, <1>5, <1>6, <1>7, StepKinds, PipelineStored

(* Once everything has settled, the stored document is the profile as its last writer *)
(* left it: an earlier save never hides what the hook, or a collector, changed since.  *)
THEOREM StoredFinal == Spec => []StoredIsFinal
<1>1. Init => StoredLast
  BY DEF Init, StoredLast
<1>2. IndInv /\ StoredLast => StoredIsFinal
  <2> SUFFICES ASSUME IndInv, StoredLast, Quiet, deferred, NothingLost, ~history.late
               PROVE  doc = Snapshot
    BY DEF StoredIsFinal
  <2>1. Closed
    BY DEF IndInv, Orderly, HookWatches, Watched, Quiet
  <2>2. ~SavePending
    BY DEF Quiet, Terminal, SavePending
  <2> QED
    BY <2>1, <2>2 DEF StoredLast
<1> QED
  BY <1>1, <1>2, Inductive, NextStored, PTL DEF Spec

-----------------------------------------------------------------------------
(* The request implements one profile record *)

RecordStep == [Record!Next]_(Record!vars)

(* The hook is armed only when the middleware lets the request in. *)
Unarmed == Waiting => ~deferred

LEMMA NextUnarmed == Unarmed /\ [Next]_vars => Unarmed'
<1> SUFFICES ASSUME Unarmed, [Next]_vars, Waiting' PROVE ~deferred'
  BY DEF Unarmed
<1>1. CASE UNCHANGED vars
  BY <1>1 DEF vars, latches, Waiting, Unarmed
<1>2. CASE Skip \/ Use \/ GuardRejects \/ Intercept
  BY <1>2 DEF Skip, Use, GuardRejects, Intercept, Waiting, Unarmed, latches
<1>3. CASE Emission
  BY <1>3 DEF Emission, EmitForwarded, EmitStreamed, EmitPersisted, AfterEmission, EmitPage,
     Resolve, Waiting
<1>4. CASE Throw \/ ResolverThrows \/ FilterCatches \/ AppFilterCatches \/ Reply \/ ReplyFails
  BY <1>4 DEF Throw, CatchError, ResolverThrows, FilterCatches, AppFilterCatches, Reply,
     ReplyFails, Waiting
<1>5. CASE \/ \E c \in Collectors : Capture(c)
           \/ \E json \in BOOLEAN : Write(json)
           \/ \E last \in BOOLEAN : EndResponse(last)
           \/ Finish \/ Close
  BY <1>5 DEF Capture, Write, EndResponse, CanWrite, Finish, Close, Waiting, latches, Unarmed
<1>6. CASE \E j \in JobIds : Pipeline(j)
  BY <1>6 DEF Pipeline, CollectNext, CollectLast, CollectRejects, Save, SaveFails, CatchError,
     Waiting, latches, Unarmed
<1> QED
  BY <1>1, <1>2, <1>3, <1>4, <1>5, <1>6 DEF Next

LEMMA RecordStutters ==
  ASSUME StageOf' = StageOf, CollectionOf' = CollectionOf, StoredOf' = StoredOf
  PROVE  RecordStep
  BY DEF RecordStep, Record!vars

(* What no reader of the record sees. *)
LEMMA RecordUnchanged ==
  ASSUME UNCHANGED <<deferred, panels, doc>>, Closed' = Closed, CollectionRuns' = CollectionRuns
  PROVE  RecordStep
<1>1. CollectionOf' = CollectionOf
  BY DEF CollectionOf, AnalysisThrows
<1> QED
  BY <1>1, RecordStutters DEF StageOf, StoredOf

LEMMA UnwatchedStutters ==
  ASSUME ~deferred, ~deferred'
  PROVE  RecordStep
  BY RecordStutters DEF StageOf, CollectionOf, StoredOf

(* Closing an open profile starts its collection. *)
LEMMA RecordCloses ==
  ASSUME TypeOK, deferred, ~Closed, Closed', UNCHANGED <<deferred, doc>>, NEW j \in JobIds,
         StartPipeline(j)
  PROVE  RecordStep
<1>1. jobs'[j].pc = "collecting"
  BY DEF StartPipeline, TypeOK
<1>2. CollectionOf' = "running"
  BY <1>1 DEF CollectionOf, CollectionRuns
<1>3. StageOf = "open" /\ StageOf' = "closed" /\ StoredOf' = StoredOf
  BY DEF StageOf, StoredOf
<1> QED
  BY <1>2, <1>3 DEF RecordStep, Record!Next, Record!CloseProfile

LEMMA ElsewhereRecord ==
  ASSUME IndInv, TypeOK', Unarmed, Elsewhere
  PROVE  RecordStep
<1>1. UNCHANGED <<response, panels, jobs, doc>> /\ (deferred' = deferred \/ Waiting)
  BY ElsewhereKeeps DEF IndInv
<1>2. Closed' = Closed /\ CollectionRuns' = CollectionRuns
  BY <1>1 DEF Closed, CollectionRuns
<1>3. CASE deferred' = deferred
  BY <1>1, <1>2, <1>3, RecordUnchanged
<1>4. CASE deferred' # deferred
  <2>1. Waiting /\ deferred' = TRUE /\ deferred = FALSE
    <3>1. Waiting /\ ~deferred
      BY <1>1, <1>4 DEF Unarmed
    <3>2. deferred' \in BOOLEAN /\ deferred \in BOOLEAN
      BY DEF IndInv, TypeOK
    <3> QED
      BY <1>4, <3>1, <3>2
  <2>2. ~Closed /\ ~Closed' /\ ~doc.present
    BY <1>2, <2>1 DEF IndInv, RunsWhenClosed, Orderly, Watched, NothingStarted
  <2>3. /\ StageOf = "none" /\ StageOf' = "open"
        /\ CollectionOf = "idle" /\ CollectionOf' = "idle"
        /\ StoredOf = FALSE /\ StoredOf' = FALSE
    BY <1>1, <2>1, <2>2 DEF StageOf, CollectionOf, StoredOf
  <2> QED
    BY <2>3 DEF RecordStep, Record!Next, Record!Open
<1> QED
  BY <1>3, <1>4

LEMMA HookRecord ==
  ASSUME IndInv, Finish \/ Close
  PROVE  RecordStep
<1>1. UNCHANGED <<deferred, doc>> /\ \E aborted \in BOOLEAN : CompleteProfile(aborted)
  <2>1. CASE Finish
    BY <2>1 DEF Finish
  <2>2. CASE Close
    <3>1. (~transport.ended) \in BOOLEAN
      BY Zenon
    <3> QED
      BY <2>2, <3>1 DEF Close
  <2> QED
    BY <2>1, <2>2
<1>2. PICK aborted \in BOOLEAN : CompleteProfile(aborted)
  BY <1>1
<1> DEFINE st == Stream(aborted)
<1>3. CASE ~deferred
  BY <1>1, <1>3, UnwatchedStutters
<1>4. CASE deferred /\ completed
  <2>1. UNCHANGED <<response, panels, jobs>>
    BY <1>2, <1>4 DEF CompleteProfile, pipelineVars
  <2> QED
    BY <1>1, <2>1, RecordUnchanged DEF Closed, CollectionRuns
<1>5. CASE deferred /\ ~completed /\ Closed
  <2>1. Backfill(st)
    BY <1>2, <1>5 DEF CompleteProfile
  <2>2. Closed'
    BY <1>5, <2>1 DEF Backfill, Completed, BodyChanged, Closed, IndInv, TypeOK, TransportType
  <2>3. panels' = panels
    BY <2>1 DEF Backfill, ScheduleSave, pipelineVars
  <2>4. jobs["hook"].pc = "idle"
    BY <1>5 DEF IndInv, Orderly, Watched, HookWatches
  <2>5. CollectionRuns' = CollectionRuns
    BY <2>1, <2>4 DEF Backfill, ScheduleSave, pipelineVars, CollectionRuns, IndInv, TypeOK, JobIds
  <2> QED
    BY <1>1, <1>5, <2>2, <2>3, <2>5, RecordUnchanged
<1>6. CASE deferred /\ ~completed /\ ~Closed
  <2>1. CloseFromTransport(st)
    BY <1>2, <1>6 DEF CompleteProfile
  <2>2. Closed'
    BY <2>1 DEF CloseFromTransport, Finalize, Closed, IndInv, TypeOK, TransportType
  <2> QED
    BY <1>1, <1>6, <2>1, <2>2, RecordCloses DEF CloseFromTransport, JobIds, IndInv
<1> QED
  BY <1>3, <1>4, <1>5, <1>6

LEMMA PipelineRecord ==
  ASSUME IndInv, TypeOK', deferred, NEW j \in JobIds, Pipeline(j)
  PROVE  RecordStep
<1>1. deferred' = deferred
  BY Zenon DEF Pipeline, CollectNext, CollectLast, CollectRejects, Save, SaveFails, latches
<1>2. /\ Closed /\ Closed' /\ OnePipeline /\ history'.due = history.due
  BY <1>1, PipelineOfClosed DEF IndInv, Watched
<1>3. ASSUME NEW ok \in BOOLEAN, CollectNext(j, ok) PROVE RecordStep
  <2>1. jobs[j].pc = "collecting" /\ jobs'[j].pc = "collecting" /\ doc' = doc
    BY <1>3 DEF CollectNext, Collecting, IndInv, TypeOK
  <2>2. CollectionOf = "running" /\ CollectionOf' = "running"
    BY <1>1, <1>2, <2>1 DEF CollectionOf, CollectionRuns
  <2> QED
    BY <1>1, <1>2, <2>1, <2>2, RecordStutters DEF StageOf, StoredOf
<1>4. ASSUME NEW ok \in BOOLEAN, CollectLast(j, ok) \/ CollectRejects(j, ok) PROVE RecordStep
  <2>1. jobs[j].pc = "collecting" /\ doc' = doc
    BY <1>4 DEF CollectLast, CollectRejects, Collecting
  <2>2. CollectionOf = "running"
    BY <1>2, <2>1 DEF CollectionOf, CollectionRuns
  <2>3. ~CollectionRuns' /\ \A c \in Collectors : Handed(c)'
    BY <1>2, <1>4, PipelineEnds DEF CollectionRuns, IndInv
  <2>4. CollectionOf' \in {"done", "failed"}
    BY <1>1, <1>2, <2>3 DEF CollectionOf, Handed
  <2> QED
    BY <1>1, <1>2, <2>1, <2>2, <2>4 DEF StageOf, StoredOf, RecordStep, Record!Next,
       Record!EndCollection
<1>5. CASE Save(j) \/ SaveFails(j)
  <2>1. panels' = panels /\ jobs[j].pc = "saving"
    BY <1>5 DEF Save, SaveFails
  <2>2. CollectionRuns' = CollectionRuns
    BY <1>5 DEF Save, SaveFails, CollectionRuns, IndInv, TypeOK, JobType
  <2>3. CollectionOf' = CollectionOf
    BY <1>1, <1>2, <2>1, <2>2 DEF CollectionOf, AnalysisThrows
  <2>4. CASE Save(j)
    <3>1. StoredOf' = TRUE
      BY <1>1, <2>4 DEF Save, StoredOf, Snapshot
    <3> QED
      BY <1>1, <1>2, <2>3, <3>1 DEF StageOf, RecordStep, Record!Next, Record!Store
  <2>5. CASE SaveFails(j)
    <3>1. doc' = doc
      BY <2>5 DEF SaveFails
    <3> QED
      BY <1>1, <1>2, <2>3, <3>1, RecordStutters DEF StageOf, StoredOf
  <2> QED
    BY <1>5, <2>4, <2>5
<1> QED
  BY <1>3, <1>4, <1>5 DEF Pipeline

(* Whoever closes, collects and saves, a request is one profile record: opened once, *)
(* closed once, collected into once and stored only after it was closed.             *)
THEOREM RecordImplemented == Spec => ImplementsRecord
<1>1. Init => Record!Init
  BY DEF Init, Record!Init, StageOf, CollectionOf, StoredOf
<1>2. Init => Unarmed
  BY DEF Init, Unarmed
<1>3. IndInv /\ IndInv' /\ Unarmed /\ [Next]_vars => RecordStep
  <2> SUFFICES ASSUME IndInv, TypeOK', Unarmed, [Next]_vars PROVE RecordStep
    BY DEF IndInv
  <2>1. CASE UNCHANGED vars
    BY <2>1, RecordUnchanged DEF vars, profileVars, latches, pipelineVars, Closed, CollectionRuns
  <2>2. CASE Elsewhere
    BY <2>2, ElsewhereRecord
  <2>3. CASE \E c \in Collectors : Capture(c)
    <3>1. UNCHANGED <<deferred, panels, doc, response, jobs>>
      BY <2>3, Zenon DEF Capture, profileVars, latches
    <3> QED
      BY <3>1, RecordUnchanged DEF Closed, CollectionRuns
  <2>4. CASE EmitPage \/ \E more \in BOOLEAN : EmitPersisted(more)
    <3>1. CloseOnEmission /\ StartPipeline("emit") /\ doc' = doc
      BY <2>4 DEF EmitPage, EmitPersisted
    <3>2. ~Closed /\ Closed' /\ deferred' = deferred
      BY <3>1 DEF CloseOnEmission, Finalize, Closed, IndInv, TypeOK, TransportType
    <3> QED
      BY <3>1, <3>2, RecordCloses, UnwatchedStutters DEF JobIds, IndInv
  <2>5. CASE Finish \/ Close
    BY <2>5, HookRecord
  <2>6. ASSUME NEW j \in JobIds, Pipeline(j) PROVE RecordStep
    <3>1. deferred' = deferred
      BY <2>6, Zenon DEF Pipeline, CollectNext, CollectLast, CollectRejects, Save, SaveFails,
         latches
    <3> QED
      BY <2>6, <3>1, PipelineRecord, UnwatchedStutters
  <2>7. CASE ~deferred /\ (Resolve \/ Throw \/ ResolverThrows)
    BY <2>7, UnwatchedStays, UnwatchedStutters DEF IndInv
  <2> QED
    BY <2>1, <2>2, <2>3, <2>4, <2>5, <2>6, <2>7, StepKinds
<1> QED
  BY <1>1, <1>2, <1>3, Inductive, NextUnarmed, PTL DEF Spec, RecordStep, ImplementsRecord,
     Record!Spec

=============================================================================
