------------------------------ MODULE Messaging ------------------------------
(***************************************************************************)
(* The RabbitMQ package: publish is patched to record what a profile sends *)
(* and to put the trace id on the message (rabbitmq-publish.patch.ts,      *)
(* rabbitmq-trace-id.ts), and every delivery to a handler opens a profile  *)
(* that adopts the message's trace (rabbitmq-context.adapter.ts), closed by*)
(* the core interceptor.                                                   *)
(*                                                                         *)
(* The broker is external: it may refuse a publish, delivers a message in  *)
(* any order and delivers it again until its handler succeeded.  A handler *)
(* may publish in turn, with its own profile's trace.                      *)
(***************************************************************************)
EXTENDS Naturals, Sequences, FiniteSets

CONSTANTS
    MqScenarios,    \* header options of both sides, what is published
    MqMaxMessages,  \* bound: messages published
    MqMaxDeliveries,\* bound: deliveries
    MqNone

(* A trace id: the one a profile is given, or one a caller wrote.          *)
MqTraces == {"own", "caller", "rpc", "malformed"} \X Nat
OwnTrace(p) == <<"own", p>>
Written(kind) == <<kind, 0>>

(* What a caller may put on a message itself: nothing, a trace header it   *)
(* wrote on purpose, one no reader adopts, or the correlation id that RPC  *)
(* owns or that a publisher set to a trace id.                             *)
MqCallerHeaders == {MqNone, Written("caller"), Written("malformed")}
MqCorrelations == {MqNone, Written("rpc"), Written("malformed")}
MqHeaderNames == {"default", "custom"}

ASSUME MqAssumption ==
    /\ MqMaxMessages \in Nat /\ MqMaxDeliveries \in Nat
    /\ MqNone \notin Nat /\ MqNone \notin MqTraces /\ MqNone \notin MqHeaderNames
    /\ \A s \in MqScenarios :
         /\ DOMAIN s = {"publishes", "reads", "header", "correlation", "profiled", "relays"}
         /\ s.publishes \in MqHeaderNames \cup {MqNone} /\ s.reads \in MqHeaderNames
         /\ s.header \in MqCallerHeaders /\ s.correlation \in MqCorrelations
         /\ s.profiled \in BOOLEAN /\ s.relays \in BOOLEAN

VARIABLES
    mqConfig,     \* the scenario
    mqPatched,    \* wrappers around AmqpConnection.prototype.publish
    mqMessages,   \* the messages sent, with their headers and who sent them
    mqPublish,    \* publish calls in flight
    mqQueue,      \* messages waiting for a delivery
    mqProfiles,   \* the profiles: the publishing one first, then one per delivery
    mqEntries,    \* RABBITMQ_PUBLISHES_KEY of every profile
    mqStored      \* profiles persisted

mqVars == <<mqConfig, mqPatched, mqMessages, mqPublish, mqQueue, mqProfiles, mqEntries,
            mqStored>>

-----------------------------------------------------------------------------
IsAdoptableTraceId(value) == value # MqNone /\ value # Written("malformed")

TraceIdAlwaysWins(headers, trace) ==
    IF mqConfig.publishes = MqNone \/ trace = MqNone THEN headers
    ELSE [h \in DOMAIN headers \cup {mqConfig.publishes} |->
            IF h = mqConfig.publishes THEN trace ELSE headers[h]]

(* withTraceIdHeader: an explicit header always wins, and there is nothing *)
(* to add without an option or a profile.                                  *)
WithTraceIdOnMessage(headers, trace) ==
    IF mqConfig.publishes = MqNone \/ trace = MqNone \/ mqConfig.publishes \in DOMAIN headers
    THEN headers
    ELSE [h \in DOMAIN headers \cup {mqConfig.publishes} |->
            IF h \in DOMAIN headers THEN headers[h] ELSE trace]

(* readMessageTraceId, then the correlation id.                            *)
AdoptedTrace(message) ==
    LET onHeader == IF mqConfig.reads \in DOMAIN message.headers
                    THEN message.headers[mqConfig.reads] ELSE MqNone
    IN  IF IsAdoptableTraceId(onHeader) THEN onHeader
        ELSE IF IsAdoptableTraceId(message.correlation) THEN message.correlation
        ELSE MqNone

MqTrace(p) == IF p = MqNone THEN MqNone ELSE mqProfiles[p].trace

-----------------------------------------------------------------------------
MqStart(s) ==
    /\ mqConfig = s /\ mqPatched = 0
    /\ mqMessages = <<>> /\ mqPublish = {} /\ mqQueue = {}
    /\ mqProfiles = <<[trace |-> OwnTrace(1), message |-> 0, state |-> "running"]>>
    /\ mqEntries = <<>> /\ mqStored = {}

MqInit == \E s \in MqScenarios : MqStart(s)

(* onModuleInit: the prototype is patched unless it already is; two modules*)
(* may be imported.                                                        *)
PatchPublish ==
    /\ mqMessages = <<>> /\ mqPublish = {}
    /\ mqPatched = 0
    /\ mqPatched' = 1
    /\ UNCHANGED <<mqConfig, mqMessages, mqPublish, mqQueue, mqProfiles, mqEntries, mqStored>>

(* instrumentedPublish, in the context of profile p or of none.            *)
Publish(p) ==
    /\ mqPatched > 0
    /\ Len(mqMessages) + Cardinality(mqPublish) < MqMaxMessages
    /\ Len(mqEntries) + Cardinality(mqPublish) < MqMaxMessages
    /\ IF p = MqNone THEN ~mqConfig.profiled
       ELSE /\ p \in DOMAIN mqProfiles /\ mqProfiles[p].state = "running"
            /\ IF p = 1 THEN mqConfig.profiled /\ mqMessages = <<>> ELSE mqConfig.relays
    /\ LET own == IF mqConfig.header = MqNone \/ (p # MqNone /\ p > 1) THEN <<>>
                  ELSE [h \in {mqConfig.reads} |-> mqConfig.header]
       IN  mqPublish' = mqPublish \cup {[by |-> p, own |-> own,
                                         headers |-> WithTraceIdOnMessage(own, MqTrace(p)),
                                         correlation |-> mqConfig.correlation]}
    /\ UNCHANGED <<mqConfig, mqPatched, mqMessages, mqQueue, mqProfiles, mqEntries, mqStored>>

(* What record leaves on the publishing profile: the message as it was sent*)
PublishEntry(call, outcome) ==
    [profile |-> call.by, headers |-> call.headers, outcome |-> outcome]

(* The broker answers: accepted, refused by back-pressure, or an error,    *)
(* which goes back to the caller.                                          *)
BrokerAnswers(call, outcome) ==
    /\ call \in mqPublish
    /\ mqPublish' = mqPublish \ {call}
    /\ mqEntries' = IF call.by = MqNone THEN mqEntries
                    ELSE Append(mqEntries, PublishEntry(call, outcome))
    /\ IF outcome = "error"
       THEN UNCHANGED <<mqMessages, mqQueue>>
       ELSE /\ mqMessages' = Append(mqMessages, call)
            /\ mqQueue' = mqQueue \cup {Len(mqMessages) + 1}
    /\ UNCHANGED <<mqConfig, mqPatched, mqProfiles, mqStored>>

(* A message reaches its handler: recoverProfile opens a profile with a    *)
(* trace of its own, enrichProfile adopts the publisher's.                 *)
Deliver(m) ==
    /\ m \in mqQueue /\ Len(mqProfiles) <= MqMaxDeliveries
    /\ mqQueue' = mqQueue \ {m}
    /\ LET adopted == AdoptedTrace(mqMessages[m])
           own == OwnTrace(Len(mqProfiles) + 1)
       IN  mqProfiles' = Append(mqProfiles,
             [trace |-> IF adopted # MqNone THEN adopted ELSE own, message |-> m,
              state |-> "running"])
    /\ UNCHANGED <<mqConfig, mqPatched, mqMessages, mqPublish, mqEntries, mqStored>>

(* The handler ends: its profile is finalised and persisted, and a message *)
(* whose handler failed comes back.                                        *)
HandlerEnds(p, failed) ==
    /\ p \in DOMAIN mqProfiles /\ p > 1 /\ mqProfiles[p].state = "running"
    /\ \A call \in mqPublish : call.by # p
    /\ mqProfiles' = [mqProfiles EXCEPT ![p].state = IF failed THEN "failed" ELSE "done"]
    /\ mqStored' = mqStored \cup {p}
    /\ mqQueue' = IF failed THEN mqQueue \cup {mqProfiles[p].message} ELSE mqQueue
    /\ UNCHANGED <<mqConfig, mqPatched, mqMessages, mqPublish, mqEntries>>

MqNext ==
    \/ PatchPublish
    \/ \E p \in DOMAIN mqProfiles \cup {MqNone} : Publish(p)
    \/ \E call \in mqPublish, o \in {"accepted", "refused", "error"} : BrokerAnswers(call, o)
    \/ \E m \in mqQueue : Deliver(m)
    \/ \E p \in DOMAIN mqProfiles, f \in BOOLEAN : HandlerEnds(p, f)

MqSpec == MqInit /\ [][MqNext]_mqVars

-----------------------------------------------------------------------------
(* Types: what the variables may hold.                                     *)
MqTypeOK ==
    /\ mqConfig \in MqScenarios /\ mqPatched \in 0..1
    /\ mqQueue \subseteq DOMAIN mqMessages
    /\ \A p \in DOMAIN mqProfiles :
         /\ mqProfiles[p].state \in {"running", "done", "failed"}
         /\ mqProfiles[p].message \in 0..Len(mqMessages)
    /\ mqStored \subseteq DOMAIN mqProfiles

(* "the link between the request that published the message and the        *)
(* consumer that handled it": when both sides use the same header, a       *)
(* delivery, the first as well as every redelivery, and whatever hop it is *)
(* on, carries the publishing profile's trace, unless the caller wrote the *)
(* header itself; that value is sent as written and shown as sent.         *)
MessageContinuesTheTrace ==
    /\ \A p \in DOMAIN mqProfiles \ {1} :
         LET message == mqMessages[mqProfiles[p].message]
         IN  mqConfig.publishes = mqConfig.reads /\ message.by # MqNone
             => mqProfiles[p].trace =
                  IF message.own = <<>> THEN mqProfiles[message.by].trace
                  ELSE IF mqConfig.header = Written("caller") THEN Written("caller")
                  ELSE IF mqConfig.correlation = Written("rpc") THEN Written("rpc")
                  ELSE OwnTrace(p)
    /\ \A i \in DOMAIN mqEntries :
         LET e == mqEntries[i]
         IN  mqConfig.publishes # MqNone
             => mqConfig.publishes \in DOMAIN e.headers
                /\ (e.profile > 1 \/ mqConfig.header = MqNone
                    \/ mqConfig.publishes # mqConfig.reads
                    => e.headers[mqConfig.publishes] = MqTrace(e.profile))
=============================================================================
