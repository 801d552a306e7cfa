---------------------------- MODULE MCPackagesProofs ----------------------------
(***************************************************************************)
(* Proofs about the instrumentation packages together: the last components *)
(* they need, then what MCPackages states of all of them.                  *)
(***************************************************************************)
EXTENDS MCPackages, PackageProofs, TelemetryProofs

-----------------------------------------------------------------------------
(* HttpClient: what a call has left in the profile is known from where it  *)
(* stands; a socket that waits to be attributed carried no request yet.    *)
HcStages == {"new", "sent", "reading", "answered", "failed"}
HcMarkNames == {"connect", "sendHeaders", "bodySent", "headers", "end"}

HcShaped ==
    /\ hcScenario \in HcScenarios
    /\ hcStage \in [HcCalls -> HcStages]
    /\ hcMarks \in [HcCalls -> SUBSET HcMarkNames] /\ hcSlot = hcMarks
    /\ hcSocketOf \in [HcCalls -> HcSockets \cup {HcNone}]
    /\ connectedSockets \subseteq HcSockets
    /\ pendingConnects \in Seq({"started"}) /\ Len(pendingConnects) <= HcMaxPending
    /\ IsSeq(hcLog)

HcRecorded(c) ==
    IF HcCall(c).profiled /\ hcStage[c] \in {"answered", "failed"}
    THEN \E i \in HcEntriesOf(c) :
           /\ HcEntriesOf(c) = {i}
           /\ hcLog[i].outcome = hcStage[c]
           /\ hcLog[i].phases \subseteq hcMarks[c]
    ELSE HcEntriesOf(c) = {}
HcAllRecorded == \A c \in HcCalls : HcRecorded(c)

(* Who measured a socket was the first on it.                              *)
Handshakes ==
    /\ \A c \in HcCalls : "connect" \in hcMarks[c] => hcSocketOf[c] # HcNone
    /\ \A s \in connectedSockets : \A c \in HcCalls : hcSocketOf[c] # s
    /\ \A c, d \in HcCalls :
         /\ "connect" \in hcMarks[c] /\ "connect" \in hcMarks[d]
         /\ hcSocketOf[c] = hcSocketOf[d]
         => c = d

HcInv == HcShaped /\ HcAllRecorded /\ Handshakes

LEMMA HcEnough == ASSUME HcInv PROVE HttpCallRecordedOnce /\ HandshakeReportedOnce /\ HcTypeOK
<1>1. HttpCallRecordedOnce
  BY DEF HcInv, HcAllRecorded, HcRecorded, HttpCallRecordedOnce
<1>2. HandshakeReportedOnce
  BY DEF HcInv, HcShaped, Handshakes, HandshakeReportedOnce
<1>3. HcTypeOK
  BY DEF HcInv, HcShaped, HcTypeOK, HcStages, HcMarkNames
<1> QED  BY <1>1, <1>2, <1>3

LEMMA HcInitially == HcInit => HcInv
<1> SUFFICES ASSUME NEW s \in HcScenarios, HcStart(s) PROVE HcInv
  BY DEF HcInit
<1> USE DEF HcStart
<1>1. <<>> \in Seq({"started"}) /\ Len(<<>>) = 0 /\ IsSeq(<<>>) /\ DOMAIN <<>> = {}
  <2>1. <<>> \in Seq({"started"}) /\ Len(<<>>) = 0
    BY EmptySeq
  <2>2. IsSeq(<<>>)
    BY <2>1 DEF IsSeq
  <2> QED  BY <2>1, <2>2, SeqFacts
<1>2. HcShaped
  BY <1>1, HcAssumption DEF HcShaped, HcStages
<1>3. \A c \in HcCalls : HcEntriesOf(c) = {}
  BY <1>1 DEF HcEntriesOf
<1>4. HcAllRecorded
  BY <1>3 DEF HcAllRecorded, HcRecorded
<1>5. Handshakes
  BY DEF Handshakes
<1> QED  BY <1>2, <1>4, <1>5 DEF HcInv

(* A log that grew by an entry of one call: the others keep theirs.        *)
LEMMA HcGrown ==
    ASSUME HcShaped, NEW e, hcLog' = Append(hcLog, e)
    PROVE  /\ IsSeq(hcLog') /\ hcLog'[Len(hcLog) + 1] = e
           /\ DOMAIN hcLog' = DOMAIN hcLog \cup {Len(hcLog) + 1}
           /\ \A i \in DOMAIN hcLog : hcLog'[i] = hcLog[i] /\ i # Len(hcLog) + 1
<1>1. /\ IsSeq(hcLog') /\ Len(hcLog') = Len(hcLog) + 1 /\ Len(hcLog) \in Nat
      /\ DOMAIN hcLog = 1..Len(hcLog) /\ DOMAIN hcLog' = 1..Len(hcLog')
      /\ \A i \in 1..Len(hcLog) : hcLog'[i] = hcLog[i]
      /\ hcLog'[Len(hcLog) + 1] = e
  BY AppendFacts, SeqFacts DEF HcShaped
<1> QED  BY <1>1

LEMMA HcEntered ==
    ASSUME HcShaped, NEW e, hcLog' = Append(hcLog, e), NEW c
    PROVE  /\ c = e.call => HcEntriesOf(c)' = HcEntriesOf(c) \cup {Len(hcLog) + 1}
           /\ c # e.call => HcEntriesOf(c)' = HcEntriesOf(c)
           /\ \A i \in HcEntriesOf(c) : hcLog'[i] = hcLog[i]
<1> QED  BY HcGrown DEF HcEntriesOf

(* A call settles: it leaves its entry, the others are where they were.    *)
LEMMA HcSettles ==
    ASSUME HcInv, NEW c \in HcCalls, hcStage[c] \in {"sent", "reading"},
           NEW outcome \in {"answered", "failed"}, NEW body, HcCapture(c, outcome, body),
           hcStage' = [hcStage EXCEPT ![c] = outcome],
           UNCHANGED <<hcScenario, hcSent, hcMarks, hcSlot, pendingConnects, connectedSockets, hcSocketOf>>
    PROVE  HcInv'
<1>0. UNCHANGED <<hcScenario, hcMarks, hcSlot, pendingConnects, connectedSockets, hcSocketOf>>
  OBVIOUS
<1>1. Handshakes'
  BY <1>0 DEF HcInv, Handshakes
<1>2. hcStage'[c] = outcome /\ \A d \in HcCalls \ {c} : hcStage'[d] = hcStage[d]
  BY DEF HcInv, HcShaped
<1>3. HcCall(c).profiled \in BOOLEAN /\ \A d : HcCall(d)' = HcCall(d)
  BY <1>0, HcAssumption DEF HcInv, HcShaped, HcCall
<1>4. HcEntriesOf(c) = {}
  BY DEF HcInv, HcAllRecorded, HcRecorded
<1>5. CASE ~HcCall(c).profiled
  <2>1. hcLog' = hcLog
    BY <1>5 DEF HcCapture
  <2>2. HcShaped'
    BY <1>0, <2>1 DEF HcInv, HcShaped, HcStages
  <2>3. ASSUME NEW d \in HcCalls PROVE HcRecorded(d)'
    <3>1. HcEntriesOf(d)' = HcEntriesOf(d)
      BY <2>1 DEF HcEntriesOf
    <3>2. CASE d = c
      BY <1>3, <1>4, <1>5, <3>1, <3>2 DEF HcRecorded
    <3>3. CASE d # c
      <4>1. hcStage'[d] = hcStage[d] /\ hcMarks'[d] = hcMarks[d]
        BY <1>0, <1>2, <3>3
      <4> QED  BY <1>3, <2>1, <3>1, <4>1 DEF HcInv, HcAllRecorded, HcRecorded
    <3> QED  BY <3>2, <3>3
  <2> QED  BY <1>1, <2>2, <2>3 DEF HcInv, HcAllRecorded
<1>6. CASE HcCall(c).profiled
  <2> PICK e : /\ e = [call |-> c, outcome |-> outcome, body |-> body, phases |-> hcSlot[c]]
               /\ hcLog' = Append(hcLog, e)
    BY <1>6 DEF HcCapture
  <2>1. HcShaped /\ hcLog' = Append(hcLog, e)
    BY DEF HcInv
  <2>2. e.call = c /\ e.outcome = outcome /\ e.phases = hcMarks[c]
    BY DEF HcInv, HcShaped
  <2>3. HcShaped'
    BY <1>0, HcGrown DEF HcInv, HcShaped, HcStages
  <2>4. ASSUME NEW d \in HcCalls PROVE HcRecorded(d)'
    <3>2. CASE d = c
      <4>1. /\ HcEntriesOf(c)' = {Len(hcLog) + 1} /\ hcLog'[Len(hcLog) + 1] = e
        <5>1. HcEntriesOf(c)' = {} \cup {Len(hcLog) + 1}
          BY <1>4, <2>2, <2>1, HcEntered
        <5> QED  BY <2>1, <5>1, HcGrown
      <4>2. hcMarks'[c] = hcMarks[c]
        BY <1>0
      <4>3. \E i \in HcEntriesOf(c)' : /\ HcEntriesOf(c)' = {i} /\ hcLog'[i].outcome = hcStage'[c]
                                       /\ hcLog'[i].phases \subseteq hcMarks'[c]
        BY <1>2, <2>2, <4>1, <4>2
      <4>4. hcStage'[c] \in {"answered", "failed"} /\ HcCall(c)'.profiled
        BY <1>2, <1>3, <1>6
      <4> QED  BY <3>2, <4>3, <4>4 DEF HcRecorded
    <3>3. CASE d # c
      <4>1. hcStage'[d] = hcStage[d] /\ hcMarks'[d] = hcMarks[d]
        BY <1>0, <1>2, <3>3
      <4>2. d # e.call
        BY <2>2, <3>3
      <4>3. /\ HcEntriesOf(d)' = HcEntriesOf(d)
            /\ \A i \in HcEntriesOf(d) : hcLog'[i] = hcLog[i]
        BY <2>1, <4>2, HcEntered
      <4> QED  BY <1>3, <4>1, <4>3 DEF HcInv, HcAllRecorded, HcRecorded
    <3> QED  BY <3>2, <3>3
  <2> QED  BY <1>1, <2>3, <2>4 DEF HcInv, HcAllRecorded
<1> QED  BY <1>3, <1>5, <1>6

(* A step that records nothing and settles no call.                        *)
LEMMA HcQuietly ==
    ASSUME HcInv, hcLog' = hcLog, hcScenario' = hcScenario, hcStage' \in [HcCalls -> HcStages],
           \A c \in HcCalls : /\ hcMarks[c] \subseteq hcMarks'[c]
                              /\ hcStage'[c] = hcStage[c]
                                 \/ {hcStage[c], hcStage'[c]} \cap {"answered", "failed"} = {}
    PROVE  HcAllRecorded'
<1> SUFFICES ASSUME NEW c \in HcCalls PROVE HcRecorded(c)'
  BY DEF HcAllRecorded
<1>1. HcEntriesOf(c)' = HcEntriesOf(c) /\ HcCall(c)' = HcCall(c)
  BY DEF HcEntriesOf, HcCall
<1>2. HcRecorded(c)
  BY DEF HcInv, HcAllRecorded
<1>3. hcStage'[c] \in {"answered", "failed"} <=> hcStage[c] \in {"answered", "failed"}
  OBVIOUS
<1>4. hcStage[c] \in {"answered", "failed"} => hcStage'[c] = hcStage[c]
  OBVIOUS
<1> QED  BY <1>1, <1>2, <1>3, <1>4 DEF HcRecorded

LEMMA HcMarked ==
    ASSUME HcInv, NEW c \in HcCalls, NEW marks \in SUBSET HcMarkNames, hcMarks[c] \subseteq marks,
           PublishMarks(c, marks), UNCHANGED <<hcScenario, hcStage, hcLog>>
    PROVE  /\ hcMarks' \in [HcCalls -> SUBSET HcMarkNames] /\ hcSlot' = hcMarks'
           /\ hcMarks'[c] = marks /\ \A d \in HcCalls \ {c} : hcMarks'[d] = hcMarks[d]
           /\ HcAllRecorded'
<1>1. /\ hcMarks' \in [HcCalls -> SUBSET HcMarkNames] /\ hcSlot' = hcMarks'
      /\ hcMarks'[c] = marks /\ \A d \in HcCalls \ {c} : hcMarks'[d] = hcMarks[d]
  BY DEF HcInv, HcShaped, PublishMarks
<1>2. \A d \in HcCalls : hcMarks[d] \subseteq hcMarks'[d]
  BY <1>1
<1>3. hcStage' \in [HcCalls -> HcStages]
  BY DEF HcInv, HcShaped
<1> QED  BY <1>1, <1>2, <1>3, HcQuietly

LEMMA HcSendsHeaders ==
    ASSUME HcInv, NEW c \in HcCalls, NEW s \in HcSockets, SendHeaders(c, s)
    PROVE  HcInv'
<1> PICK marks : marks = hcMarks[c] \cup {"sendHeaders"}
                         \cup (IF s \in connectedSockets THEN {"connect"} ELSE {})
  OBVIOUS
<1>0. /\ PublishMarks(c, marks) /\ hcSocketOf[c] = HcNone
      /\ hcSocketOf' = [hcSocketOf EXCEPT ![c] = s]
      /\ connectedSockets' = connectedSockets \ {s}
      /\ UNCHANGED <<hcScenario, hcStage, hcSent, hcLog, pendingConnects>>
  BY DEF SendHeaders
<1>1. marks \in SUBSET HcMarkNames /\ hcMarks[c] \subseteq marks
  BY DEF HcInv, HcShaped, HcMarkNames
<1>2. /\ hcMarks' \in [HcCalls -> SUBSET HcMarkNames] /\ hcSlot' = hcMarks'
      /\ hcMarks'[c] = marks /\ \A d \in HcCalls \ {c} : hcMarks'[d] = hcMarks[d]
      /\ HcAllRecorded'
  BY <1>0, <1>1, HcMarked
<1>3. /\ hcSocketOf' \in [HcCalls -> HcSockets \cup {HcNone}]
      /\ hcSocketOf'[c] = s /\ \A d \in HcCalls \ {c} : hcSocketOf'[d] = hcSocketOf[d]
  BY <1>0 DEF HcInv, HcShaped
<1>4. HcShaped'
  BY <1>0, <1>2, <1>3 DEF HcInv, HcShaped
<1>5. "connect" \notin hcMarks[c] /\ s # HcNone
  BY <1>0, HcAssumption DEF HcInv, Handshakes
<1>6. "connect" \in marks <=> s \in connectedSockets
  BY <1>5
<1>7. Handshakes'
  <2>1. \A d \in HcCalls : "connect" \in hcMarks'[d] => hcSocketOf'[d] # HcNone
    BY <1>2, <1>3, <1>5 DEF HcInv, Handshakes
  <2>2. \A t \in connectedSockets' : \A d \in HcCalls : hcSocketOf'[d] # t
    BY <1>0, <1>3 DEF HcInv, Handshakes
  <2>3. ASSUME NEW d \in HcCalls, NEW e \in HcCalls, "connect" \in hcMarks'[d],
               "connect" \in hcMarks'[e], hcSocketOf'[d] = hcSocketOf'[e]
        PROVE  d = e
    BY <1>2, <1>3, <1>6, <2>3 DEF HcInv, Handshakes
  <2> QED  BY <2>1, <2>2, <2>3 DEF Handshakes
<1> QED  BY <1>2, <1>4, <1>7 DEF HcInv

LEMMA HcMarks ==
    ASSUME HcInv, NEW c \in HcCalls, NEW mark \in {"bodySent", "headers", "end"}, Mark(c, mark)
    PROVE  HcInv'
<1> PICK marks : marks = hcMarks[c] \cup {mark}
  OBVIOUS
<1>0. /\ PublishMarks(c, marks)
      /\ UNCHANGED <<hcScenario, hcStage, hcSent, hcLog, pendingConnects, connectedSockets, hcSocketOf>>
  BY DEF Mark
<1>1. marks \in SUBSET HcMarkNames /\ hcMarks[c] \subseteq marks
  BY DEF HcInv, HcShaped, HcMarkNames
<1>2. /\ hcMarks' \in [HcCalls -> SUBSET HcMarkNames] /\ hcSlot' = hcMarks'
      /\ hcMarks'[c] = marks /\ \A d \in HcCalls \ {c} : hcMarks'[d] = hcMarks[d]
      /\ HcAllRecorded'
  BY <1>0, <1>1, HcMarked
<1>3. HcShaped'
  BY <1>0, <1>2 DEF HcInv, HcShaped
<1>4. \A d \in HcCalls : "connect" \in hcMarks'[d] <=> "connect" \in hcMarks[d]
  BY <1>2
<1>5. Handshakes'
  BY <1>0, <1>4 DEF HcInv, Handshakes
<1> QED  BY <1>2, <1>3, <1>5 DEF HcInv

LEMMA HcPending ==
    ASSUME HcInv, BeforeConnect \/ ConnectError \/ \E s \in HcSockets : Connected(s)
    PROVE  HcInv'
<1>0. /\ UNCHANGED <<hcScenario, hcStage, hcSent, hcMarks, hcSlot, hcLog, hcSocketOf>>
      /\ hcStage' \in [HcCalls -> HcStages]
  BY DEF BeforeConnect, ConnectError, Connected, HcInv, HcShaped
<1>1. HcAllRecorded'
  BY <1>0, HcQuietly
<1>2. pendingConnects \in Seq({"started"}) /\ Len(pendingConnects) \in Nat
  BY LenProperties DEF HcInv, HcShaped
<1>3. pendingConnects # <<>> => /\ Tail(pendingConnects) \in Seq({"started"})
                                /\ Len(Tail(pendingConnects)) = Len(pendingConnects) - 1
  BY <1>2, HeadTailProperties
<1>4. pendingConnects' \in Seq({"started"}) /\ Len(pendingConnects') <= HcMaxPending
  <2>1. CASE BeforeConnect
    <3> PICK kept : /\ kept = IF Len(pendingConnects) >= HcMaxPending
                              THEN Tail(pendingConnects) ELSE pendingConnects
                    /\ pendingConnects' = Append(kept, "started")
      BY <2>1 DEF BeforeConnect
    <3>1. Len(pendingConnects) <= HcMaxPending /\ HcMaxPending \in Nat \ {0}
      BY HcAssumption DEF HcInv, HcShaped
    <3>2. Len(pendingConnects) >= HcMaxPending => pendingConnects # <<>>
      BY <1>2, <3>1, EmptySeq
    <3>3. kept \in Seq({"started"}) /\ Len(kept) < HcMaxPending /\ Len(kept) \in Nat
      BY <1>2, <1>3, <3>1, <3>2, LenProperties
    <3> QED  BY <3>1, <3>3, AppendProperties
  <2>2. CASE ConnectError \/ \E s \in HcSockets : Connected(s)
    <3>1. pendingConnects # <<>> /\ pendingConnects' = Tail(pendingConnects)
      BY <2>2 DEF ConnectError, Connected
    <3>2. Len(pendingConnects) <= HcMaxPending /\ HcMaxPending \in Nat
      BY HcAssumption DEF HcInv, HcShaped
    <3> QED  BY <1>2, <1>3, <3>1, <3>2
  <2> QED  BY <2>1, <2>2
<1>5. /\ connectedSockets' \subseteq HcSockets
      /\ \A s \in connectedSockets' : \A c \in HcCalls : hcSocketOf'[c] # s
  BY <1>0 DEF BeforeConnect, ConnectError, Connected, HcInv, HcShaped, Handshakes
<1>6. HcShaped'
  BY <1>0, <1>4, <1>5 DEF HcInv, HcShaped
<1>7. Handshakes'
  BY <1>0, <1>5 DEF HcInv, Handshakes
<1> QED  BY <1>1, <1>6, <1>7 DEF HcInv

(* A call goes out, or waits for the body of its answer.                   *)
LEMMA HcMoves ==
    ASSUME HcInv, NEW c \in HcCalls, NEW stage \in {"sent", "reading"},
           hcStage[c] \in {"new", "sent"}, hcStage' = [hcStage EXCEPT ![c] = stage],
           UNCHANGED <<hcScenario, hcMarks, hcSlot, hcLog, pendingConnects, connectedSockets, hcSocketOf>>
    PROVE  HcInv'
<1>0. UNCHANGED <<hcScenario, hcMarks, hcSlot, hcLog, pendingConnects, connectedSockets, hcSocketOf>>
  OBVIOUS
<1>1. /\ hcStage' \in [HcCalls -> HcStages] /\ hcStage'[c] = stage
      /\ \A d \in HcCalls \ {c} : hcStage'[d] = hcStage[d]
  BY DEF HcInv, HcShaped, HcStages
<1>2. HcAllRecorded'
  BY <1>0, <1>1, HcQuietly
<1>3. HcShaped'
  BY <1>0, <1>1 DEF HcInv, HcShaped
<1>4. Handshakes'
  BY <1>0 DEF HcInv, Handshakes
<1> QED  BY <1>2, <1>3, <1>4 DEF HcInv

LEMMA HcStep == ASSUME HcInv, [HcNext]_hcVars PROVE HcInv'
<1>1. CASE UNCHANGED hcVars
  <2>0. UNCHANGED <<hcScenario, hcStage, hcMarks, hcSlot, hcLog, pendingConnects, connectedSockets, hcSocketOf>>
    BY <1>1 DEF hcVars
  <2>1. HcShaped'
    BY <2>0 DEF HcInv, HcShaped
  <2>2. HcAllRecorded'
    BY <2>0, <2>1, HcQuietly DEF HcShaped
  <2>3. Handshakes'
    BY <2>0 DEF HcInv, Handshakes
  <2> QED  BY <2>1, <2>2, <2>3 DEF HcInv
<1>2. ASSUME NEW c \in HcCalls, Send(c) PROVE HcInv'
  BY <1>2, HcMoves DEF Send
<1>3. ASSUME NEW c \in HcCalls, Answered(c) PROVE HcInv'
  <2>1. CASE HcIsFetch(c) /\ hcScenario.captureBody
    BY <1>3, <2>1, HcMoves DEF Answered, CanAnswer
  <2>2. CASE ~(HcIsFetch(c) /\ hcScenario.captureBody)
    BY <1>3, <2>2, HcSettles DEF Answered, CanAnswer
  <2> QED  BY <2>1, <2>2
<1>4. ASSUME NEW c \in HcCalls, Refused(c) PROVE HcInv'
  BY <1>4, HcSettles DEF Refused
<1>5. ASSUME NEW c \in HcCalls, NEW s \in HcSockets, SendHeaders(c, s) PROVE HcInv'
  BY <1>5, HcSendsHeaders
<1>6. ASSUME NEW c \in HcCalls, NEW mark \in {"bodySent", "headers", "end"}, Mark(c, mark) PROVE HcInv'
  BY <1>6, HcMarks
<1>7. ASSUME NEW c \in HcCalls, NEW body \in BOOLEAN, BodyRead(c, body) PROVE HcInv'
  BY <1>7, HcSettles DEF BodyRead
<1>8. CASE BeforeConnect \/ ConnectError \/ \E s \in HcSockets : Connected(s)
  BY <1>8, HcPending
<1> QED  BY <1>1, <1>2, <1>3, <1>4, <1>5, <1>6, <1>7, <1>8 DEF HcNext

-----------------------------------------------------------------------------
(* DriverQueries: whatever was wrapped was wrapped once, so every call goes*)
(* through one wrapper, which records it when it settles.                  *)
DqStages == {"new", "open", "answered", "closed"}

DqShaped ==
    /\ dqKind \in [DqCalls -> DqKinds] /\ dqProfiled \in [DqCalls -> BOOLEAN]
    /\ dqMemoised \in BOOLEAN
    /\ dqApp \in DqApps \cup {DqNone} /\ dqNextApp \in Nat
    /\ dqLayers \in [DqTargets -> Seq(DqApps)] /\ dqMarked \in [DqTargets -> BOOLEAN]
    /\ dqCall \in [DqCalls -> [stage : DqStages, layers : Nat, answer : DqAnswers \cup {DqNone},
                               debug : BOOLEAN]]
    /\ IsSeq(dqEntries) /\ dqForwarded \subseteq DqCalls
    /\ dqDebug \in BOOLEAN

(* What carries the mark has one wrapper, what does not has none; the mark *)
(* of the driver's factory and of the logger outlives the application that *)
(* put it there, the store's does not.                                     *)
LayeredOnce ==
    /\ \A t \in DqTargets : Len(dqLayers[t]) = IF dqMarked[t] THEN 1 ELSE 0
    /\ dqApp # DqNone => /\ dqMarked["store"] /\ dqMarked["factory"] /\ dqMarked["logger"]
                         /\ dqLayers["store"] = <<dqApp>>
    /\ dqApp = DqNone => ~dqMarked["store"]

DqMine(c) == {i \in DOMAIN dqEntries : dqEntries[i].call = c}
DqSettled(c) == dqCall[c].stage \in {"answered", "closed"}

CallOK(c) ==
    /\ dqCall[c].stage # "new" => dqCall[c].layers = 1
    /\ DqSettled(c) <=> dqCall[c].answer # DqNone
    /\ ~DqSettled(c) => ~dqCall[c].debug
    /\ IF dqProfiled[c] /\ DqSettled(c)
       THEN \E i \in DqMine(c) : /\ DqMine(c) = {i}
                                 /\ dqEntries[i].error = (dqCall[c].answer = "error")
       ELSE DqMine(c) = {}
    /\ c \in dqForwarded <=> dqKind[c] = "logQuery" /\ dqCall[c].debug
CallsOK == \A c \in DqCalls : CallOK(c)

DqInv == DqShaped /\ LayeredOnce /\ CallsOK

LEMMA DqEnough == ASSUME DqInv PROVE DriverCallRecordedOnce /\ DqTypeOK
<1>1. ASSUME NEW c \in DqCalls
      PROVE  /\ Cardinality(DqMine(c)) = IF dqProfiled[c] /\ dqCall[c].answer # DqNone THEN 1 ELSE 0
             /\ \A i \in DqMine(c) : dqEntries[i].error = (dqCall[c].answer = "error")
  <2>1. CallOK(c)
    BY DEF DqInv, CallsOK
  <2>2. CASE dqProfiled[c] /\ DqSettled(c)
    <3>1. PICK i \in DqMine(c) : /\ DqMine(c) = {i}
                                 /\ dqEntries[i].error = (dqCall[c].answer = "error")
      BY <2>1, <2>2 DEF CallOK
    <3>2. Cardinality(DqMine(c)) = 1
      BY <3>1, FS_Singleton
    <3> QED  BY <2>1, <2>2, <3>1, <3>2 DEF CallOK
  <2>3. CASE ~(dqProfiled[c] /\ DqSettled(c))
    <3>1. DqMine(c) = {}
      BY <2>1, <2>3 DEF CallOK
    <3>2. Cardinality(DqMine(c)) = 0
      BY <3>1, FS_EmptySet
    <3> QED  BY <2>1, <2>3, <3>1, <3>2 DEF CallOK
  <2> QED  BY <2>2, <2>3
<1>2. dqForwarded = {c \in DqCalls : dqKind[c] = "logQuery" /\ dqCall[c].debug}
  BY DEF DqInv, DqShaped, CallsOK, CallOK
<1>3. DriverCallRecordedOnce
  BY <1>1, <1>2 DEF DriverCallRecordedOnce, DqMine
<1>4. DqTypeOK
  <2>1. ASSUME NEW t \in DqTargets, NEW i \in DOMAIN dqLayers[t] PROVE dqLayers[t][i] \in DqApps
    <3>1. dqLayers[t] \in Seq(DqApps)
      BY DEF DqInv, DqShaped
    <3>2. i \in 1..Len(dqLayers[t])
      BY <3>1, <2>1, LenProperties
    <3> QED  BY <3>1, <3>2, ElementOfSeq
  <2> QED  BY <2>1 DEF DqTypeOK, DqInv, DqShaped, DqStages
<1> QED  BY <1>3, <1>4

LEMMA DqInitially == DqInit => DqInv
<1> SUFFICES ASSUME NEW s \in DqScenarios, DqStart(s) PROVE DqInv
  BY DEF DqInit
<1> USE DEF DqStart
<1>1. <<>> \in Seq(DqApps) /\ Len(<<>>) = 0 /\ IsSeq(<<>>) /\ DOMAIN <<>> = {}
  <2>1. <<>> \in Seq(DqApps) /\ Len(<<>>) = 0
    BY EmptySeq
  <2>2. IsSeq(<<>>)
    BY <2>1 DEF IsSeq
  <2> QED  BY <2>1, <2>2, SeqFacts
<1>2. DqShaped
  BY <1>1, DqAssumption DEF DqShaped, DqStages
<1>3. LayeredOnce
  BY <1>1 DEF LayeredOnce, DqTargets
<1>4. \A c \in DqCalls : DqMine(c) = {}
  BY <1>1 DEF DqMine
<1>5. CallsOK
  BY <1>4 DEF CallsOK, CallOK, DqSettled
<1> QED  BY <1>2, <1>3, <1>5 DEF DqInv

(* Nothing of a call changes while nothing is recorded and it stays put.   *)
LEMMA DqCallStays ==
    ASSUME NEW c, CallOK(c), UNCHANGED <<dqKind, dqProfiled>>, dqCall'[c] = dqCall[c],
           DqMine(c)' = DqMine(c), \A i \in DqMine(c) : dqEntries'[i] = dqEntries[i],
           c \in dqForwarded' <=> c \in dqForwarded
    PROVE  CallOK(c)'
<1>1. DqSettled(c)' <=> DqSettled(c)
  BY DEF DqSettled
<1> QED  BY <1>1 DEF CallOK

LEMMA DqCallsStay ==
    ASSUME DqInv, UNCHANGED <<dqKind, dqProfiled, dqCall, dqEntries, dqForwarded>>
    PROVE  CallsOK'
<1> SUFFICES ASSUME NEW c \in DqCalls PROVE CallOK(c)'
  BY DEF CallsOK
<1>1. DqMine(c)' = DqMine(c)
  BY DEF DqMine
<1> QED  BY <1>1, DqCallStays DEF DqInv, CallsOK

LEMMA OneLayer ==
    ASSUME DqInv, NEW t \in DqTargets
    PROVE  /\ Len(dqLayers[t]) \in Nat /\ dqLayers[t] \in Seq(DqApps)
           /\ (dqLayers[t] = <<>>) <=> ~dqMarked[t]
           /\ dqMarked[t] => Len(dqLayers[t]) = 1 /\ dqLayers[t][1] \in DqApps
<1>1. dqLayers[t] \in Seq(DqApps)
  BY DEF DqInv, DqShaped
<1>2. Len(dqLayers[t]) \in Nat /\ (dqLayers[t] = <<>> <=> Len(dqLayers[t]) = 0)
  BY <1>1, LenProperties, EmptySeq
<1>3. Len(dqLayers[t]) = IF dqMarked[t] THEN 1 ELSE 0
  BY DEF DqInv, LayeredOnce
<1> QED  BY <1>1, <1>2, <1>3, ElementOfSeq

LEMMA Appended ==
    ASSUME NEW s \in Seq(DqApps), s = <<>>, NEW a \in DqApps
    PROVE  Append(s, a) \in Seq(DqApps) /\ Len(Append(s, a)) = 1 /\ Append(s, a) = <<a>>
BY AppendProperties, EmptySeq

LEMMA DqBoots == ASSUME DqInv, DqModuleInit PROVE DqInv'
<1> PICK wrap : /\ wrap = Unmarked({"store", "factory", "logger"})
                /\ dqLayers' = [t \in DqTargets |-> IF t \in wrap THEN Append(dqLayers[t], dqNextApp)
                                                    ELSE dqLayers[t]]
                /\ dqMarked' = [t \in DqTargets |-> dqMarked[t] \/ t \in wrap]
  BY DEF DqModuleInit
<1>0. /\ dqApp = DqNone /\ dqNextApp \in DqApps /\ dqApp' = dqNextApp /\ dqNextApp' = dqNextApp + 1
      /\ UNCHANGED <<dqKind, dqProfiled, dqMemoised, dqDebug, dqCall, dqEntries, dqForwarded>>
  BY DEF DqModuleInit
<1>1. \A t \in DqTargets : t \in wrap <=> t # "runner" /\ ~dqMarked[t]
  BY DEF Unmarked, DqTargets
<1>2. ASSUME NEW t \in DqTargets
      PROVE  /\ dqLayers'[t] \in Seq(DqApps) /\ dqMarked'[t] \in BOOLEAN
             /\ Len(dqLayers'[t]) = IF dqMarked'[t] THEN 1 ELSE 0
             /\ t \in wrap => dqLayers'[t] = <<dqNextApp>>
             /\ t # "runner" => dqMarked'[t]
  <2>1. dqMarked[t] \in BOOLEAN
    BY DEF DqInv, DqShaped
  <2>2. CASE t \in wrap
    <3>1. dqLayers[t] = <<>> /\ dqLayers[t] \in Seq(DqApps)
      BY <1>1, <2>2, OneLayer
    <3>2. dqLayers'[t] = Append(dqLayers[t], dqNextApp) /\ dqMarked'[t] = TRUE
      BY <2>2
    <3> QED  BY <1>0, <3>1, <3>2, Appended
  <2>3. CASE t \notin wrap
    <3>1. dqLayers'[t] = dqLayers[t] /\ dqMarked'[t] = (dqMarked[t] \/ FALSE)
      BY <2>3
    <3>2. dqMarked'[t] = dqMarked[t]
      BY <2>1, <3>1
    <3>3. Len(dqLayers[t]) = IF dqMarked[t] THEN 1 ELSE 0
      BY DEF DqInv, LayeredOnce
    <3> QED  BY <1>1, <2>1, <2>3, <3>1, <3>2, <3>3, OneLayer
  <2> QED  BY <2>2, <2>3
<1>3. DqShaped'
  <2>1. dqNextApp \in Nat /\ dqNextApp + 1 \in Nat
    BY DEF DqInv, DqShaped
  <2>2. dqLayers' \in [DqTargets -> Seq(DqApps)] /\ dqMarked' \in [DqTargets -> BOOLEAN]
    BY <1>2
  <2> QED  BY <1>0, <2>1, <2>2 DEF DqInv, DqShaped
<1>4. LayeredOnce'
  <2>1. ~dqMarked["store"] /\ "store" \in wrap
    BY <1>0, <1>1 DEF DqInv, LayeredOnce, DqTargets
  <2>2. dqApp' # DqNone
    BY <1>0, DqAssumption
  <2> QED  BY <1>0, <1>2, <2>1, <2>2 DEF LayeredOnce, DqTargets
<1> QED  BY <1>0, <1>3, <1>4, DqCallsStay DEF DqInv

LEMMA DqCloses == ASSUME DqInv, DqModuleDestroy PROVE DqInv'
<1> PICK store, beneath :
        /\ store = dqLayers["store"]
        /\ beneath = {i \in DOMAIN store : \A j \in 1..i : store[j] # dqApp}
        /\ dqLayers' = [dqLayers EXCEPT !["store"] = SubSeq(store, 1, Cardinality(beneath))]
  BY DEF DqModuleDestroy
<1>0. /\ dqApp # DqNone /\ dqApp' = DqNone
      /\ dqMarked' = [dqMarked EXCEPT !["store"] = FALSE]
      /\ UNCHANGED <<dqKind, dqProfiled, dqMemoised, dqNextApp, dqDebug, dqCall, dqEntries, dqForwarded>>
  BY DEF DqModuleDestroy
<1>1. store = <<dqApp>> /\ dqMarked["store"] /\ dqApp \in DqApps
  BY <1>0 DEF DqInv, LayeredOnce, DqShaped
<1>2. beneath = {}
  <2>1. store[1] = dqApp /\ DOMAIN store = 1..1
    BY <1>1
  <2>2. \A i \in DOMAIN store : ~ \A j \in 1..i : store[j] # dqApp
    BY <2>1
  <2> QED  BY <2>2
<1>3. SubSeq(store, 1, Cardinality(beneath)) = <<>>
  <2>1. Cardinality(beneath) = 0
    BY <1>2, FS_EmptySet
  <2>2. SubSeq(store, 1, 0) = <<>>
    BY SubSeqEmpty, 0 < 1, 0 \in Int, 1 \in Int, Zenon
  <2> QED  BY <2>1, <2>2, Zenon
<1>4. dqLayers' = [dqLayers EXCEPT !["store"] = <<>>] /\ <<>> \in Seq(DqApps) /\ Len(<<>>) = 0
  BY <1>3, EmptySeq
<1>5. DqShaped'
  BY <1>0, <1>4 DEF DqInv, DqShaped, DqTargets
<1>6. LayeredOnce'
  <2>1. ASSUME NEW t \in DqTargets PROVE Len(dqLayers'[t]) = IF dqMarked'[t] THEN 1 ELSE 0
    <3>1. CASE t = "store"
      BY <1>0, <1>4, <3>1 DEF DqInv, DqShaped
    <3>2. CASE t # "store"
      <4>1. dqLayers'[t] = dqLayers[t] /\ dqMarked'[t] = dqMarked[t]
        BY <1>0, <1>4, <3>2 DEF DqInv, DqShaped
      <4> QED  BY <4>1 DEF DqInv, LayeredOnce
    <3> QED  BY <3>1, <3>2
  <2>2. ~dqMarked'["store"]
    BY <1>0 DEF DqInv, DqShaped, DqTargets
  <2> QED  BY <1>0, <2>1, <2>2 DEF LayeredOnce
<1> QED  BY <1>0, <1>5, <1>6, DqCallsStay DEF DqInv

(* The runner's wrappers once the patched factory handed it out: one.      *)
LEMMA DqRunner ==
    ASSUME DqInv, dqApp # DqNone
    PROVE  /\ RunnerLayers \in Seq(DqApps) /\ Len(RunnerLayers) = 1 /\ RunnerLayers # <<>>
<1>1. dqMarked["factory"] /\ "factory" \in DqTargets /\ "runner" \in DqTargets
  BY DEF DqInv, LayeredOnce, DqTargets
<1>2. dqLayers["factory"] # <<>> /\ dqLayers["factory"][1] \in DqApps
  BY <1>1, OneLayer
<1>3. dqMemoised \in BOOLEAN /\ dqMarked["runner"] \in BOOLEAN
  BY <1>1 DEF DqInv, DqShaped
<1>4. <<>> \in Seq(DqApps) /\ Len(<<>>) = 0
  BY EmptySeq
<1>5. CASE dqMemoised /\ dqMarked["runner"]
  <2>1. RunnerLayers = dqLayers["runner"]
    BY <1>5 DEF RunnerLayers
  <2> QED  BY <1>1, <1>4, <1>5, <2>1, OneLayer
<1>6. CASE ~(dqMemoised /\ dqMarked["runner"])
  <2>1. RunnerLayers = Append(<<>>, dqLayers["factory"][1])
    <3>1. dqMemoised => dqLayers["runner"] = <<>>
      BY <1>1, <1>6, OneLayer
    <3> QED  BY <1>2, <1>6, <3>1 DEF RunnerLayers
  <2> QED  BY <1>2, <1>4, <2>1, Appended
<1> QED  BY <1>3, <1>5, <1>6

LEMMA DqThroughOne ==
    ASSUME DqInv, dqApp # DqNone, NEW c \in DqCalls PROVE LayersOf(c) = 1
<1>1. Len(dqLayers["store"]) = 1 /\ Len(dqLayers["logger"]) = 1
  BY OneLayer DEF DqInv, LayeredOnce, DqTargets
<1> QED  BY <1>1, DqRunner DEF LayersOf

(* A call whose record is replaced: what the other calls left stays.       *)
LEMMA DqCallMoves ==
    ASSUME DqInv, NEW c \in DqCalls,
           NEW r \in [stage : DqStages, layers : Nat, answer : DqAnswers \cup {DqNone}, debug : BOOLEAN],
           dqCall' = [dqCall EXCEPT ![c] = r]
    PROVE  /\ dqCall' \in [DqCalls -> [stage : DqStages, layers : Nat, answer : DqAnswers \cup {DqNone},
                                       debug : BOOLEAN]]
           /\ dqCall'[c] = r /\ \A d \in DqCalls \ {c} : dqCall'[d] = dqCall[d]
BY DEF DqInv, DqShaped

LEMMA DqOpens == ASSUME DqInv, NEW c \in DqCalls, CallDriver(c) PROVE DqInv'
<1> PICK q : q = dqCall[c]
  OBVIOUS
<1>1. q \in [stage : DqStages, layers : Nat, answer : DqAnswers \cup {DqNone}, debug : BOOLEAN]
  BY DEF DqInv, DqShaped
<1>2. dqApp # DqNone /\ LayersOf(c) = 1
  BY DqThroughOne DEF CallDriver
<1> PICK r : r = [q EXCEPT !.stage = "open", !.layers = 1]
  OBVIOUS
<1>0. /\ dqApp # DqNone /\ q.stage = "new" /\ dqCall' = [dqCall EXCEPT ![c] = r]
      /\ UNCHANGED <<dqKind, dqProfiled, dqMemoised, dqApp, dqNextApp, dqDebug, dqEntries, dqForwarded>>
  BY <1>2 DEF CallDriver
<1>3. /\ r \in [stage : DqStages, layers : Nat, answer : DqAnswers \cup {DqNone}, debug : BOOLEAN]
      /\ r.stage = "open" /\ r.layers = 1 /\ r.answer = q.answer /\ r.debug = q.debug
  BY <1>1 DEF DqStages
<1>4. /\ dqCall' \in [DqCalls -> [stage : DqStages, layers : Nat, answer : DqAnswers \cup {DqNone},
                                  debug : BOOLEAN]]
      /\ dqCall'[c] = r /\ \A d \in DqCalls \ {c} : dqCall'[d] = dqCall[d]
  BY <1>0, <1>3, DqCallMoves
<1>5. /\ dqLayers' \in [DqTargets -> Seq(DqApps)] /\ dqMarked' \in [DqTargets -> BOOLEAN]
      /\ LayeredOnce'
  <2>1. CASE dqKind[c] \in {"query", "stream"} /\ dqMemoised
    <3> PICK layers : layers = RunnerLayers
      OBVIOUS
    <3>1. /\ dqLayers' = [dqLayers EXCEPT !["runner"] = layers]
          /\ dqMarked' = [dqMarked EXCEPT !["runner"] = @ \/ layers # <<>>]
      BY <2>1 DEF CallDriver
    <3>2. layers \in Seq(DqApps) /\ Len(layers) = 1 /\ layers # <<>>
      BY <1>0, DqRunner
    <3>3. dqMarked' = [dqMarked EXCEPT !["runner"] = TRUE]
      BY <3>1, <3>2
    <3>4. dqLayers \in [DqTargets -> Seq(DqApps)] /\ dqMarked \in [DqTargets -> BOOLEAN]
      BY DEF DqInv, DqShaped
    <3>5. dqLayers' \in [DqTargets -> Seq(DqApps)] /\ dqMarked' \in [DqTargets -> BOOLEAN]
      BY <3>1, <3>2, <3>3, <3>4
    <3>6. /\ dqLayers'["runner"] = layers /\ dqMarked'["runner"]
          /\ \A t \in DqTargets \ {"runner"} : dqLayers'[t] = dqLayers[t] /\ dqMarked'[t] = dqMarked[t]
      BY <3>1, <3>3, <3>4 DEF DqTargets
    <3>7. LayeredOnce'
      <4>1. ASSUME NEW t \in DqTargets PROVE Len(dqLayers'[t]) = IF dqMarked'[t] THEN 1 ELSE 0
        BY <3>2, <3>6 DEF DqInv, LayeredOnce
      <4> QED  BY <1>0, <3>6, <4>1 DEF DqInv, LayeredOnce, DqTargets
    <3> QED  BY <3>5, <3>7
  <2>2. CASE ~(dqKind[c] \in {"query", "stream"} /\ dqMemoised)
    <3>1. UNCHANGED <<dqLayers, dqMarked>>
      BY <2>2 DEF CallDriver
    <3> QED  BY <1>0, <3>1 DEF DqInv, DqShaped, LayeredOnce
  <2> QED  BY <2>1, <2>2
<1>6. DqShaped'
  BY <1>0, <1>4, <1>5 DEF DqInv, DqShaped
<1>7. ASSUME NEW d \in DqCalls PROVE CallOK(d)'
  <2>1. DqMine(d)' = DqMine(d) /\ CallOK(d)
    BY <1>0 DEF DqMine, DqInv, CallsOK
  <2>2. CASE d = c
    <3>1. ~DqSettled(c) /\ ~DqSettled(c)'
      BY <1>0, <1>3, <1>4 DEF DqSettled
    <3> QED  BY <1>0, <1>3, <1>4, <2>1, <2>2, <3>1 DEF CallOK
  <2>3. CASE d # c
    BY <1>0, <1>4, <2>1, <2>3, DqCallStays
  <2> QED  BY <2>2, <2>3
<1> QED  BY <1>5, <1>6, <1>7 DEF DqInv, CallsOK

(* An open call settles: its one wrapper appends its one entry.            *)
LEMMA DqRecords ==
    ASSUME DqInv, NEW c \in DqCalls, dqCall[c].stage = "open", NEW answer \in DqAnswers,
           RecordCall(c, answer)
    PROVE  /\ IsSeq(dqEntries') /\ \A d \in DqCalls \ {c} : DqMine(d)' = DqMine(d)
           /\ \A i \in DOMAIN dqEntries : dqEntries'[i] = dqEntries[i]
           /\ IF dqProfiled[c]
              THEN \E i \in DqMine(c)' : /\ DqMine(c)' = {i}
                                         /\ dqEntries'[i].error = (answer = "error")
              ELSE DqMine(c)' = {}
<1>1. CallOK(c) /\ dqCall[c].layers = 1 /\ DqMine(c) = {}
  BY DEF DqInv, CallsOK, CallOK, DqSettled
<1>2. CASE ~dqProfiled[c]
  <2>1. dqEntries' = dqEntries
    BY <1>2 DEF RecordCall
  <2>2. \A d : DqMine(d)' = DqMine(d)
    BY <2>1 DEF DqMine
  <2> QED  BY <1>1, <1>2, <2>1, <2>2 DEF DqInv, DqShaped
<1>3. CASE dqProfiled[c]
  <2> PICK e : e = DriverEntry(c, answer)
    OBVIOUS
  <2>1. e.call = c /\ e.error = (answer = "error")
    BY DEF DriverEntry
  <2>2. dqEntries' = dqEntries \o [i \in 1..1 |-> e]
    BY <1>1, <1>3 DEF RecordCall
  <2>3. [i \in 1..1 |-> e] = <<e>>
    OBVIOUS
  <2>4. IsSeq(dqEntries)
    BY DEF DqInv, DqShaped
  <2>5. dqEntries' = Append(dqEntries, e)
    <3>1. PICK S : dqEntries \in Seq(S)
      BY <2>4 DEF IsSeq
    <3>2. dqEntries \in Seq(S \cup {e})
      BY <3>1, SeqMonotonic
    <3> QED  BY <2>2, <2>3, <3>2, AppendIsConcat
  <2>6. /\ IsSeq(dqEntries') /\ dqEntries'[Len(dqEntries) + 1] = e
        /\ DOMAIN dqEntries' = DOMAIN dqEntries \cup {Len(dqEntries) + 1}
        /\ \A i \in DOMAIN dqEntries : dqEntries'[i] = dqEntries[i]
    <3>1. /\ IsSeq(dqEntries') /\ Len(dqEntries') = Len(dqEntries) + 1
          /\ Len(dqEntries) \in Nat /\ DOMAIN dqEntries = 1..Len(dqEntries)
          /\ DOMAIN dqEntries' = 1..Len(dqEntries')
          /\ \A i \in 1..Len(dqEntries) : dqEntries'[i] = dqEntries[i]
          /\ dqEntries'[Len(dqEntries) + 1] = e
      BY <2>4, <2>5, AppendFacts, SeqFacts
    <3> QED  BY <3>1
  <2>7. DqMine(c)' = DqMine(c) \cup {Len(dqEntries) + 1}
    BY <2>1, <2>6 DEF DqMine
  <2>8. ASSUME NEW d \in DqCalls \ {c} PROVE DqMine(d)' = DqMine(d)
    BY <2>1, <2>6 DEF DqMine
  <2> QED  BY <1>1, <1>3, <2>1, <2>6, <2>7, <2>8
<1>4. dqProfiled[c] \in BOOLEAN
  BY DEF DqInv, DqShaped
<1> QED  BY <1>2, <1>3, <1>4

LEMMA DqSettles ==
    ASSUME DqInv, NEW c \in DqCalls, dqCall[c].stage = "open", NEW answer \in DqAnswers,
           RecordCall(c, answer),
           NEW r \in [stage : {"answered", "closed"}, layers : {1}, answer : {answer}, debug : BOOLEAN],
           dqCall' = [dqCall EXCEPT ![c] = r],
           dqForwarded' = IF dqKind[c] = "logQuery" /\ r.debug THEN dqForwarded \cup {c} ELSE dqForwarded,
           UNCHANGED <<dqKind, dqProfiled, dqMemoised, dqApp, dqNextApp, dqLayers, dqMarked, dqDebug>>
    PROVE  DqInv'
<1>0. /\ UNCHANGED <<dqKind, dqProfiled, dqMemoised, dqApp, dqNextApp, dqLayers, dqMarked, dqDebug>>
      /\ answer # DqNone
  BY DqAssumption
<1>1. /\ r \in [stage : DqStages, layers : Nat, answer : DqAnswers \cup {DqNone}, debug : BOOLEAN]
      /\ r.stage \in {"answered", "closed"} /\ r.layers = 1 /\ r.answer = answer
  BY DEF DqStages
<1>2. /\ dqCall' \in [DqCalls -> [stage : DqStages, layers : Nat, answer : DqAnswers \cup {DqNone},
                                  debug : BOOLEAN]]
      /\ dqCall'[c] = r /\ \A d \in DqCalls \ {c} : dqCall'[d] = dqCall[d]
  BY <1>1, DqCallMoves
<1>3. /\ IsSeq(dqEntries') /\ \A d \in DqCalls \ {c} : DqMine(d)' = DqMine(d)
      /\ \A i \in DOMAIN dqEntries : dqEntries'[i] = dqEntries[i]
      /\ IF dqProfiled[c]
         THEN \E i \in DqMine(c)' : /\ DqMine(c)' = {i}
                                    /\ dqEntries'[i].error = (answer = "error")
         ELSE DqMine(c)' = {}
  BY DqRecords
<1>4. /\ dqForwarded' \subseteq DqCalls
      /\ \A d \in DqCalls \ {c} : d \in dqForwarded' <=> d \in dqForwarded
      /\ c \in dqForwarded' <=> dqKind[c] = "logQuery" /\ r.debug
  <2>1. c \notin dqForwarded /\ dqForwarded \subseteq DqCalls
    BY DEF DqInv, DqShaped, CallsOK, CallOK, DqSettled
  <2> QED  BY <2>1
<1>5. DqShaped'
  BY <1>0, <1>2, <1>3, <1>4 DEF DqInv, DqShaped
<1>6. LayeredOnce'
  BY <1>0 DEF DqInv, LayeredOnce
<1>7. CallOK(c)'
  <2>1. DqSettled(c)'
    BY <1>1, <1>2 DEF DqSettled
  <2>2. IF dqProfiled[c]'
        THEN \E i \in DqMine(c)' : /\ DqMine(c)' = {i}
                                   /\ dqEntries'[i].error = (dqCall'[c].answer = "error")
        ELSE DqMine(c)' = {}
    BY <1>0, <1>1, <1>2, <1>3
  <2> QED  BY <1>0, <1>1, <1>2, <1>4, <2>1, <2>2 DEF CallOK
<1>8. ASSUME NEW d \in DqCalls \ {c} PROVE CallOK(d)'
  <2>1. \A i \in DqMine(d) : dqEntries'[i] = dqEntries[i]
    BY <1>3 DEF DqMine
  <2> QED  BY <1>0, <1>2, <1>3, <1>4, <2>1, DqCallStays DEF DqInv, CallsOK
<1> QED  BY <1>5, <1>6, <1>7, <1>8 DEF DqInv, CallsOK

LEMMA DqAnswered ==
    ASSUME DqInv, NEW c \in DqCalls, NEW answer \in DqAnswers, DriverAnswers(c, answer)
    PROVE  DqInv'
<1> PICK q : q = dqCall[c]
  OBVIOUS
<1> PICK r : r = [q EXCEPT !.stage = "answered", !.answer = answer, !.debug = dqDebug]
  OBVIOUS
<1>0. /\ q.stage = "open" /\ dqCall' = [dqCall EXCEPT ![c] = r] /\ RecordCall(c, answer)
      /\ dqForwarded' = IF dqKind[c] = "logQuery" /\ dqDebug THEN dqForwarded \cup {c} ELSE dqForwarded
      /\ UNCHANGED <<dqKind, dqProfiled, dqMemoised, dqApp, dqNextApp, dqLayers, dqMarked, dqDebug>>
  BY DEF DriverAnswers, ForwardsQuery
<1>1. /\ q \in [stage : DqStages, layers : Nat, answer : DqAnswers \cup {DqNone}, debug : BOOLEAN]
      /\ dqDebug \in BOOLEAN
  BY DEF DqInv, DqShaped
<1>2. q.layers = 1
  BY <1>0 DEF DqInv, CallsOK, CallOK
<1>3. /\ r \in [stage : {"answered", "closed"}, layers : {1}, answer : {answer}, debug : BOOLEAN]
      /\ r.debug = dqDebug
  BY <1>1, <1>2
<1> QED  BY <1>0, <1>3, DqSettles

LEMMA DqStreams ==
    ASSUME DqInv, NEW c \in DqCalls, NEW event \in {"end", "error", "close"}, StreamEvent(c, event)
    PROVE  DqInv'
<1> PICK q : q = dqCall[c]
  OBVIOUS
<1> PICK answer \in DqAnswers : answer = IF event = "error" THEN "error" ELSE "value"
  BY DEF DqAnswers
<1> PICK r : r = [q EXCEPT !.stage = IF event = "close" THEN "closed" ELSE "answered",
                           !.answer = IF @ # DqNone THEN @ ELSE answer]
  OBVIOUS
<1>0. /\ dqKind[c] = "stream" /\ dqCall' = [dqCall EXCEPT ![c] = r]
      /\ q.stage \in IF event = "close" THEN {"open", "answered"} ELSE {"open"}
      /\ UNCHANGED <<dqKind, dqProfiled, dqMemoised, dqApp, dqNextApp, dqLayers, dqMarked, dqDebug,
                     dqForwarded>>
  BY DEF StreamEvent
<1>1. q \in [stage : DqStages, layers : Nat, answer : DqAnswers \cup {DqNone}, debug : BOOLEAN]
  BY DEF DqInv, DqShaped
<1>2. CallOK(c) /\ (q.stage # "new" => q.layers = 1)
  BY DEF DqInv, CallsOK, CallOK
<1>3. CASE q.stage = "open"
  <2>1. RecordCall(c, answer) /\ q.answer = DqNone
    BY <1>2, <1>3 DEF StreamEvent, CallOK, DqSettled
  <2>2. r \in [stage : {"answered", "closed"}, layers : {1}, answer : {answer}, debug : BOOLEAN]
    BY <1>1, <1>2, <1>3, <2>1
  <2>3. dqForwarded' = IF dqKind[c] = "logQuery" /\ r.debug THEN dqForwarded \cup {c} ELSE dqForwarded
    BY <1>0
  <2> QED  BY <1>0, <1>3, <2>1, <2>2, <2>3, DqSettles
<1>4. CASE q.stage = "answered"
  <2>1. dqEntries' = dqEntries /\ event = "close"
    BY <1>0, <1>4 DEF StreamEvent
  <2>2. q.answer # DqNone
    BY <1>2, <1>4 DEF CallOK, DqSettled
  <2>3. /\ r \in [stage : DqStages, layers : Nat, answer : DqAnswers \cup {DqNone}, debug : BOOLEAN]
        /\ r.stage = "closed" /\ r.layers = q.layers /\ r.answer = q.answer /\ r.debug = q.debug
    BY <1>1, <2>1, <2>2 DEF DqStages
  <2>4. /\ dqCall' \in [DqCalls -> [stage : DqStages, layers : Nat, answer : DqAnswers \cup {DqNone},
                                    debug : BOOLEAN]]
        /\ dqCall'[c] = r /\ \A d \in DqCalls \ {c} : dqCall'[d] = dqCall[d]
    BY <1>0, <2>3, DqCallMoves
  <2>5. DqShaped'
    BY <1>0, <2>1, <2>4 DEF DqInv, DqShaped
  <2>6. LayeredOnce'
    BY <1>0 DEF DqInv, LayeredOnce
  <2>7. ASSUME NEW d \in DqCalls PROVE CallOK(d)'
    <3>1. DqMine(d)' = DqMine(d) /\ CallOK(d)
      BY <2>1 DEF DqMine, DqInv, CallsOK
    <3>2. CASE d = c
      <4>1. DqSettled(c) /\ DqSettled(c)'
        BY <1>4, <2>3, <2>4 DEF DqSettled
      <4> QED  BY <1>0, <1>2, <1>4, <2>1, <2>3, <2>4, <3>1, <3>2, <4>1 DEF CallOK
    <3>3. CASE d # c
      BY <1>0, <2>1, <2>4, <3>1, <3>3, DqCallStays
    <3> QED  BY <3>2, <3>3
  <2> QED  BY <2>5, <2>6, <2>7 DEF DqInv, CallsOK
<1> QED  BY <1>0, <1>3, <1>4

LEMMA DqStep == ASSUME DqInv, [DqNext]_dqVars PROVE DqInv'
<1>1. CASE UNCHANGED dqVars
  <2>0. UNCHANGED <<dqKind, dqProfiled, dqMemoised, dqApp, dqNextApp, dqLayers, dqMarked, dqDebug, dqCall,
                    dqEntries, dqForwarded>>
    BY <1>1 DEF dqVars
  <2>1. DqShaped' /\ LayeredOnce'
    BY <2>0 DEF DqInv, DqShaped, LayeredOnce
  <2> QED  BY <2>0, <2>1, DqCallsStay DEF DqInv
<1>2. CASE ToggleDebug
  <2>0. /\ dqDebug' = ~dqDebug
        /\ UNCHANGED <<dqKind, dqProfiled, dqMemoised, dqApp, dqNextApp, dqLayers, dqMarked, dqCall,
                       dqEntries, dqForwarded>>
    BY <1>2 DEF ToggleDebug
  <2>1. DqShaped' /\ LayeredOnce'
    BY <2>0 DEF DqInv, DqShaped, LayeredOnce
  <2> QED  BY <2>0, <2>1, DqCallsStay DEF DqInv
<1>3. ASSUME NEW c \in DqCalls, NEW a \in DqAnswers, DriverAnswers(c, a) PROVE DqInv'
  BY <1>3, DqAnswered
<1> QED  BY <1>1, <1>2, <1>3, DqBoots, DqCloses, DqOpens, DqStreams DEF DqNext


-----------------------------------------------------------------------------
(* AiSetup: a registry that was configured with no load in flight has the  *)
(* one it started, or none.                                                *)
AsRegistries ==
    [app : AsApps \cup {AsNone}, source : BOOLEAN, ttl : Nat, loaded : AsApps \cup {AsNone},
     loadedAt : Nat, loading : BOOLEAN]
AsShaped ==
    /\ telemetry \in AsApps \cup {AsNone} /\ registered \subseteq AsApps
    /\ captureLevels \in [AsFields -> AsLevels]
    /\ pricing \in AsRegistries /\ pricing.loadedAt <= asNow /\ asNow \in Nat
    /\ asStarted \in Nat /\ asStarted <= AsMaxLoads
    /\ \A l \in loads : l.app \in AsApps

(* In flight for this registry, or none; then the guard is left by a source*)
(* that threw, if it is set.                                               *)
LoadsOf(p, ls) ==
    IF p.loading THEN \/ \E n : ls = {[app |-> p.app, n |-> n]}
                      \/ ls = {} /\ p.loaded = AsNone
    ELSE ls = {}
OneLoad == LoadsOf(pricing, loads) /\ pricing.loaded \in {pricing.app, AsNone}

AsPriced ==
    asBill # AsNone =>
      \E u \in AsUsages : asBill = [usage |-> u, cost |-> EstimateCost(u, AsPrice)]

AsInv == AsShaped /\ (asCleanConfig => OneLoad) /\ AsPriced

(* The first level that is given is a level.                               *)
LEMMA AsFirstOf ==
    ASSUME NEW n \in 1..4, NEW levels, DOMAIN levels = 1..n,
           \A i \in 1..n : levels[i] \in AsLevels \cup {AsNone}
    PROVE  FirstOf(levels) \in AsLevels
<1> DEFINE given == {i \in DOMAIN levels : levels[i] # AsNone}
<1>1. CASE given = {}
  BY <1>1 DEF FirstOf, AsLevels
<1>2. CASE given # {}
  <2>1. \E i \in given : \A j \in given : i <= j
    <3>1. \A i \in given : i \in {1, 2, 3, 4}
      OBVIOUS
    <3>2. CASE 1 \in given
      BY <3>1, <3>2
    <3>3. CASE 1 \notin given /\ 2 \in given
      BY <3>1, <3>3
    <3>4. CASE 1 \notin given /\ 2 \notin given /\ 3 \in given
      BY <3>1, <3>4
    <3>5. CASE 1 \notin given /\ 2 \notin given /\ 3 \notin given
      BY <1>2, <3>1, <3>5
    <3> QED  BY <3>2, <3>3, <3>4, <3>5
  <2>2. PICK i : i \in given /\ i = CHOOSE k \in given : \A j \in given : k <= j
    BY <2>1
  <2>3. FirstOf(levels) = levels[i]
    BY <1>2, <2>2 DEF FirstOf
  <2> QED  BY <2>2, <2>3
<1> QED  BY <1>1, <1>2

LEMMA AsLevelsResolved ==
    ASSUME NEW capture, \A k \in DOMAIN capture : capture[k] \in AsLevels
    PROVE  ResolveLevels(capture) \in [AsFields -> AsLevels]
<1>1. \A k : AsSetting(capture, k) \in AsLevels \cup {AsNone}
  BY DEF AsSetting
<1>2. FirstOf(<<AsSetting(capture, "runtimeContext"), "none">>) \in AsLevels
  <2>1. "none" \in AsLevels
    BY DEF AsLevels
  <2> QED  BY <1>1, <2>1, AsFirstOf
<1>3. ASSUME NEW f, NEW g
      PROVE  FirstOf(<<AsSetting(capture, f), AsSetting(capture, g), AsSetting(capture, "default"),
                       AsSetting(capture, "legacy")>>) \in AsLevels
  BY <1>1, AsFirstOf
<1> QED  BY <1>2, <1>3 DEF ResolveLevels, AsFields

(* Asking for a load, when one is due, leaves the registry's prices as they*)
(* were, or empties it when the source throws.                             *)
AsRefreshed(p, q) ==
    /\ q \in AsRegistries /\ q.app = p.app /\ q.loaded \in {p.loaded, AsNone}
    /\ q.loadedAt <= asNow
    /\ \A l \in loads' : l.app \in AsApps
    /\ asStarted' \in Nat /\ asStarted' <= AsMaxLoads
    /\ LoadsOf(p, loads) => LoadsOf(q, loads')

LEMMA AsRefreshes ==
    ASSUME AsShaped, NEW p \in AsRegistries, p.app \in AsApps, asStarted < AsMaxLoads,
           p.loadedAt <= asNow, RefreshIfStale(p)
    PROVE  AsRefreshed(p, pricing')
<1>0. AsMaxLoads \in Nat
  BY AsAssumption
<1>1. CASE NeedsLoad(p)
  <2>1. StartLoad(p) /\ ~p.loading
    BY <1>1 DEF RefreshIfStale, NeedsLoad
  <2>2. asStarted' \in Nat /\ asStarted' <= AsMaxLoads
    BY <1>0, <2>1 DEF AsShaped, StartLoad
  <2>3. CASE SourceAsked(p)
    <3>1. /\ pricing' \in AsRegistries /\ pricing'.app = p.app /\ pricing'.loaded = p.loaded
          /\ pricing'.loadedAt = p.loadedAt /\ pricing'.loading = TRUE
      BY <2>3 DEF AsRegistries, SourceAsked
    <3>2. LoadsOf(p, loads) => LoadsOf(pricing', loads')
      BY <2>1, <2>3, <3>1 DEF LoadsOf, SourceAsked
    <3>3. \A l \in loads' : l.app \in AsApps
      BY <2>3 DEF AsShaped, SourceAsked
    <3> QED  BY <2>2, <3>1, <3>2, <3>3 DEF AsRefreshed
  <2>4. CASE SourceThrows(p)
    <3>1. /\ pricing' \in AsRegistries /\ pricing'.app = p.app /\ pricing'.loaded = AsNone
          /\ pricing'.loadedAt = asNow /\ pricing'.loading = TRUE
      BY <2>4 DEF AsRegistries, SourceThrows, AsShaped
    <3>2. LoadsOf(p, loads) => LoadsOf(pricing', loads')
      BY <2>1, <2>4, <3>1 DEF LoadsOf, SourceThrows
    <3>3. asNow <= asNow
      BY DEF AsShaped
    <3> QED  BY <2>2, <2>4, <3>1, <3>2, <3>3 DEF AsRefreshed, SourceThrows, AsShaped
  <2> QED  BY <2>1, <2>3, <2>4 DEF StartLoad
<1>2. CASE ~NeedsLoad(p)
  BY <1>2 DEF RefreshIfStale, AsRefreshed, AsShaped, LoadsOf
<1> QED  BY <1>1, <1>2

LEMMA AsInitially ==
    ASSUME NEW settings, AsStart(settings)
    PROVE  AsInv
<1>1. captureLevels \in [AsFields -> AsLevels]
  BY AsLevelsResolved DEF AsStart
<1> QED  BY <1>1, AsAssumption DEF AsStart, AsInv, AsShaped, AsRegistries, OneLoad, LoadsOf, AsPriced

LEMMA AsConfigures ==
    ASSUME AsInv, NEW a \in AsApps, ModuleInit(a)
    PROVE  AsInv'
<1>1. PICK p : p = ConfiguredPricing(a)
  OBVIOUS
<1>2. /\ p \in AsRegistries /\ p.app = a /\ p.loaded = AsNone /\ p.loadedAt = 0 /\ ~p.loading
  BY <1>1, AsAssumption DEF ConfiguredPricing, AsRegistries
<1>3. AsRefreshed(p, pricing')
  <2>1. AsShaped /\ p.loadedAt <= asNow /\ asStarted < AsMaxLoads /\ RefreshIfStale(p)
    BY <1>1, <1>2 DEF ModuleInit, AsInv, AsShaped
  <2> QED  BY <1>2, <2>1, AsRefreshes
<1>4. captureLevels' \in [AsFields -> AsLevels]
  BY AsAssumption, AsLevelsResolved DEF ModuleInit
<1>5. asCleanConfig' => LoadsOf(p, loads)
  BY <1>2 DEF ModuleInit, LoadsOf
<1>6. UNCHANGED <<telemetry, registered, asNow, asBill>>
  BY DEF ModuleInit
<1>7. AsShaped'
  BY <1>2, <1>3, <1>4, <1>6 DEF AsInv, AsShaped, AsRefreshed
<1>8. (asCleanConfig => OneLoad)'
  BY <1>2, <1>3, <1>5 DEF OneLoad, AsRefreshed
<1> QED  BY <1>6, <1>7, <1>8 DEF AsInv, AsPriced

LEMMA AsPrices ==
    ASSUME AsInv, NEW usage \in AsUsages, PriceCall(usage)
    PROVE  AsInv'
<1>1. pricing \in AsRegistries /\ pricing.app \in AsApps
  BY DEF AsInv, AsShaped, PriceCall, AsRegistries
<1>2. AsRefreshed(pricing, pricing')
  <2>1. AsShaped /\ pricing.loadedAt <= asNow /\ asStarted < AsMaxLoads /\ RefreshIfStale(pricing)
    BY DEF PriceCall, AsInv, AsShaped
  <2> QED  BY <1>1, <2>1, AsRefreshes
<1>3. UNCHANGED <<telemetry, registered, captureLevels, asCleanConfig, asNow>>
  BY DEF PriceCall
<1>4. AsShaped'
  BY <1>2, <1>3 DEF AsInv, AsShaped, AsRefreshed
<1>5. (asCleanConfig => OneLoad)'
  BY <1>2, <1>3 DEF AsInv, OneLoad, AsRefreshed
<1>6. AsPriced'
  BY DEF PriceCall, AsPriced
<1> QED  BY <1>4, <1>5, <1>6 DEF AsInv

LEMMA AsSettles ==
    ASSUME AsInv, NEW l \in loads, NEW answered \in BOOLEAN, LoadSettles(l, answered)
    PROVE  AsInv'
<1>1. PICK loaded \in AsApps \cup {AsNone} : loaded = (IF answered THEN l.app ELSE AsNone)
  BY DEF AsInv, AsShaped
<1>2. pricing' = [pricing EXCEPT !.loaded = loaded, !.loadedAt = asNow, !.loading = FALSE]
  BY <1>1 DEF LoadSettles
<1>3. /\ pricing' \in AsRegistries /\ pricing'.app = pricing.app /\ pricing'.loaded = loaded
      /\ pricing'.loadedAt = asNow /\ ~pricing'.loading
  BY <1>2 DEF AsInv, AsShaped, AsRegistries
<1>4. /\ loads' = loads \ {l}
      /\ UNCHANGED <<telemetry, registered, captureLevels, asStarted, asCleanConfig, asNow, asBill>>
  BY DEF LoadSettles
<1>5. AsShaped'
  BY <1>3, <1>4 DEF AsInv, AsShaped
<1>6. (asCleanConfig => OneLoad)'
  <2> SUFFICES ASSUME asCleanConfig PROVE OneLoad'
    BY <1>4
  <2>1. PICK n : loads = {[app |-> pricing.app, n |-> n]}
    BY DEF AsInv, OneLoad, LoadsOf
  <2>2. loads' = {} /\ l.app = pricing.app
    BY <1>4, <2>1
  <2> QED  BY <1>1, <1>3, <2>2 DEF OneLoad, LoadsOf
<1> QED  BY <1>4, <1>5, <1>6 DEF AsInv, AsPriced

LEMMA AsStep ==
    ASSUME AsInv, [AsNext]_asVars
    PROVE  AsInv'
<1>1. CASE UNCHANGED asVars
  BY <1>1 DEF asVars, AsInv, AsShaped, OneLoad, LoadsOf, AsPriced
<1>2. ASSUME NEW a \in AsApps, ModuleInit(a) PROVE AsInv'
  BY <1>2, AsConfigures
<1>3. ASSUME NEW a \in AsApps, Registers(a) PROVE AsInv'
  BY <1>3 DEF Registers, AsInv, AsShaped, OneLoad, LoadsOf, AsPriced
<1>4. ASSUME NEW a \in AsApps, NEW installs \in BOOLEAN, Installs(a, installs) PROVE AsInv'
  BY <1>4 DEF Installs, AsInv, AsShaped, OneLoad, LoadsOf, AsPriced
<1>5. ASSUME NEW l \in loads, NEW answered \in BOOLEAN, LoadSettles(l, answered) PROVE AsInv'
  BY <1>5, AsSettles
<1>6. ASSUME NEW usage \in AsUsages, PriceCall(usage) PROVE AsInv'
  BY <1>6, AsPrices
<1>7. ASSUME NEW g \in AsAgents, HarnessTurn(g) PROVE AsInv'
  BY <1>7 DEF HarnessTurn, AsInv, AsShaped, OneLoad, LoadsOf, AsPriced
<1>8. ASSUME Tick PROVE AsInv'
  <2>1. /\ asNow' = asNow + 1
        /\ UNCHANGED <<telemetry, registered, captureLevels, pricing, loads, asStarted, asCleanConfig, asBill>>
    BY <1>8 DEF Tick
  <2>2. pricing.loadedAt \in Nat
    BY DEF AsInv, AsShaped, AsRegistries
  <2>3. AsShaped'
    BY <2>1, <2>2 DEF AsInv, AsShaped
  <2> QED  BY <2>1, <2>3 DEF AsInv, OneLoad, AsPriced
<1> QED  BY <1>1, <1>2, <1>3, <1>4, <1>5, <1>6, <1>7, <1>8 DEF AsNext

(* A token is billed at one rate, between the lowest and the highest.      *)
LEMMA AsCostBounded ==
    ASSUME NEW u \in AsUsages
    PROVE  LET Larger(x, y) == IF x < y THEN y ELSE x
               in  == Larger(u.input, u.cacheRead + u.cacheWrite)
               out == Larger(u.output, u.reasoning)
           IN  /\ EstimateCost(u, AsPrice) >= 1 * in + 4 * out
               /\ EstimateCost(u, AsPrice) <= 3 * in + 5 * out
<1>1. /\ u.input \in Nat /\ u.cacheRead \in Nat /\ u.cacheWrite \in Nat
      /\ u.output \in Nat /\ u.reasoning \in Nat
  BY AsAssumption
<1> QED  BY <1>1 DEF EstimateCost, AtLeastZero, AsPrice

LEMMA AsEnough ==
    ASSUME AsInv
    PROVE  AiOneLoadAtATime /\ AiBilledOnce /\ AsTypeOK
<1>1. AiOneLoadAtATime
  <2> SUFFICES ASSUME asCleanConfig
               PROVE  /\ Cardinality(loads) <= 1
                      /\ loads # {} => pricing.loading
                      /\ (pricing.loading /\ loads = {}) => pricing.loaded = AsNone
                      /\ pricing.loaded \in {pricing.app, AsNone}
    BY DEF AiOneLoadAtATime
  <2>1. OneLoad
    BY DEF AsInv
  <2>2. CASE loads = {}
    <3>1. Cardinality(loads) = 0
      BY <2>2, FS_EmptySet
    <3>2. pricing.loading => pricing.loaded = AsNone
      <4>1. ASSUME NEW n, loads = {[app |-> pricing.app, n |-> n]} PROVE FALSE
        BY <2>2, <4>1
      <4> QED  BY <2>1, <4>1 DEF OneLoad, LoadsOf
    <3> QED  BY <2>1, <2>2, <3>1, <3>2 DEF OneLoad
  <2>3. CASE loads # {}
    <3>1. pricing.loading
      BY <2>1, <2>3 DEF OneLoad, LoadsOf
    <3>2. PICK n : loads = {[app |-> pricing.app, n |-> n]}
      BY <2>1, <2>3, <3>1 DEF OneLoad, LoadsOf
    <3>3. Cardinality(loads) = 1
      BY <3>2, FS_Singleton
    <3> QED  BY <2>1, <2>3, <3>1, <3>3 DEF OneLoad
  <2> QED  BY <2>2, <2>3
<1>2. AiBilledOnce
  <2> SUFFICES ASSUME asBill # AsNone PROVE AiBilledOnce
    BY DEF AiBilledOnce
  <2>1. PICK u \in AsUsages : asBill = [usage |-> u, cost |-> EstimateCost(u, AsPrice)]
    BY DEF AsInv, AsPriced
  <2>2. asBill.usage = u /\ asBill.cost = EstimateCost(u, AsPrice)
    BY <2>1
  <2> QED  BY <2>2, AsCostBounded DEF AiBilledOnce
<1>3. AsTypeOK
  BY DEF AsInv, AsShaped, AsRegistries, AsTypeOK
<1> QED  BY <1>1, <1>2, <1>3

-----------------------------------------------------------------------------
(* ClientRequestTimer: the marks of a request are in the order of its      *)
(* events, and a socket is one request's until that request is closed.     *)
CrStages == {"new", "open", "answered", "closed"}
CrTimes == Nat \cup {CrNone}
CrTables == [CrMarkNames -> CrTimes]
NoLater(a, b) == a # CrNone /\ b # CrNone /\ a <= b
Unset(a) == a = CrNone

(* A request in a stage, with its marks, on a socket or not, that is fresh *)
(* or not, at an instant.                                                  *)
Ordered(st, t, bound, fresh, n) ==
    /\ \A m \in CrMarkNames : t[m] \in CrTimes /\ (t[m] # CrNone => t[m] <= n)
    /\ bound <=> t["socket"] # CrNone
    /\ st = "new" <=> Unset(t["start"])
    /\ st \in {"new", "open"} => Unset(t["response"]) /\ Unset(t["end"])
    /\ st = "answered" => ~Unset(t["response"]) /\ Unset(t["end"])
    /\ bound => NoLater(t["start"], t["socket"])
    /\ t["lookup"] # CrNone => NoLater(t["socket"], t["lookup"])
    /\ t["connect"] # CrNone => NoLater(t["socket"], t["connect"])
    /\ t["lookup"] # CrNone /\ t["connect"] # CrNone => t["lookup"] <= t["connect"]
    /\ t["secureConnect"] # CrNone => NoLater(t["connect"], t["secureConnect"])
    /\ t["response"] # CrNone =>
         /\ NoLater(t["socket"], t["response"])
         /\ t["lookup"] # CrNone => ~Unset(t["connect"])
         /\ t["connect"] # CrNone => t["connect"] <= t["response"]
         /\ t["secureConnect"] # CrNone => t["secureConnect"] <= t["response"]
         /\ t["end"] # CrNone => t["response"] <= t["end"]
    /\ st = "open" /\ ~Unset(t["lookup"]) /\ Unset(t["connect"]) => fresh

CrShaped ==
    /\ crStage \in [CrRequests -> CrStages] /\ crMarks \in [CrRequests -> CrTables]
    /\ crSocket \in [CrRequests -> CrSockets \cup {CrNone}]
    /\ crListeners \in [CrSockets -> SUBSET CrRequests] /\ crFresh \subseteq CrSockets
    /\ crNow \in Nat /\ crNow <= CrMaxTime

RequestOrdered(r) ==
    Ordered(crStage[r], crMarks[r], crSocket[r] # CrNone, crSocket[r] \in crFresh, crNow)
SocketsApart ==
    \A q, r \in CrRequests :
      q # r /\ crSocket[q] = crSocket[r] /\ crSocket[q] # CrNone =>
        crStage[q] = "closed" \/ crStage[r] = "closed"

CrInv ==
    /\ CrShaped /\ SocketsApart /\ ListenersDetached
    /\ \A r \in CrRequests : RequestOrdered(r)

(* The marks of r after one more, and of nobody else.                      *)
MarkedAt(t, mark, n, t2) ==
    /\ t2 \in CrTables
    /\ \A m \in CrMarkNames : t2[m] = IF m = mark /\ t[m] = CrNone THEN n ELSE t[m]

LEMMA Marked ==
    ASSUME CrShaped, NEW r \in CrRequests, NEW mark \in CrMarkNames, crNow' \in Nat,
           crMarks' = Take(r, mark)
    PROVE  /\ crMarks' \in [CrRequests -> CrTables] /\ MarkedAt(crMarks[r], mark, crNow', crMarks'[r])
           /\ \A q \in CrRequests \ {r} : crMarks'[q] = crMarks[q]
<1>1. PICK t : t = crMarks[r] /\ t \in CrTables
  BY DEF CrShaped
<1>2. PICK v \in CrTimes : v = (IF t[mark] = CrNone THEN crNow' ELSE t[mark])
  BY <1>1 DEF CrTables, CrTimes
<1>3. PICK t2 : t2 = [t EXCEPT ![mark] = v]
  OBVIOUS
<1>4. MarkedAt(t, mark, crNow', t2)
  BY <1>1, <1>2, <1>3 DEF MarkedAt, CrTables
<1>5. crMarks' = [crMarks EXCEPT ![r] = t2]
  BY <1>1, <1>2, <1>3 DEF Take
<1> QED  BY <1>1, <1>4, <1>5 DEF CrShaped, MarkedAt

(* Time passes over a request that nothing happens to.                     *)
LEMMA OrderedLater ==
    ASSUME NEW st, NEW t, NEW bound, NEW fresh, NEW fresh2, NEW n \in Nat, NEW n2 \in Nat, n <= n2,
           Ordered(st, t, bound, fresh, n), st = "open" /\ fresh => fresh2
    PROVE  Ordered(st, t, bound, fresh2, n2)
<1>1. \A m \in CrMarkNames : t[m] \in CrTimes /\ (t[m] # CrNone => t[m] <= n2)
  BY DEF Ordered, CrTimes
<1> QED  BY <1>1 DEF Ordered

LEMMA Summed ==
    ASSUME NEW st, NEW t, NEW bound, NEW fresh, NEW n \in Nat, Ordered(st, t, bound, fresh, n),
           t.response # CrNone, t.upload # CrNone, t.upload <= t.response, NEW p, p = DerivePhases(t)
    PROVE  p.wait + p.dns + p.tcp + p.tls + p.request + p.firstByte + p.download <= n - t.start
<1>1. /\ t.start \in Nat /\ t.socket \in Nat /\ t.response \in Nat /\ t.upload \in Nat
      /\ t.start <= t.socket /\ t.socket <= t.response /\ t.response <= n
      /\ t.start # CrNone /\ t.socket # CrNone
  BY CrAssumption DEF Ordered, CrTimes, CrMarkNames, NoLater, Unset
<1>2. PICK at : at = FirstMark(t.secureConnect, FirstMark(t.connect, t.socket))
  OBVIOUS
<1>3. /\ at \in Nat /\ at <= t.response /\ t.socket <= at /\ at # CrNone
      /\ p.wait + p.dns + p.tcp + p.tls = at - t.start
      /\ p.wait \in Nat /\ p.dns \in Nat /\ p.tcp \in Nat /\ p.tls \in Nat
  <2>0. /\ p.wait = Span(t.start, t.socket)
        /\ p.dns = (IF t.lookup # CrNone THEN Span(t.socket, t.lookup) ELSE 0)
        /\ p.tcp = Span(FirstMark(t.lookup, t.socket), t.connect)
        /\ p.tls = Span(t.connect, t.secureConnect)
    BY DEF DerivePhases
  <2>1. p.wait = t.socket - t.start
    BY <1>1, <2>0 DEF Span
  <2>2. CASE t.connect = CrNone
    <3>1. t.lookup = CrNone /\ t.secureConnect = CrNone
      BY <2>2 DEF Ordered, NoLater, Unset
    <3>2. at = t.socket /\ p.dns = 0 /\ p.tcp = 0 /\ p.tls = 0
      BY <1>2, <2>0, <2>2, <3>1 DEF FirstMark, Span
    <3> QED  BY <1>1, <2>1, <3>2
  <2>3. CASE t.connect # CrNone
    <3>1. /\ t.connect \in Nat /\ t.socket <= t.connect /\ t.connect <= t.response
      BY <2>3 DEF Ordered, NoLater, CrMarkNames, CrTimes
    <3>2. p.dns + p.tcp = t.connect - t.socket /\ p.dns \in Nat /\ p.tcp \in Nat
      <4>1. CASE t.lookup = CrNone
        BY <1>1, <2>0, <2>3, <3>1, <4>1 DEF Span, FirstMark
      <4>2. CASE t.lookup # CrNone
        <5>1. t.lookup \in Nat /\ t.socket <= t.lookup /\ t.lookup <= t.connect
          BY <2>3, <4>2 DEF Ordered, NoLater, CrMarkNames, CrTimes
        <5> QED  BY <1>1, <2>0, <2>3, <3>1, <4>2, <5>1 DEF Span, FirstMark
      <4> QED  BY <4>1, <4>2
    <3>3. p.tls = at - t.connect /\ p.tls \in Nat /\ at \in Nat /\ at <= t.response /\ at # CrNone
      <4>1. CASE t.secureConnect = CrNone
        BY <1>2, <2>0, <2>3, <3>1, <4>1 DEF Span, FirstMark
      <4>2. CASE t.secureConnect # CrNone
        <5>1. /\ t.secureConnect \in Nat /\ t.connect <= t.secureConnect
              /\ t.secureConnect <= t.response
          BY <4>2 DEF Ordered, NoLater, CrMarkNames, CrTimes
        <5> QED  BY <1>2, <2>0, <2>3, <3>1, <4>2, <5>1 DEF Span, FirstMark
      <4> QED  BY <4>1, <4>2
    <3> QED  BY <1>1, <2>1, <3>1, <3>2, <3>3
  <2> QED  BY <2>2, <2>3
<1>4. PICK up : up = UploadMark(t, at)
  OBVIOUS
<1>5. up \in Nat /\ at <= up /\ up <= t.response /\ up # CrNone
  BY <1>1, <1>3, <1>4 DEF UploadMark
<1>6. p.request = up - at /\ p.firstByte = t.response - up
  <2>1. p.request = Span(at, up) /\ p.firstByte = Span(FirstMark(up, at), t.response)
    BY <1>2, <1>4 DEF DerivePhases
  <2> QED  BY <1>1, <1>3, <1>5, <2>1 DEF Span, FirstMark
<1>7. p.download \in Nat /\ p.download <= n - t.response
  <2>0. p.download = Span(t.response, t.end)
    BY DEF DerivePhases
  <2>1. CASE t.end = CrNone
    BY <1>1, <2>0, <2>1 DEF Span
  <2>2. CASE t.end # CrNone
    <3>1. t.end \in Nat /\ t.response <= t.end /\ t.end <= n
      BY <2>2 DEF Ordered, CrMarkNames, CrTimes
    <3> QED  BY <1>1, <2>0, <2>2, <3>1 DEF Span
  <2> QED  BY <2>1, <2>2
<1> QED  BY <1>1, <1>3, <1>5, <1>6, <1>7

LEMMA CrEnough == ASSUME CrInv PROVE PhasesFitTheCall /\ ListenersDetached /\ CrTypeOK
<1>1. ASSUME NEW r \in CrRequests, crMarks[r].response # CrNone, crMarks[r].upload # CrNone,
             crMarks[r].upload <= crMarks[r].response, NEW p, p = DerivePhases(crMarks[r])
      PROVE  p.wait + p.dns + p.tcp + p.tls + p.request + p.firstByte + p.download
               <= crNow - crMarks[r].start
  <2>1. crNow \in Nat /\ Ordered(crStage[r], crMarks[r], crSocket[r] # CrNone, crSocket[r] \in crFresh, crNow)
    BY DEF CrInv, CrShaped, RequestOrdered
  <2> QED  BY <1>1, <2>1, Summed
<1>2. PhasesFitTheCall
  BY <1>1 DEF PhasesFitTheCall
<1>3. CrTypeOK
  <2>1. ASSUME NEW r \in CrRequests, NEW m \in CrMarkNames
        PROVE  crMarks[r][m] = CrNone \/ crMarks[r][m] \in 0..crNow
    BY DEF CrInv, CrShaped, RequestOrdered, Ordered, CrTimes
  <2> QED  BY <2>1, CrAssumption DEF CrInv, CrShaped, CrStages, CrTypeOK
<1> QED  BY <1>2, <1>3 DEF CrInv

LEMMA CrInitially == CrInit => CrInv
<1> SUFFICES ASSUME CrInit PROVE CrInv
  OBVIOUS
<1>1. CrShaped
  BY CrAssumption DEF CrInit, CrShaped, CrStages, CrTables, CrTimes, NoMarks
<1>2. ASSUME NEW r \in CrRequests PROVE RequestOrdered(r)
  <2>1. crStage[r] = "new" /\ crSocket[r] = CrNone /\ \A m \in CrMarkNames : crMarks[r][m] = CrNone
    BY DEF CrInit, NoMarks
  <2>2. {"start", "socket", "lookup", "connect", "secureConnect", "response", "end"} \subseteq CrMarkNames
    BY DEF CrMarkNames
  <2> QED  BY <2>1, <2>2 DEF RequestOrdered, Ordered, CrTimes, Unset
<1> QED  BY <1>1, <1>2, CrAssumption DEF CrInit, CrInv, SocketsApart, ListenersDetached

(* What a step leaves of every request but r.                              *)
CrElsewhere(r) ==
    \A q \in CrRequests \ {r} :
      /\ crStage'[q] = crStage[q] /\ crMarks'[q] = crMarks[q] /\ crSocket'[q] = crSocket[q]
      /\ crStage[q] = "open" /\ crSocket[q] \in crFresh => crSocket[q] \in crFresh'

LEMMA CrStays ==
    ASSUME CrInv, NEW r \in CrRequests, CrElsewhere(r), CrShaped', crNow <= crNow',
           RequestOrdered(r)', SocketsApart', ListenersDetached'
    PROVE  CrInv'
<1>1. ASSUME NEW q \in CrRequests \ {r} PROVE RequestOrdered(q)'
  <2>1. /\ Ordered(crStage[q], crMarks[q], crSocket[q] # CrNone, crSocket[q] \in crFresh, crNow)
        /\ crNow \in Nat /\ crNow' \in Nat
    BY DEF CrInv, CrShaped, RequestOrdered
  <2>2. crStage[q] = "open" /\ crSocket[q] \in crFresh => crSocket[q] \in crFresh'
    BY DEF CrElsewhere
  <2>3. Ordered(crStage[q], crMarks[q], crSocket[q] # CrNone, crSocket[q] \in crFresh', crNow')
    BY <2>1, <2>2, OrderedLater
  <2> QED  BY <2>3 DEF CrElsewhere, RequestOrdered
<1> QED  BY <1>1 DEF CrInv

(* One more mark on a request that keeps its place, or opens.              *)
LEMMA OrderedMarked ==
    ASSUME NEW st, NEW st2 \in CrStages, NEW t, NEW t2, NEW bound \in BOOLEAN, NEW fresh, NEW fresh2,
           NEW n \in Nat, NEW n2 \in Nat, n <= n2, NEW mark \in CrMarkNames,
           Ordered(st, t, bound, fresh, n), MarkedAt(t, mark, n2, t2),
           \/ mark = "start" /\ st = "new" /\ st2 = "open"
           \/ mark = "upload" /\ st2 = st /\ st # "new" /\ fresh2 = fresh
           \/ mark = "lookup" /\ bound /\ st = "open" /\ st2 = "open" /\ t["connect"] = CrNone /\ fresh2
           \/ mark = "connect" /\ bound /\ st = "open" /\ st2 = "open" /\ fresh2 = fresh
           \/ mark = "secureConnect" /\ t["connect"] # CrNone /\ st = "open" /\ st2 = "open" /\ fresh2 = fresh
           \/ mark = "response" /\ bound /\ st = "open" /\ st2 = "answered" /\ (fresh => t["connect"] # CrNone)
           \/ mark = "end" /\ st = "answered" /\ st2 = "closed"
           \/ mark = "end" /\ st = "open" /\ st2 = "closed"
    PROVE  Ordered(st2, t2, bound, fresh2, n2)
<1>1. \A m \in CrMarkNames : t2[m] \in CrTimes /\ (t2[m] # CrNone => t2[m] <= n2)
  BY CrAssumption DEF Ordered, MarkedAt, CrTimes
<1>2. /\ t2["start"] = (IF mark = "start" /\ t["start"] = CrNone THEN n2 ELSE t["start"])
      /\ t2["socket"] = (IF mark = "socket" /\ t["socket"] = CrNone THEN n2 ELSE t["socket"])
      /\ t2["lookup"] = (IF mark = "lookup" /\ t["lookup"] = CrNone THEN n2 ELSE t["lookup"])
      /\ t2["connect"] = (IF mark = "connect" /\ t["connect"] = CrNone THEN n2 ELSE t["connect"])
      /\ t2["secureConnect"] = (IF mark = "secureConnect" /\ t["secureConnect"] = CrNone THEN n2 ELSE t["secureConnect"])
      /\ t2["response"] = (IF mark = "response" /\ t["response"] = CrNone THEN n2 ELSE t["response"])
      /\ t2["end"] = (IF mark = "end" /\ t["end"] = CrNone THEN n2 ELSE t["end"])
  BY DEF MarkedAt, CrMarkNames
<1>3. n2 # CrNone
  BY CrAssumption
<1>4. \A m \in CrMarkNames : t[m] # CrNone => t[m] \in Nat /\ t[m] <= n2
  BY DEF Ordered, CrTimes
<1>5. {"start", "socket", "lookup", "connect", "secureConnect", "response", "end"} \subseteq CrMarkNames
  BY DEF CrMarkNames
<1>6. CASE mark = "start"
  BY <1>1, <1>2, <1>3, <1>4, <1>5, <1>6 DEF Ordered, NoLater, Unset
<1>7. CASE mark = "upload"
  BY <1>1, <1>2, <1>3, <1>4, <1>5, <1>7 DEF Ordered, NoLater, Unset
<1>8. CASE mark = "lookup"
  BY <1>1, <1>2, <1>3, <1>4, <1>5, <1>8 DEF Ordered, NoLater, Unset
<1>9. CASE mark = "connect"
  BY <1>1, <1>2, <1>3, <1>4, <1>5, <1>9 DEF Ordered, NoLater, Unset
<1>10. CASE mark = "secureConnect"
  BY <1>1, <1>2, <1>3, <1>4, <1>5, <1>10 DEF Ordered, NoLater, Unset
<1>11. CASE mark = "response"
  BY <1>1, <1>2, <1>3, <1>4, <1>5, <1>11 DEF Ordered, NoLater, Unset
<1>12. CASE mark = "end"
  BY <1>1, <1>2, <1>3, <1>4, <1>5, <1>12 DEF Ordered, NoLater, Unset
<1> QED  BY <1>6, <1>7, <1>8, <1>9, <1>10, <1>11, <1>12

LEMMA OrderedOnSocket ==
    ASSUME NEW t, NEW t2, NEW fresh, NEW fresh2, NEW n \in Nat, NEW n2 \in Nat, n <= n2,
           Ordered("open", t, FALSE, fresh, n), MarkedAt(t, "socket", n2, t2)
    PROVE  Ordered("open", t2, TRUE, fresh2, n2)
<1>1. \A m \in CrMarkNames : t2[m] \in CrTimes /\ (t2[m] # CrNone => t2[m] <= n2)
  BY CrAssumption DEF Ordered, MarkedAt, CrTimes
<1>2. /\ t["socket"] = CrNone /\ t["lookup"] = CrNone /\ t["connect"] = CrNone
      /\ t["secureConnect"] = CrNone /\ t["start"] # CrNone
  BY DEF Ordered, NoLater, Unset
<1>3. /\ t2["start"] = t["start"] /\ t2["socket"] = n2 /\ t2["lookup"] = CrNone /\ t2["connect"] = CrNone
      /\ t2["secureConnect"] = CrNone /\ t2["response"] = t["response"] /\ t2["end"] = t["end"]
  BY <1>2 DEF MarkedAt, CrMarkNames
<1>4. n2 # CrNone /\ t["start"] <= n2
  BY <1>1, <1>2, <1>3, CrAssumption DEF CrMarkNames
<1> QED  BY <1>1, <1>2, <1>3, <1>4 DEF Ordered, NoLater, Unset

(* A step that marks r and touches neither its socket nor the listeners.   *)
LEMMA CrMarks ==
    ASSUME CrInv, NEW r \in CrRequests, NEW mark \in CrMarkNames, NEW d \in {0, 1}, Passes(d),
           crMarks' = Take(r, mark), crStage' \in [CrRequests -> CrStages],
           \A q \in CrRequests \ {r} : crStage'[q] = crStage[q], crSocket' = crSocket,
           crListeners' \in [CrSockets -> SUBSET CrRequests],
           \A s \in CrSockets : \A q \in crListeners'[s] :
             q \in crListeners[s] /\ (q # r \/ crStage'[r] = "open"),
           crFresh' \subseteq crFresh,
           \A q \in CrRequests \ {r} : crStage[q] = "open" /\ crSocket[q] \in crFresh => crSocket[q] \in crFresh',
           crStage[r] # "closed" \/ crStage'[r] = "closed",
           \/ mark = "start" /\ crStage[r] = "new" /\ crStage'[r] = "open"
           \/ mark = "upload" /\ crStage' = crStage /\ crStage[r] # "new" /\ crFresh' = crFresh
           \/ /\ mark = "lookup" /\ crSocket[r] # CrNone /\ crStage[r] = "open" /\ crStage'[r] = "open"
              /\ crMarks[r].connect = CrNone /\ crSocket[r] \in crFresh'
           \/ /\ mark = "connect" /\ crSocket[r] # CrNone /\ crStage[r] = "open" /\ crStage'[r] = "open"
              /\ crFresh' = crFresh
           \/ /\ mark = "secureConnect" /\ crMarks[r].connect # CrNone /\ crStage[r] = "open"
              /\ crStage'[r] = "open" /\ crFresh' = crFresh
           \/ /\ mark = "response" /\ crSocket[r] # CrNone /\ crStage[r] = "open" /\ crStage'[r] = "answered"
              /\ crSocket[r] \in crFresh => crMarks[r].connect # CrNone
           \/ mark = "end" /\ crStage[r] = "answered" /\ crStage'[r] = "closed"
           \/ mark = "end" /\ crStage[r] = "open" /\ crStage'[r] = "closed"
    PROVE  CrInv'
<1>1. crNow \in Nat /\ crNow' \in Nat /\ crNow <= crNow' /\ crNow' <= CrMaxTime
  BY CrAssumption DEF Passes, CrInv, CrShaped
<1>2. /\ crMarks' \in [CrRequests -> CrTables] /\ MarkedAt(crMarks[r], mark, crNow', crMarks'[r])
      /\ \A q \in CrRequests \ {r} : crMarks'[q] = crMarks[q]
  BY <1>1, Marked DEF CrInv
<1>3. CrShaped'
  BY <1>1, <1>2 DEF CrInv, CrShaped
<1>4. CrElsewhere(r)
  BY <1>2 DEF CrElsewhere
<1>5. RequestOrdered(r)'
  <2>0. PICK bound \in BOOLEAN : bound <=> crSocket[r] # CrNone
    OBVIOUS
  <2>a. PICK fresh \in BOOLEAN : fresh <=> crSocket[r] \in crFresh
    OBVIOUS
  <2>b. PICK fresh2 \in BOOLEAN : fresh2 <=> crSocket[r] \in crFresh'
    OBVIOUS
  <2>c. PICK t, t2 : t = crMarks[r] /\ t2 = crMarks'[r]
    OBVIOUS
  <2>1. /\ t = crMarks[r] /\ t2 = crMarks'[r] /\ (bound <=> crSocket[r] # CrNone)
        /\ (fresh <=> crSocket[r] \in crFresh) /\ (fresh2 <=> crSocket[r] \in crFresh')
    BY <2>0, <2>a, <2>b, <2>c, Zenon
  <2>2. Ordered(crStage[r], t, bound, fresh, crNow)
    <3>1. Ordered(crStage[r], crMarks[r], crSocket[r] # CrNone, crSocket[r] \in crFresh, crNow)
      BY DEF CrInv, RequestOrdered
    <3> QED  BY <2>1, <3>1 DEF Ordered
  <2>3. Ordered(crStage'[r], t2, bound, fresh2, crNow')
    <3>1. crStage'[r] \in CrStages /\ MarkedAt(t, mark, crNow', t2)
      BY <1>2, <1>3, <2>1 DEF CrShaped
    <3>2. crFresh' = crFresh => fresh2 = fresh
      BY <2>1
    <3>3. PICK st \in CrStages, st2 \in CrStages : st = crStage[r] /\ st2 = crStage'[r]
      BY <1>3 DEF CrInv, CrShaped
    <3>4. \/ mark = "start" /\ st = "new" /\ st2 = "open"
          \/ mark = "upload" /\ st2 = st /\ st # "new" /\ fresh2 = fresh
          \/ mark = "lookup" /\ bound /\ st = "open" /\ st2 = "open" /\ t["connect"] = CrNone /\ fresh2
          \/ mark = "connect" /\ bound /\ st = "open" /\ st2 = "open" /\ fresh2 = fresh
          \/ mark = "secureConnect" /\ t["connect"] # CrNone /\ st = "open" /\ st2 = "open" /\ fresh2 = fresh
          \/ mark = "response" /\ bound /\ st = "open" /\ st2 = "answered" /\ (fresh => t["connect"] # CrNone)
          \/ mark = "end" /\ st = "answered" /\ st2 = "closed"
          \/ mark = "end" /\ st = "open" /\ st2 = "closed"
      <4>0. /\ (crSocket[r] # CrNone => bound) /\ (crSocket[r] \in crFresh' => fresh2)
            /\ (fresh => crSocket[r] \in crFresh)
            /\ (crStage' = crStage => st2 = st) /\ crStage[r] = st /\ crStage'[r] = st2
            /\ crMarks[r].connect = t["connect"]
        BY <2>1, <3>3
      <4>1. CASE mark = "start" /\ crStage[r] = "new" /\ crStage'[r] = "open"
        BY <4>0, <4>1
      <4>2. CASE mark = "upload" /\ crStage' = crStage /\ crStage[r] # "new" /\ crFresh' = crFresh
        BY <3>2, <4>0, <4>2
      <4>3. CASE /\ mark = "lookup" /\ crSocket[r] # CrNone /\ crStage[r] = "open" /\ crStage'[r] = "open"
                 /\ crMarks[r].connect = CrNone /\ crSocket[r] \in crFresh'
        <5>1. mark = "lookup" /\ st = "open" /\ st2 = "open" /\ t["connect"] = CrNone
          BY <4>0, <4>3
        <5>2. bound /\ fresh2
          BY ONLY <4>0, <4>3
        <5> QED  BY ONLY <5>1, <5>2
      <4>4. CASE /\ mark = "connect" /\ crSocket[r] # CrNone /\ crStage[r] = "open" /\ crStage'[r] = "open"
                 /\ crFresh' = crFresh
        <5>1. mark = "connect" /\ st = "open" /\ st2 = "open" /\ fresh2 = fresh
          BY <3>2, <4>0, <4>4
        <5>2. bound
          BY ONLY <4>0, <4>4
        <5> QED  BY ONLY <5>1, <5>2
      <4>5. CASE /\ mark = "secureConnect" /\ crMarks[r].connect # CrNone /\ crStage[r] = "open"
                 /\ crStage'[r] = "open" /\ crFresh' = crFresh
        BY <3>2, <4>0, <4>5
      <4>6. CASE /\ mark = "response" /\ crSocket[r] # CrNone /\ crStage[r] = "open" /\ crStage'[r] = "answered"
                 /\ crSocket[r] \in crFresh => crMarks[r].connect # CrNone
        <5>1. mark = "response" /\ st = "open" /\ st2 = "answered"
          BY <4>0, <4>6
        <5>2. bound /\ (fresh => t["connect"] # CrNone)
          BY ONLY <4>0, <4>6
        <5> QED  BY ONLY <5>1, <5>2
      <4>7. CASE mark = "end" /\ crStage[r] = "answered" /\ crStage'[r] = "closed"
        BY ONLY <4>0, <4>7
      <4>8. CASE mark = "end" /\ crStage[r] = "open" /\ crStage'[r] = "closed"
        BY ONLY <4>0, <4>8
      <4> QED  BY <4>1, <4>2, <4>3, <4>4, <4>5, <4>6, <4>7, <4>8
    <3>5. Ordered(st, t, bound, fresh, crNow) /\ MarkedAt(t, mark, crNow', t2) /\ mark \in CrMarkNames
      BY <2>2, <3>1, <3>3
    <3>6. Ordered(st2, t2, bound, fresh2, crNow')
      BY ONLY <1>1, <3>4, <3>5, bound \in BOOLEAN, st2 \in CrStages, OrderedMarked
    <3> QED  BY <3>3, <3>6
  <2> QED  BY <2>1, <2>3 DEF RequestOrdered, Ordered
<1>6. SocketsApart'
  BY DEF CrInv, SocketsApart
<1>7. ListenersDetached'
  BY DEF CrInv, ListenersDetached
<1> QED  BY <1>1, <1>3, <1>4, <1>5, <1>6, <1>7, CrStays

LEMMA CrStep == ASSUME CrInv, [CrNext]_crVars PROVE CrInv'
<1>1. CASE UNCHANGED crVars
  <2>1. UNCHANGED <<crStage, crMarks, crSocket, crListeners, crFresh, crNow>>
    BY <1>1 DEF crVars
  <2>2. CrShaped' /\ SocketsApart' /\ ListenersDetached'
    BY <2>1 DEF CrInv, CrShaped, SocketsApart, ListenersDetached
  <2>3. \A r \in CrRequests : RequestOrdered(r)'
    BY <2>1 DEF CrInv, RequestOrdered, Ordered, NoLater, Unset
  <2> QED  BY <2>2, <2>3 DEF CrInv
<1>2. ASSUME NEW r \in CrRequests, NEW d \in {0, 1}, Passes(d),
             \/ Instrument(r)
             \/ \E s \in CrSockets : OnSocket(r, s)
             \/ \E mark \in {"lookup", "connect", "secureConnect"} : OnConnection(r, mark)
             \/ OnFinish(r) \/ OnResponse(r) \/ OnEnd(r)
             \/ \E reported \in BOOLEAN : OnError(r, reported)
      PROVE  CrInv'
  <2>0. /\ CrShaped /\ SocketsApart /\ ListenersDetached /\ crNow \in Nat
        /\ crStage[r] \in CrStages
    BY DEF CrInv, CrShaped
  <2>1. ASSUME NEW mark \in {"start", "lookup", "connect", "secureConnect", "upload", "response", "end"}
        PROVE  mark \in CrMarkNames
    BY DEF CrMarkNames
  <2>2. CASE Instrument(r)
    <3>1. /\ crStage' = [crStage EXCEPT ![r] = "open"] /\ crMarks' = Take(r, "start")
          /\ UNCHANGED <<crSocket, crListeners, crFresh>> /\ crStage[r] = "new"
      BY <2>2 DEF Instrument
    <3>2. /\ crStage' \in [CrRequests -> CrStages] /\ crStage'[r] = "open"
          /\ \A q \in CrRequests \ {r} : crStage'[q] = crStage[q]
      BY <2>0, <3>1 DEF CrShaped, CrStages
    <3> QED  BY <1>2, <2>0, <2>1, <3>1, <3>2, CrMarks DEF CrShaped
  <2>3. ASSUME NEW s \in CrSockets, OnSocket(r, s) PROVE CrInv'
    <3>1. /\ crStage[r] = "open" /\ crSocket[r] = CrNone /\ crMarks' = Take(r, "socket")
          /\ \A q \in CrRequests : crSocket[q] = s => crStage[q] = "closed"
          /\ crSocket' = [crSocket EXCEPT ![r] = s]
          /\ crListeners' = [crListeners EXCEPT ![s] = @ \cup {r}]
          /\ UNCHANGED <<crStage, crFresh>>
      BY <2>3 DEF OnSocket
    <3>2. crNow' \in Nat /\ crNow <= crNow' /\ crNow' <= CrMaxTime /\ "socket" \in CrMarkNames
      BY <1>2, <2>0, CrAssumption DEF Passes, CrMarkNames
    <3>3. /\ crMarks' \in [CrRequests -> CrTables]
          /\ MarkedAt(crMarks[r], "socket", crNow', crMarks'[r])
          /\ \A q \in CrRequests \ {r} : crMarks'[q] = crMarks[q]
      BY <2>0, <3>1, <3>2, Marked
    <3>4. s # CrNone /\ crSocket'[r] = s
      BY <2>0, <3>1, CrAssumption DEF CrShaped
    <3>5. CrShaped'
      BY <2>0, <3>1, <3>2, <3>3 DEF CrShaped
    <3>6. RequestOrdered(r)'
      <4>1. PICK fresh : fresh = (crSocket[r] \in crFresh)
        OBVIOUS
      <4>2. PICK fresh2 : fresh2 = (crSocket'[r] \in crFresh')
        OBVIOUS
      <4>3. Ordered("open", crMarks[r], FALSE, fresh, crNow)
        BY <3>1, <4>1 DEF CrInv, RequestOrdered, Ordered
      <4>4. Ordered("open", crMarks'[r], TRUE, fresh2, crNow')
        BY <2>0, <3>2, <3>3, <4>3, OrderedOnSocket
      <4> QED  BY <3>1, <3>4, <4>2, <4>4 DEF RequestOrdered, Ordered
    <3>7. SocketsApart'
      BY <2>0, <3>1, <3>4 DEF SocketsApart, CrShaped
    <3>8. ListenersDetached'
      <4>1. ASSUME NEW s2 \in CrSockets, NEW q \in crListeners[s2]
            PROVE  q \in CrRequests /\ q # r /\ s2 # s /\ crSocket'[q] = s2 /\ crStage'[q] = "open"
        <5>1. q \in CrRequests /\ crSocket[q] = s2 /\ crStage[q] = "open" /\ s2 # CrNone
          BY <2>0, CrAssumption DEF ListenersDetached, CrShaped
        <5>2. q # r /\ s2 # s
          BY <3>1, <5>1
        <5> QED  BY <2>0, <3>1, <5>1, <5>2 DEF CrShaped
      <4>2. ASSUME NEW s2 \in CrSockets
            PROVE  crListeners'[s2] = IF s2 = s THEN crListeners[s] \cup {r} ELSE crListeners[s2]
        BY <2>0, <3>1 DEF CrShaped
      <4>3. crStage'[r] = "open"
        BY <3>1
      <4>4. ASSUME NEW s2 \in CrSockets, NEW q \in crListeners'[s2]
            PROVE  crSocket'[q] = s2 /\ crStage'[q] = "open"
        <5>1. CASE q = r /\ s2 = s
          BY <3>4, <4>3, <5>1
        <5>2. CASE q \in crListeners[s2]
          BY <4>1, <5>2
        <5>3. (q = r /\ s2 = s) \/ q \in crListeners[s2]
          BY <4>2, <4>4
        <5> QED  BY <5>1, <5>2, <5>3
      <4> QED  BY <4>4 DEF ListenersDetached
    <3>9. CrElsewhere(r)
      BY <2>0, <3>1, <3>3 DEF CrElsewhere, CrShaped
    <3> QED  BY <3>2, <3>5, <3>6, <3>7, <3>8, <3>9, CrStays
  <2>4. ASSUME NEW mark \in {"lookup", "connect", "secureConnect"}, OnConnection(r, mark) PROVE CrInv'
    <3>1. /\ crStage[r] = "open" /\ crSocket[r] # CrNone /\ crSocket[r] \in crFresh
          /\ mark = "lookup" => crMarks[r].connect = CrNone
          /\ mark = "secureConnect" => crMarks[r].connect # CrNone
          /\ crMarks' = Take(r, mark) /\ UNCHANGED <<crStage, crSocket, crListeners, crFresh>>
      BY <2>4 DEF OnConnection
    <3> QED  BY <1>2, <2>0, <2>1, <3>1, CrMarks DEF CrShaped, ListenersDetached
  <2>5. CASE OnFinish(r)
    <3>1. /\ crStage[r] \in {"open", "answered"} /\ crMarks' = Take(r, "upload")
          /\ UNCHANGED <<crStage, crSocket, crListeners, crFresh>>
      BY <2>5 DEF OnFinish
    <3> QED  BY <1>2, <2>0, <2>1, <3>1, CrMarks DEF CrShaped, ListenersDetached
  <2>6. Detached(r) \in [CrSockets -> SUBSET CrRequests] /\
        \A s \in CrSockets : \A q \in Detached(r)[s] : q \in crListeners[s] /\ q # r
    BY <2>0 DEF Detached, CrShaped
  <2>7. CASE OnResponse(r)
    <3>1. /\ crStage[r] = "open" /\ crSocket[r] # CrNone
          /\ crSocket[r] \in crFresh => crMarks[r].connect # CrNone
          /\ crStage' = [crStage EXCEPT ![r] = "answered"] /\ crMarks' = Take(r, "response")
          /\ crListeners' = Detached(r) /\ crFresh' = crFresh \ {crSocket[r]} /\ UNCHANGED crSocket
      BY <2>7 DEF OnResponse
    <3>2. /\ crStage' \in [CrRequests -> CrStages] /\ crStage'[r] = "answered"
          /\ \A q \in CrRequests \ {r} : crStage'[q] = crStage[q]
      BY <2>0, <3>1 DEF CrShaped, CrStages
    <3>3. \A q \in CrRequests \ {r} : crStage[q] = "open" /\ crSocket[q] \in crFresh => crSocket[q] \in crFresh'
      BY <2>0, <3>1 DEF SocketsApart
    <3> QED  BY <1>2, <2>1, <2>6, <3>1, <3>2, <3>3, CrMarks
  <2>8. CASE OnEnd(r)
    <3>1. /\ crStage[r] = "answered" /\ crStage' = [crStage EXCEPT ![r] = "closed"]
          /\ crMarks' = Take(r, "end") /\ crListeners' = Detached(r) /\ UNCHANGED <<crSocket, crFresh>>
      BY <2>8 DEF OnEnd
    <3>2. /\ crStage' \in [CrRequests -> CrStages] /\ crStage'[r] = "closed"
          /\ \A q \in CrRequests \ {r} : crStage'[q] = crStage[q]
      BY <2>0, <3>1 DEF CrShaped, CrStages
    <3> QED  BY <1>2, <2>1, <2>6, <3>1, <3>2, CrMarks
  <2>9. ASSUME NEW reported \in BOOLEAN, OnError(r, reported) PROVE CrInv'
    <3>1. /\ crStage[r] = "open" /\ crStage' = [crStage EXCEPT ![r] = "closed"]
          /\ crMarks' = IF reported THEN Take(r, "end") ELSE crMarks
          /\ crListeners' = Detached(r) /\ UNCHANGED <<crSocket, crFresh>>
      BY <2>9 DEF OnError
    <3>2. /\ crStage' \in [CrRequests -> CrStages] /\ crStage'[r] = "closed"
          /\ \A q \in CrRequests \ {r} : crStage'[q] = crStage[q]
      BY <2>0, <3>1 DEF CrShaped, CrStages
    <3>3. CASE reported
      BY <1>2, <2>1, <2>6, <3>1, <3>2, <3>3, CrMarks
    <3>4. CASE ~reported
      <4>1. crNow' \in Nat /\ crNow <= crNow' /\ crNow' <= CrMaxTime /\ crMarks' = crMarks
        BY <1>2, <2>0, <3>1, <3>4, CrAssumption DEF Passes
      <4>2. CrShaped'
        BY <2>0, <2>6, <3>1, <3>2, <4>1 DEF CrShaped
      <4>3. RequestOrdered(r)'
        <5>1. PICK t, fresh : t = crMarks[r] /\ fresh = (crSocket[r] \in crFresh)
          OBVIOUS
        <5>2. Ordered("open", t, crSocket[r] # CrNone, fresh, crNow)
          BY <3>1, <5>1 DEF CrInv, RequestOrdered
        <5>3. Ordered("closed", t, crSocket[r] # CrNone, fresh, crNow)
          BY <5>2 DEF Ordered, Unset
        <5>4. Ordered("closed", t, crSocket[r] # CrNone, fresh, crNow')
          BY ONLY <2>0, <4>1, <5>3, OrderedLater
        <5> QED  BY <3>1, <3>2, <4>1, <5>1, <5>4 DEF RequestOrdered
      <4>4. SocketsApart'
        BY <2>0, <3>1, <3>2 DEF SocketsApart
      <4>5. ListenersDetached'
        BY <2>0, <2>6, <3>1, <3>2 DEF ListenersDetached
      <4>6. CrElsewhere(r)
        BY <3>1, <3>2, <4>1 DEF CrElsewhere
      <4> QED  BY <4>1, <4>2, <4>3, <4>4, <4>5, <4>6, CrStays
    <3> QED  BY <3>3, <3>4
  <2> QED  BY <1>2, <2>2, <2>3, <2>4, <2>5, <2>7, <2>8, <2>9
<1> QED  BY <1>1, <1>2 DEF CrNext

(* The phases of an answered request never add up to more than it took,    *)
(* and a keep-alive socket holds the listeners of the one open request that*)
(* uses it: for every number of requests, of sockets and of instants.      *)
THEOREM PhasesFit == CrSpec => [](PhasesFitTheCall /\ ListenersDetached /\ CrTypeOK)
<1>1. CrInv /\ [CrNext]_crVars => CrInv'
  BY CrStep
<1>2. CrInv => PhasesFitTheCall /\ ListenersDetached /\ CrTypeOK
  BY CrEnough
<1> QED  BY <1>1, <1>2, CrInitially, PTL DEF CrSpec

-----------------------------------------------------------------------------
(* Messaging: a message says, by the headers it left with, which trace the *)
(* profile that sent it was in, and a profile's trace never changes.       *)
MqCarried == {"own", "caller", "rpc"} \X Nat
MqProfileRecords ==
    [trace : MqCarried, message : Nat, state : {"running", "done", "failed"}]

MqOwn(by) ==
    IF mqConfig.header = MqNone \/ (by # MqNone /\ by > 1) THEN <<>>
    ELSE [h \in {mqConfig.reads} |-> mqConfig.header]
MqHeaders(by) == WithTraceIdOnMessage(MqOwn(by), MqTrace(by))

MqSenders == DOMAIN mqProfiles \cup {MqNone}
MqSent(call) ==
    /\ call.by \in MqSenders
    /\ call.own = MqOwn(call.by) /\ call.headers = MqHeaders(call.by)
    /\ call.correlation = mqConfig.correlation

MqShaped ==
    /\ mqConfig \in MqScenarios /\ mqPatched \in 0..1
    /\ IsSeq(mqMessages) /\ IsSeq(mqEntries) /\ mqProfiles \in Seq(MqProfileRecords)
    /\ mqQueue \subseteq DOMAIN mqMessages /\ mqStored \subseteq DOMAIN mqProfiles

MqAllSent ==
    /\ \A call \in mqPublish : MqSent(call)
    /\ \A m \in DOMAIN mqMessages : MqSent(mqMessages[m])
    /\ \A i \in DOMAIN mqEntries : /\ mqEntries[i].profile \in DOMAIN mqProfiles
                                   /\ mqEntries[i].headers = MqHeaders(mqEntries[i].profile)

MqTraced(p) ==
    LET message == mqMessages[mqProfiles[p].message]
    IN  /\ mqProfiles[p].message \in DOMAIN mqMessages
        /\ mqProfiles[p].trace = IF AdoptedTrace(message) # MqNone THEN AdoptedTrace(message)
                                 ELSE OwnTrace(p)
MqAllTraced ==
    /\ 1 \in DOMAIN mqProfiles /\ mqProfiles[1].message = 0
    /\ \A p \in DOMAIN mqProfiles \ {1} : MqTraced(p)

MqInv == MqShaped /\ MqAllSent /\ MqAllTraced

LEMMA MqFacts ==
    ASSUME MqShaped
    PROVE  /\ Len(mqProfiles) \in Nat /\ DOMAIN mqProfiles = 1..Len(mqProfiles)
           /\ \A p \in DOMAIN mqProfiles : mqProfiles[p] \in MqProfileRecords
           /\ Len(mqMessages) \in Nat /\ DOMAIN mqMessages = 1..Len(mqMessages)
           /\ Len(mqEntries) \in Nat /\ DOMAIN mqEntries = 1..Len(mqEntries)
BY ElementOfSeq, LenProperties, SeqFacts DEF MqShaped

LEMMA MqConfig ==
    ASSUME MqShaped
    PROVE  /\ mqConfig.publishes \in MqHeaderNames \cup {MqNone} /\ mqConfig.reads \in MqHeaderNames
           /\ mqConfig.header \in MqCallerHeaders /\ mqConfig.correlation \in MqCorrelations
           /\ MqNone \notin Nat /\ MqNone \notin MqTraces /\ MqNone \notin MqHeaderNames
BY MqAssumption DEF MqShaped

(* What the headers of a profile's message hold.                           *)
LEMMA MqHeadersOf ==
    ASSUME MqShaped, NEW p \in DOMAIN mqProfiles
    PROVE  /\ MqTrace(p) = mqProfiles[p].trace /\ MqTrace(p) # MqNone
           /\ MqOwn(p) = <<>> \/ MqOwn(p) = [h \in {mqConfig.reads} |-> mqConfig.header]
           /\ mqConfig.publishes # MqNone =>
                /\ mqConfig.publishes \in DOMAIN MqHeaders(p)
                /\ mqConfig.publishes \notin DOMAIN MqOwn(p) =>
                     MqHeaders(p)[mqConfig.publishes] = MqTrace(p)
           /\ \A h \in DOMAIN MqOwn(p) : h \in DOMAIN MqHeaders(p) /\ MqHeaders(p)[h] = MqOwn(p)[h]
           /\ \A h \in DOMAIN MqHeaders(p) : h \in DOMAIN MqOwn(p) \/ h = mqConfig.publishes
<1>1. mqProfiles[p].trace \in MqCarried /\ p \in Nat /\ MqNone \notin Nat /\ MqNone \notin MqTraces
  BY MqFacts, MqConfig DEF MqProfileRecords
<1>2. MqTrace(p) = mqProfiles[p].trace /\ MqTrace(p) # MqNone
  BY <1>1 DEF MqTrace, MqCarried, MqTraces
<1>3. MqOwn(p) = <<>> \/ MqOwn(p) = [h \in {mqConfig.reads} |-> mqConfig.header]
  BY DEF MqOwn
<1> QED  BY <1>2, <1>3 DEF MqHeaders, WithTraceIdOnMessage

(* What a reader makes of a message.                                       *)
LEMMA MqAdopts ==
    ASSUME MqShaped, NEW call, MqSent(call)
    PROVE  /\ AdoptedTrace(call) = MqNone \/ AdoptedTrace(call) \in MqCarried
           /\ mqConfig.publishes = mqConfig.reads /\ call.by # MqNone =>
                AdoptedTrace(call) =
                  IF call.own = <<>> THEN mqProfiles[call.by].trace
                  ELSE IF mqConfig.header = Written("caller") THEN Written("caller")
                  ELSE IF mqConfig.correlation = Written("rpc") THEN Written("rpc") ELSE MqNone
<1>1. /\ Written("caller") \in MqCarried /\ Written("rpc") \in MqCarried
      /\ Written("caller") # Written("malformed") /\ Written("rpc") # Written("malformed")
      /\ Written("malformed") \in MqTraces /\ Written("malformed") \notin MqCarried
      /\ MqCarried \subseteq MqTraces
  BY DEF Written, MqCarried, MqTraces
<1>2. /\ mqConfig.header \in {MqNone, Written("caller"), Written("malformed")}
      /\ mqConfig.correlation \in {MqNone, Written("rpc"), Written("malformed")}
      /\ MqNone \notin MqTraces /\ mqConfig.reads # MqNone
  BY MqConfig DEF MqCallerHeaders, MqCorrelations
<1>3. /\ call.own = MqOwn(call.by) /\ call.headers = MqHeaders(call.by)
      /\ call.correlation = mqConfig.correlation /\ call.by \in MqSenders
  BY DEF MqSent
<1> PICK onHeader : onHeader = IF mqConfig.reads \in DOMAIN call.headers
                               THEN call.headers[mqConfig.reads] ELSE MqNone
  OBVIOUS
<1>4. AdoptedTrace(call) = IF IsAdoptableTraceId(onHeader) THEN onHeader
                           ELSE IF IsAdoptableTraceId(mqConfig.correlation) THEN mqConfig.correlation
                           ELSE MqNone
  BY <1>3 DEF AdoptedTrace
<1>5. IsAdoptableTraceId(mqConfig.correlation) <=> mqConfig.correlation = Written("rpc")
  BY <1>1, <1>2 DEF IsAdoptableTraceId
<1>6. ASSUME NEW by \in DOMAIN mqProfiles
      PROVE  mqProfiles[by].trace \in MqCarried /\ IsAdoptableTraceId(mqProfiles[by].trace)
  BY <1>1, <1>2, MqFacts DEF MqProfileRecords, IsAdoptableTraceId
<1>7. CASE call.by = MqNone
  <2>1. call.headers = call.own
    BY <1>3, <1>7 DEF MqHeaders, WithTraceIdOnMessage, MqTrace
  <2>2. call.own = <<>> \/ call.own = [h \in {mqConfig.reads} |-> mqConfig.header]
    BY <1>3 DEF MqOwn
  <2>3. onHeader \in {MqNone, mqConfig.header}
    BY <2>1, <2>2
  <2> QED  BY <1>1, <1>2, <1>4, <1>5, <1>7, <2>3 DEF IsAdoptableTraceId
<1>8. CASE call.by # MqNone
  <2> PICK by \in DOMAIN mqProfiles : by = call.by
    BY <1>3, <1>8 DEF MqSenders
  <2>1. call.own = MqOwn(by) /\ call.headers = MqHeaders(by)
    BY <1>3
  <2>2. CASE call.own = <<>>
    <3>1. DOMAIN call.own = {}
      BY <2>2
    <3>2. onHeader = IF mqConfig.publishes = mqConfig.reads THEN MqTrace(by) ELSE MqNone
      BY <1>2, <2>1, <3>1, MqHeadersOf
    <3>3. MqTrace(by) = mqProfiles[by].trace
      BY MqHeadersOf
    <3> QED  BY <1>1, <1>2, <1>4, <1>5, <1>6, <1>8, <2>2, <3>2, <3>3 DEF IsAdoptableTraceId
  <2>3. CASE call.own # <<>>
    <3>1. call.own = [h \in {mqConfig.reads} |-> mqConfig.header]
      BY <2>1, <2>3, MqHeadersOf
    <3>2. mqConfig.reads \in DOMAIN MqOwn(by) /\ MqOwn(by)[mqConfig.reads] = mqConfig.header
      BY <2>1, <3>1
    <3>3. mqConfig.reads \in DOMAIN MqHeaders(by)
          /\ MqHeaders(by)[mqConfig.reads] = MqOwn(by)[mqConfig.reads]
      BY <3>2, MqHeadersOf
    <3>4. onHeader = mqConfig.header
      BY <2>1, <3>2, <3>3
    <3> QED  BY <1>1, <1>2, <1>4, <1>5, <2>3, <3>4 DEF IsAdoptableTraceId
  <2> QED  BY <2>2, <2>3
<1> QED  BY <1>7, <1>8

LEMMA MqEnough == ASSUME MqInv PROVE MessageContinuesTheTrace /\ MqTypeOK
<1>0. MqShaped /\ MqAllSent /\ MqAllTraced
  BY DEF MqInv
<1>1. ASSUME NEW p \in DOMAIN mqProfiles \ {1}, mqConfig.publishes = mqConfig.reads,
             mqMessages[mqProfiles[p].message].by # MqNone
      PROVE  LET message == mqMessages[mqProfiles[p].message]
             IN  mqProfiles[p].trace =
                  IF message.own = <<>> THEN mqProfiles[message.by].trace
                  ELSE IF mqConfig.header = Written("caller") THEN Written("caller")
                  ELSE IF mqConfig.correlation = Written("rpc") THEN Written("rpc")
                  ELSE OwnTrace(p)
  <2> PICK message : message = mqMessages[mqProfiles[p].message]
    OBVIOUS
  <2>1. MqSent(message) /\ MqTraced(p)
    BY <1>0 DEF MqAllSent, MqAllTraced, MqTraced
  <2>2. mqProfiles[p].trace = IF AdoptedTrace(message) # MqNone THEN AdoptedTrace(message)
                              ELSE OwnTrace(p)
    BY <2>1 DEF MqTraced
  <2>3. AdoptedTrace(message) =
                  IF message.own = <<>> THEN mqProfiles[message.by].trace
                  ELSE IF mqConfig.header = Written("caller") THEN Written("caller")
                  ELSE IF mqConfig.correlation = Written("rpc") THEN Written("rpc") ELSE MqNone
    BY <1>0, <1>1, <2>1, MqAdopts
  <2>4. mqProfiles[message.by].trace # MqNone
    <3>1. message.by \in DOMAIN mqProfiles
      BY <1>1, <2>1 DEF MqSent, MqSenders
    <3> QED  BY <1>0, <3>1, MqHeadersOf
  <2>5. Written("caller") # MqNone /\ Written("rpc") # MqNone
    BY <1>0, MqConfig DEF Written, MqTraces
  <2> QED  BY <2>2, <2>3, <2>4, <2>5
<1>2. ASSUME NEW i \in DOMAIN mqEntries, mqConfig.publishes # MqNone
      PROVE  LET e == mqEntries[i]
             IN  /\ mqConfig.publishes \in DOMAIN e.headers
                 /\ (e.profile > 1 \/ mqConfig.header = MqNone \/ mqConfig.publishes # mqConfig.reads)
                     => e.headers[mqConfig.publishes] = MqTrace(e.profile)
  <2> PICK p \in DOMAIN mqProfiles : p = mqEntries[i].profile
    BY <1>0 DEF MqAllSent
  <2>1. mqEntries[i].headers = MqHeaders(p)
    BY <1>0 DEF MqAllSent
  <2>2. mqConfig.publishes \in DOMAIN MqHeaders(p)
    BY <1>0, <1>2, MqHeadersOf
  <2>3. ASSUME p > 1 \/ mqConfig.header = MqNone \/ mqConfig.publishes # mqConfig.reads
        PROVE  mqConfig.publishes \notin DOMAIN MqOwn(p)
    <3>1. p \in Nat /\ p # MqNone
      BY <1>0, MqFacts, MqConfig
    <3> QED  BY <2>3, <3>1 DEF MqOwn
  <2> QED  BY <1>0, <1>2, <2>1, <2>2, <2>3, MqHeadersOf
<1>3. MessageContinuesTheTrace
  BY <1>1, <1>2 DEF MessageContinuesTheTrace
<1>4. ASSUME NEW p \in DOMAIN mqProfiles
      PROVE  /\ mqProfiles[p].state \in {"running", "done", "failed"}
             /\ mqProfiles[p].message \in 0..Len(mqMessages)
  <2>1. mqProfiles[p] \in MqProfileRecords /\ Len(mqMessages) \in Nat
        /\ DOMAIN mqMessages = 1..Len(mqMessages)
    BY <1>0, MqFacts
  <2> QED  BY <1>0, <2>1 DEF MqProfileRecords, MqAllTraced, MqTraced
<1>5. MqTypeOK
  BY <1>0, <1>4 DEF MqTypeOK, MqShaped
<1> QED  BY <1>3, <1>5

(* Profiles come and end; what is said of the messages stays.              *)
MqProfilesGrow ==
    /\ mqConfig' = mqConfig /\ mqProfiles' \in Seq(MqProfileRecords)
    /\ \A p \in DOMAIN mqProfiles : /\ p \in DOMAIN mqProfiles'
                                    /\ mqProfiles'[p].trace = mqProfiles[p].trace
                                    /\ mqProfiles'[p].message = mqProfiles[p].message
LEMMA MqSame ==
    ASSUME MqInv, mqConfig' = mqConfig, mqProfiles' = mqProfiles PROVE MqProfilesGrow
BY DEF MqInv, MqShaped, MqProfilesGrow

LEMMA MqSentStays ==
    ASSUME MqInv, MqProfilesGrow
    PROVE  /\ \A call : MqSent(call) => MqSent(call)'
           /\ \A p \in DOMAIN mqProfiles : MqHeaders(p)' = MqHeaders(p)
<1>1. ASSUME NEW by \in MqSenders
      PROVE  by \in MqSenders' /\ MqOwn(by)' = MqOwn(by) /\ MqHeaders(by)' = MqHeaders(by)
  <2>1. by \in MqSenders'
    BY DEF MqProfilesGrow, MqSenders
  <2>2. MqTrace(by)' = MqTrace(by)
    BY DEF MqProfilesGrow, MqSenders, MqTrace
  <2>3. MqOwn(by)' = MqOwn(by)
    BY DEF MqProfilesGrow, MqOwn
  <2>4. mqConfig' = mqConfig
    BY DEF MqProfilesGrow
  <2> QED  BY <2>1, <2>2, <2>3, <2>4 DEF MqHeaders, WithTraceIdOnMessage
<1>2. mqConfig' = mqConfig
  BY DEF MqProfilesGrow
<1>3. \A p \in DOMAIN mqProfiles : p \in MqSenders
  BY DEF MqSenders
<1> QED  BY <1>1, <1>2, <1>3 DEF MqSent

LEMMA MqTracedStays ==
    ASSUME MqInv, MqProfilesGrow, NEW p \in DOMAIN mqProfiles \ {1},
           \A m \in DOMAIN mqMessages : m \in DOMAIN mqMessages' /\ mqMessages'[m] = mqMessages[m]
    PROVE  MqTraced(p)'
<1>1. MqTraced(p)
  BY DEF MqInv, MqAllTraced
<1> PICK message : message = mqMessages[mqProfiles[p].message]
  OBVIOUS
<1>2. /\ mqProfiles'[p].message \in DOMAIN mqMessages'
      /\ mqMessages'[mqProfiles'[p].message] = message
      /\ mqProfiles'[p].trace = mqProfiles[p].trace
  BY <1>1 DEF MqTraced, MqProfilesGrow
<1>3. AdoptedTrace(message)' = AdoptedTrace(message)
  BY DEF AdoptedTrace, MqProfilesGrow
<1>4. mqProfiles[p].trace = IF AdoptedTrace(message) # MqNone THEN AdoptedTrace(message) ELSE OwnTrace(p)
  BY <1>1 DEF MqTraced
<1> QED  BY <1>2, <1>3, <1>4 DEF MqTraced

LEMMA MqInitially == ASSUME NEW s \in MqScenarios, MqStart(s) PROVE MqInv
<1> PICK first : first = [trace |-> OwnTrace(1), message |-> 0, state |-> "running"]
  OBVIOUS
<1>1. /\ mqConfig = s /\ mqPatched = 0 /\ mqMessages = <<>> /\ mqPublish = {} /\ mqQueue = {}
      /\ mqProfiles = <<first>> /\ mqEntries = <<>> /\ mqStored = {}
  BY DEF MqStart
<1>2. first \in MqProfileRecords /\ first.message = 0
  BY DEF MqProfileRecords, OwnTrace, MqCarried
<1>3. mqProfiles \in Seq(MqProfileRecords) /\ DOMAIN mqProfiles = {1} /\ mqProfiles[1] = first
  BY <1>1, <1>2
<1>4. IsSeq(mqMessages) /\ IsSeq(mqEntries) /\ DOMAIN mqMessages = {} /\ DOMAIN mqEntries = {}
  <2>1. <<>> \in Seq({})
    BY EmptySeq
  <2> QED  BY <1>1, <2>1 DEF IsSeq
<1> QED  BY <1>1, <1>2, <1>3, <1>4 DEF MqInv, MqShaped, MqAllSent, MqAllTraced

LEMMA MqPatches == ASSUME MqInv, PatchPublish PROVE MqInv'
<1>1. /\ mqPatched' = 1 /\ mqConfig' = mqConfig /\ mqMessages' = mqMessages
      /\ mqPublish' = mqPublish /\ mqQueue' = mqQueue /\ mqProfiles' = mqProfiles
      /\ mqEntries' = mqEntries /\ mqStored' = mqStored
  BY DEF PatchPublish
<1>2. MqShaped'
  BY <1>1 DEF MqInv, MqShaped
<1>3. MqProfilesGrow
  BY <1>1, MqSame
<1>4. MqAllSent'
  BY <1>1, <1>3, MqSentStays DEF MqInv, MqAllSent
<1>5. MqAllTraced'
  BY <1>1, <1>3, MqTracedStays DEF MqInv, MqAllTraced
<1> QED  BY <1>2, <1>4, <1>5 DEF MqInv

LEMMA MqUnmoved == ASSUME MqInv, UNCHANGED mqVars PROVE MqInv'
<1>1. /\ mqPatched' = mqPatched /\ mqConfig' = mqConfig /\ mqMessages' = mqMessages
      /\ mqPublish' = mqPublish /\ mqQueue' = mqQueue /\ mqProfiles' = mqProfiles
      /\ mqEntries' = mqEntries /\ mqStored' = mqStored
  BY DEF mqVars
<1>2. MqShaped'
  BY <1>1 DEF MqInv, MqShaped
<1>3. MqProfilesGrow
  BY <1>1, MqSame
<1>4. MqAllSent'
  BY <1>1, <1>3, MqSentStays DEF MqInv, MqAllSent
<1>5. MqAllTraced'
  BY <1>1, <1>3, MqTracedStays DEF MqInv, MqAllTraced
<1> QED  BY <1>2, <1>4, <1>5 DEF MqInv

LEMMA MqPublishes == ASSUME MqInv, NEW by \in DOMAIN mqProfiles \cup {MqNone}, Publish(by) PROVE MqInv'
<1> PICK own : own = IF mqConfig.header = MqNone \/ (by # MqNone /\ by > 1) THEN <<>>
                     ELSE [h \in {mqConfig.reads} |-> mqConfig.header]
  OBVIOUS
<1> PICK call : call = [by |-> by, own |-> own, headers |-> WithTraceIdOnMessage(own, MqTrace(by)),
                        correlation |-> mqConfig.correlation]
  OBVIOUS
<1>1. /\ mqPublish' = mqPublish \cup {call}
      /\ mqPatched' = mqPatched /\ mqConfig' = mqConfig /\ mqMessages' = mqMessages
      /\ mqQueue' = mqQueue /\ mqProfiles' = mqProfiles
      /\ mqEntries' = mqEntries /\ mqStored' = mqStored
  BY DEF Publish
<1>2. MqSent(call)
  BY DEF MqSent, MqSenders, MqOwn, MqHeaders
<1>3. MqShaped'
  BY <1>1 DEF MqInv, MqShaped
<1>4. MqProfilesGrow
  BY <1>1, MqSame
<1>5. MqAllSent'
  BY <1>1, <1>2, <1>4, MqSentStays DEF MqInv, MqAllSent
<1>6. MqAllTraced'
  BY <1>1, <1>4, MqTracedStays DEF MqInv, MqAllTraced
<1> QED  BY <1>3, <1>5, <1>6 DEF MqInv

LEMMA MqAnswers ==
    ASSUME MqInv, NEW call \in mqPublish, NEW outcome \in {"accepted", "refused", "error"},
           BrokerAnswers(call, outcome)
    PROVE  MqInv'
<1> PICK e : e = PublishEntry(call, outcome)
  OBVIOUS
<1>1. /\ mqPublish' = mqPublish \ {call}
      /\ mqEntries' = IF call.by = MqNone THEN mqEntries ELSE Append(mqEntries, e)
      /\ \/ mqMessages' = mqMessages /\ mqQueue' = mqQueue
         \/ /\ mqMessages' = Append(mqMessages, call)
            /\ mqQueue' = mqQueue \cup {Len(mqMessages) + 1}
      /\ mqPatched' = mqPatched /\ mqConfig' = mqConfig
      /\ mqProfiles' = mqProfiles /\ mqStored' = mqStored
  BY DEF BrokerAnswers
<1>2. MqProfilesGrow
  BY <1>1, MqSame
<1>3. MqSent(call) /\ MqShaped /\ MqAllSent
  BY DEF MqInv, MqAllSent
<1>4. /\ IsSeq(mqMessages') /\ mqQueue' \subseteq DOMAIN mqMessages'
      /\ \A m \in DOMAIN mqMessages : m \in DOMAIN mqMessages' /\ mqMessages'[m] = mqMessages[m]
      /\ \A m \in DOMAIN mqMessages' : m \in DOMAIN mqMessages \/ mqMessages'[m] = call
  <2>1. CASE mqMessages' = mqMessages /\ mqQueue' = mqQueue
    BY <1>3, <2>1 DEF MqShaped
  <2>2. CASE /\ mqMessages' = Append(mqMessages, call)
             /\ mqQueue' = mqQueue \cup {Len(mqMessages) + 1}
    <3>1. IsSeq(mqMessages) /\ mqQueue \subseteq DOMAIN mqMessages
      BY <1>3 DEF MqShaped
    <3>2. /\ IsSeq(mqMessages') /\ Len(mqMessages') = Len(mqMessages) + 1
          /\ \A i \in 1..Len(mqMessages) : mqMessages'[i] = mqMessages[i]
          /\ mqMessages'[Len(mqMessages) + 1] = call
      BY <2>2, <3>1, AppendFacts
    <3>3. /\ Len(mqMessages) \in Nat /\ DOMAIN mqMessages = 1..Len(mqMessages)
          /\ DOMAIN mqMessages' = 1..Len(mqMessages')
      BY <3>1, <3>2, SeqFacts
    <3> QED  BY <2>2, <3>1, <3>2, <3>3
  <2> QED  BY <1>1, <2>1, <2>2
<1>5. /\ IsSeq(mqEntries')
      /\ \A i \in DOMAIN mqEntries' : \/ i \in DOMAIN mqEntries /\ mqEntries'[i] = mqEntries[i]
                                      \/ mqEntries'[i] = e /\ call.by # MqNone
  <2>1. CASE call.by = MqNone
    BY <1>1, <1>3, <2>1 DEF MqShaped
  <2>2. CASE call.by # MqNone
    <3>1. IsSeq(mqEntries) /\ mqEntries' = Append(mqEntries, e)
      BY <1>1, <1>3, <2>2 DEF MqShaped
    <3>2. /\ IsSeq(mqEntries') /\ Len(mqEntries') = Len(mqEntries) + 1
          /\ \A i \in 1..Len(mqEntries) : mqEntries'[i] = mqEntries[i]
          /\ mqEntries'[Len(mqEntries) + 1] = e
      BY <3>1, AppendFacts
    <3>3. /\ Len(mqEntries) \in Nat /\ DOMAIN mqEntries = 1..Len(mqEntries)
          /\ DOMAIN mqEntries' = 1..Len(mqEntries')
      BY <3>1, <3>2, SeqFacts
    <3> QED  BY <2>2, <3>2, <3>3
  <2> QED  BY <2>1, <2>2
<1>6. call.by # MqNone => e.profile \in DOMAIN mqProfiles /\ e.headers = MqHeaders(e.profile)
  <2>1. e.profile = call.by /\ e.headers = call.headers
    BY DEF PublishEntry
  <2> QED  BY <1>3, <2>1 DEF MqSent, MqSenders
<1>7. MqShaped'
  BY <1>1, <1>3, <1>4, <1>5 DEF MqShaped
<1>8. MqAllSent'
  <2>1. \A c \in mqPublish' : MqSent(c)'
    BY <1>1, <1>2, <1>3, MqSentStays DEF MqAllSent
  <2>2. \A m \in DOMAIN mqMessages' : MqSent(mqMessages'[m])
    BY <1>3, <1>4 DEF MqAllSent
  <2>3. \A c : MqSent(c) => MqSent(c)'
    BY <1>2, MqSentStays
  <2>4. ASSUME NEW i \in DOMAIN mqEntries'
        PROVE  mqEntries'[i].profile \in DOMAIN mqProfiles
               /\ mqEntries'[i].headers = MqHeaders(mqEntries'[i].profile)
    BY <1>3, <1>5, <1>6 DEF MqAllSent
  <2>5. \A p \in DOMAIN mqProfiles : MqHeaders(p)' = MqHeaders(p)
    BY <1>2, MqSentStays
  <2>6. DOMAIN mqProfiles' = DOMAIN mqProfiles
    BY <1>1
  <2>7. \A m \in DOMAIN mqMessages' : MqSent(mqMessages[m])'
    BY <2>2, <2>3
  <2> QED  BY <2>1, <2>4, <2>5, <2>6, <2>7 DEF MqAllSent
<1>9. MqAllTraced'
  BY <1>1, <1>2, <1>4, MqTracedStays DEF MqInv, MqAllTraced
<1> QED  BY <1>7, <1>8, <1>9 DEF MqInv

LEMMA MqDelivers == ASSUME MqInv, NEW m \in mqQueue, Deliver(m) PROVE MqInv'
<1> PICK adopted, n : adopted = AdoptedTrace(mqMessages[m]) /\ n = Len(mqProfiles) + 1
  OBVIOUS
<1> PICK new : new = [trace |-> IF adopted # MqNone THEN adopted ELSE OwnTrace(n), message |-> m,
                      state |-> "running"]
  OBVIOUS
<1>1. /\ mqQueue' = mqQueue \ {m} /\ mqProfiles' = Append(mqProfiles, new)
      /\ mqPatched' = mqPatched /\ mqConfig' = mqConfig /\ mqMessages' = mqMessages
      /\ mqPublish' = mqPublish /\ mqEntries' = mqEntries /\ mqStored' = mqStored
  BY DEF Deliver
<1>2. MqShaped /\ MqAllSent /\ MqAllTraced
  BY DEF MqInv
<1>3. /\ m \in DOMAIN mqMessages /\ m \in Nat /\ MqSent(mqMessages[m])
      /\ Len(mqProfiles) \in Nat /\ DOMAIN mqProfiles = 1..Len(mqProfiles)
  BY <1>2, MqFacts DEF MqShaped, MqAllSent
<1>4. new \in MqProfileRecords
  <2>1. adopted = MqNone \/ adopted \in MqCarried
    BY <1>2, <1>3, MqAdopts
  <2>2. OwnTrace(n) \in MqCarried
    BY <1>3 DEF OwnTrace, MqCarried
  <2> QED  BY <1>3, <2>1, <2>2 DEF MqProfileRecords
<1>5. /\ mqProfiles' \in Seq(MqProfileRecords) /\ DOMAIN mqProfiles' = DOMAIN mqProfiles \cup {n}
      /\ \A p \in DOMAIN mqProfiles : mqProfiles'[p] = mqProfiles[p]
      /\ mqProfiles'[n] = new /\ n \notin DOMAIN mqProfiles
  <2>1. /\ mqProfiles \in Seq(MqProfileRecords)
        /\ Append(mqProfiles, new) \in Seq(MqProfileRecords)
        /\ Len(Append(mqProfiles, new)) = Len(mqProfiles) + 1
        /\ \A i \in 1..Len(mqProfiles) : Append(mqProfiles, new)[i] = mqProfiles[i]
        /\ Append(mqProfiles, new)[Len(mqProfiles) + 1] = new
    BY <1>2, <1>4, AppendProperties DEF MqShaped
  <2>2. DOMAIN Append(mqProfiles, new) = 1..Len(mqProfiles) + 1
    BY <2>1, LenProperties
  <2> QED  BY <1>1, <1>3, <2>1, <2>2
<1>6. MqProfilesGrow
  BY <1>1, <1>5 DEF MqProfilesGrow
<1>7. MqShaped'
  BY <1>1, <1>2, <1>5 DEF MqShaped
<1>8. MqAllSent'
  <2>1. \A c : MqSent(c) => MqSent(c)'
    BY <1>6, MqSentStays
  <2>2. \A p \in DOMAIN mqProfiles : p \in DOMAIN mqProfiles' /\ MqHeaders(p)' = MqHeaders(p)
    BY <1>5, <1>6, MqSentStays
  <2> QED  BY <1>1, <1>2, <2>1, <2>2 DEF MqAllSent
<1>9. MqTraced(n)'
  <2>1. AdoptedTrace(mqMessages[m])' = adopted
    BY <1>1 DEF AdoptedTrace
  <2> QED  BY <1>1, <1>3, <1>5, <2>1 DEF MqTraced
<1>10. \A p \in DOMAIN mqProfiles \ {1} : MqTraced(p)'
  BY <1>1, <1>6, MqTracedStays
<1>11. MqAllTraced'
  BY <1>2, <1>3, <1>5, <1>9, <1>10 DEF MqAllTraced
<1> QED  BY <1>7, <1>8, <1>11 DEF MqInv

LEMMA MqEnds ==
    ASSUME MqInv, NEW q \in DOMAIN mqProfiles, NEW failed \in BOOLEAN, HandlerEnds(q, failed)
    PROVE  MqInv'
<1> PICK state \in {"done", "failed"} : state = IF failed THEN "failed" ELSE "done"
  OBVIOUS
<1> PICK new : new = [mqProfiles[q] EXCEPT !.state = state]
  OBVIOUS
<1>1. /\ mqProfiles' = [mqProfiles EXCEPT ![q] = new] /\ q > 1
      /\ mqStored' = mqStored \cup {q}
      /\ mqQueue' = IF failed THEN mqQueue \cup {mqProfiles[q].message} ELSE mqQueue
      /\ mqPatched' = mqPatched /\ mqConfig' = mqConfig /\ mqMessages' = mqMessages
      /\ mqPublish' = mqPublish /\ mqEntries' = mqEntries
  BY DEF HandlerEnds
<1>2. MqShaped /\ MqAllSent /\ MqAllTraced
  BY DEF MqInv
<1>3. /\ mqProfiles[q] \in MqProfileRecords /\ new \in MqProfileRecords
      /\ new.trace = mqProfiles[q].trace /\ new.message = mqProfiles[q].message
  <2>1. mqProfiles[q] \in MqProfileRecords
    BY <1>2, MqFacts
  <2> QED  BY <2>1 DEF MqProfileRecords
<1>4. /\ mqProfiles' \in Seq(MqProfileRecords) /\ DOMAIN mqProfiles' = DOMAIN mqProfiles
      /\ mqProfiles'[q] = new /\ \A p \in DOMAIN mqProfiles : p # q => mqProfiles'[p] = mqProfiles[p]
  <2>1. mqProfiles \in Seq(MqProfileRecords) /\ q \in 1..Len(mqProfiles)
    BY <1>2, MqFacts DEF MqShaped
  <2>2. mqProfiles' \in Seq(MqProfileRecords)
    BY <1>1, <1>3, <2>1, ExceptSeq
  <2> QED  BY <1>1, <2>2
<1>5. MqProfilesGrow
  BY <1>1, <1>3, <1>4 DEF MqProfilesGrow
<1>6. mqProfiles[q].message \in DOMAIN mqMessages
  <2>1. q # 1
    BY <1>1, <1>2, MqFacts
  <2> QED  BY <1>2, <2>1 DEF MqAllTraced, MqTraced
<1>7. MqShaped'
  BY <1>1, <1>2, <1>4, <1>6 DEF MqShaped
<1>8. MqAllSent'
  <2>1. \A c : MqSent(c) => MqSent(c)'
    BY <1>5, MqSentStays
  <2>2. \A p \in DOMAIN mqProfiles : p \in DOMAIN mqProfiles' /\ MqHeaders(p)' = MqHeaders(p)
    BY <1>4, <1>5, MqSentStays
  <2> QED  BY <1>1, <1>2, <2>1, <2>2 DEF MqAllSent
<1>9. \A p \in DOMAIN mqProfiles \ {1} : MqTraced(p)'
  BY <1>1, <1>5, MqTracedStays
<1>10. MqAllTraced'
  BY <1>2, <1>3, <1>4, <1>9 DEF MqAllTraced
<1> QED  BY <1>7, <1>8, <1>10 DEF MqInv

LEMMA MqStep == ASSUME MqInv, [MqNext]_mqVars PROVE MqInv'
BY MqPatches, MqPublishes, MqAnswers, MqDelivers, MqEnds, MqUnmoved DEF MqNext

(* Every delivery of a message, the first as well as each redelivery and on*)
(* whatever hop, carries the trace of the profile that published it unless *)
(* its caller wrote another, and what the profile shows of a message is    *)
(* what was sent: for every number of messages and of deliveries.          *)
THEOREM MessagesContinueTheTrace == MqSpec => [](MessageContinuesTheTrace /\ MqTypeOK)
<1>1. MqInit => MqInv
  BY MqInitially DEF MqInit
<1>2. MqInv /\ [MqNext]_mqVars => MqInv'
  BY MqStep
<1>3. MqInv => MessageContinuesTheTrace /\ MqTypeOK
  BY MqEnough
<1> QED  BY <1>1, <1>2, <1>3, PTL DEF MqSpec

-----------------------------------------------------------------------------
(* A list that takes what it does not have stays without repetition.       *)
NoRepeats(s) == IsSeq(s) /\ IsInjective(s)

LEMMA AppendedOnce ==
    ASSUME NEW s, NoRepeats(s), NEW e, ~Contains(s, e)
    PROVE  NoRepeats(Append(s, e)) /\ ToSet(Append(s, e)) = ToSet(s) \cup {e} /\ e \notin ToSet(s)
<1> PICK t : t = Append(s, e)
  OBVIOUS
<1>1. /\ IsSeq(t) /\ Len(t) = Len(s) + 1 /\ \A i \in 1..Len(s) : t[i] = s[i]
      /\ t[Len(s) + 1] = e
  BY AppendFacts DEF NoRepeats
<1>2. /\ Len(s) \in Nat /\ DOMAIN s = 1..Len(s) /\ DOMAIN t = 1..(Len(s) + 1)
  BY <1>1, SeqFacts DEF NoRepeats
<1>3. \A i \in 1..Len(s) : s[i] # e
  BY DEF Contains
<1>4. IsInjective(t)
  BY <1>1, <1>2, <1>3 DEF NoRepeats, IsInjective
<1>5. ToSet(t) = ToSet(s) \cup {e}
  <2>1. \A x \in ToSet(t) : x \in ToSet(s) \cup {e}
    BY <1>1, <1>2 DEF ToSet
  <2>2. ASSUME NEW x \in ToSet(s) PROVE x \in ToSet(t)
    <3>1. PICK i \in 1..Len(s) : x = s[i]
      BY <1>2 DEF ToSet
    <3> QED  BY <1>1, <1>2, <3>1 DEF ToSet
  <2>3. e \in ToSet(t)
    BY <1>1, <1>2 DEF ToSet
  <2> QED  BY <2>1, <2>2, <2>3
<1>6. e \notin ToSet(s)
  BY <1>2, <1>3 DEF ToSet
<1> QED  BY <1>1, <1>4, <1>5, <1>6 DEF NoRepeats

LEMMA EmptyOnce == NoRepeats(<<>>) /\ ToSet(<<>>) = {} /\ Len(<<>>) = 0
BY EmptySeq DEF NoRepeats, IsInjective, IsSeq, ToSet

-----------------------------------------------------------------------------
(* Discovery: a source is registered once.                                 *)
DsInv ==
    /\ dsApp \in DsApps /\ dsSchema \in BOOLEAN
    /\ NoRepeats(dsSources) /\ ToSet(dsSources) \subseteq BuiltinSources \cup {"custom"}
    /\ IsFiniteSet(ToSet(dsSources)) /\ Len(dsSources) = Cardinality(ToSet(dsSources))
    /\ DOMAIN dsGroups = BuiltinSources

LEMMA DsTypes == ASSUME DsInv PROVE DsTypeOK
BY DEF DsInv, DsTypeOK

LEMMA DsInitially == DsInit => DsInv
<1> SUFFICES ASSUME NEW app \in DsApps, DsStart(app) PROVE DsInv
  BY DEF DsInit
<1>1. dsSources = <<>> /\ dsApp \in DsApps /\ dsSchema \in BOOLEAN
  BY DEF DsStart
<1>2. DOMAIN dsGroups = BuiltinSources
  BY DEF DsStart
<1> QED  BY <1>1, <1>2, EmptyOnce, FS_EmptySet DEF DsInv

LEMMA DsRegisters ==
    ASSUME DsInv, NEW source \in BuiltinSources \cup {"custom"}, NEW s, s = RegisterDiscoverSource(source)
    PROVE  /\ NoRepeats(s) /\ ToSet(s) \subseteq BuiltinSources \cup {"custom"}
           /\ IsFiniteSet(ToSet(s)) /\ Len(s) = Cardinality(ToSet(s))
<1>1. CASE s = dsSources
  BY <1>1 DEF DsInv
<1>2. CASE s = Append(dsSources, source) /\ ~Contains(dsSources, source)
  <2>1. NoRepeats(s) /\ ToSet(s) = ToSet(dsSources) \cup {source} /\ source \notin ToSet(dsSources)
    BY <1>2, AppendedOnce DEF DsInv
  <2>2. IsFiniteSet(ToSet(s)) /\ Cardinality(ToSet(s)) = Cardinality(ToSet(dsSources)) + 1
    BY <2>1, FS_AddElement DEF DsInv
  <2>3. Len(s) = Len(dsSources) + 1
    BY <1>2, AppendFacts DEF DsInv, NoRepeats
  <2> QED  BY <2>1, <2>2, <2>3 DEF DsInv
<1> QED  BY <1>1, <1>2 DEF RegisterDiscoverSource

LEMMA DsStep == ASSUME DsInv, [DsNext]_dsVars PROVE DsInv'
<1>1. CASE UNCHANGED dsVars
  BY <1>1 DEF dsVars, DsInv
<1>2. ASSUME NEW source \in HookSources, BootstrapSource(source) PROVE DsInv'
  <2>1. /\ dsSources' = RegisterDiscoverSource(source) /\ DOMAIN dsGroups' = DOMAIN dsGroups
        /\ dsApp' = dsApp /\ dsSchema' = dsSchema
    BY <1>2 DEF BootstrapSource
  <2>2. source \in BuiltinSources \cup {"custom"}
    BY DEF HookSources
  <2> PICK s : s = RegisterDiscoverSource(source)
    OBVIOUS
  <2>3. /\ NoRepeats(s) /\ ToSet(s) \subseteq BuiltinSources \cup {"custom"}
        /\ IsFiniteSet(ToSet(s)) /\ Len(s) = Cardinality(ToSet(s))
    BY <2>2, DsRegisters
  <2> QED  BY <2>1, <2>3 DEF DsInv
<1>3. ASSUME NEW source \in {"graphql", "custom"}, Register(source) PROVE DsInv'
  <2>1. /\ dsSources' = RegisterDiscoverSource(source) /\ dsGroups' = dsGroups
        /\ dsApp' = dsApp /\ dsSchema' = dsSchema
    BY <1>3 DEF Register
  <2>2. source \in BuiltinSources \cup {"custom"}
    BY DEF BuiltinSources
  <2> PICK s : s = RegisterDiscoverSource(source)
    OBVIOUS
  <2>3. /\ NoRepeats(s) /\ ToSet(s) \subseteq BuiltinSources \cup {"custom"}
        /\ IsFiniteSet(ToSet(s)) /\ Len(s) = Cardinality(ToSet(s))
    BY <2>2, DsRegisters
  <2> QED  BY <2>1, <2>3 DEF DsInv
<1>4. CASE BuildSchema
  BY <1>4 DEF BuildSchema, DsInv
<1>5. CASE RenderHome
  <2>1. DOMAIN dsGroups' = DOMAIN dsGroups
    BY <1>5 DEF RenderHome
  <2>2. dsApp' = dsApp /\ dsSchema' = dsSchema /\ dsSources' = dsSources
    BY <1>5 DEF RenderHome
  <2> QED  BY <2>1, <2>2 DEF DsInv
<1> QED  BY <1>1, <1>2, <1>3, <1>4, <1>5 DEF DsNext

-----------------------------------------------------------------------------
(* ModuleWiring: the core's lists hold nothing twice.                      *)
WiCollectors ==
    {"RouteCollector", "RuntimeCollector", "HttpClientCollector", "AiCollector",
     "RabbitMqPublishCollector", "EventEmitterCollector", "CacheCollector", "RoutesCollector",
     "TypeOrmCollector", "TypeOrmSchemaCollector", "MikroOrmCollector", "MikroOrmSchemaCollector",
     "MongooseCollector", "MongooseSchemaCollector", "AuthCollector", "ConfigCollector",
     "ValidatorCollector"}

WiInv ==
    /\ wiHost \in WiHosts
    /\ wiStage \in {"built", "failed", "instantiated", "configured", "routed", "started"}
    /\ \A list \in DOMAIN wiCore : NoRepeats(wiCore[list])
    /\ wiBooted \subseteq Hooked

LEMMA WiTypes == ASSUME WiInv PROVE WiTypeOK
BY DEF WiInv, WiTypeOK, NoRepeats

(* There are only so many collectors to be discovered.                     *)
CollectsKnown(providers) == \A p \in providers : p.collects => p.name \in WiCollectors
NestNames == {"DiscoveryModule", "ClsModule"}
AllKnown(shape) ==
    /\ CollectsKnown(shape.providers) /\ CollectsKnown(shape.kept)
    /\ shape.imports \subseteq NestNames

LEMMA ShapesKnown ==
    ASSUME NEW host, NEW name \in DOMAIN Shapes(host)
    PROVE  AllKnown(Shapes(host)[name])
<1> USE DEF AllKnown, CollectsKnown, NestNames, ModuleShape, Provider, Collecting, Simple, Discovering
<1>1. AllKnown(HttpShape(host.instruments))
  BY DEF HttpShape, WiCollectors
<1>2. AllKnown(AiModuleShape(host.instruments))
  BY DEF AiModuleShape, WiCollectors
<1>3. AllKnown(GraphqlShape)
  BY DEF GraphqlShape, WiCollectors
<1>4. AllKnown(RabbitMqShape)
  BY DEF RabbitMqShape, WiCollectors
<1>5. AllKnown(RabbitMqPublishShape)
  BY DEF RabbitMqPublishShape, WiCollectors
<1>6. AllKnown(EventEmitterShape)
  BY DEF EventEmitterShape, WiCollectors
<1>7. AllKnown(CommanderShape)
  BY DEF CommanderShape, WiCollectors
<1>8. AllKnown(CacheShape)
  BY DEF CacheShape, WiCollectors
<1>9. AllKnown(RoutesShape)
  BY DEF RoutesShape, WiCollectors
<1>10. AllKnown(TypeOrmShape)
  BY DEF TypeOrmShape, WiCollectors
<1>11. AllKnown(TypeOrmSchemaShape)
  BY DEF TypeOrmSchemaShape, WiCollectors
<1>12. AllKnown(MikroOrmShape)
  BY DEF MikroOrmShape, WiCollectors
<1>13. AllKnown(MikroOrmSchemaShape)
  BY DEF MikroOrmSchemaShape, WiCollectors
<1>14. AllKnown(MongooseShape)
  BY DEF MongooseShape, WiCollectors
<1>15. AllKnown(MongooseSchemaShape)
  BY DEF MongooseSchemaShape, WiCollectors
<1>16. AllKnown(AuthShape)
  BY DEF AuthShape, WiCollectors
<1>17. AllKnown(ConfigShape)
  BY DEF ConfigShape, WiCollectors
<1>18. AllKnown(ValidatorShape)
  BY DEF ValidatorShape, WiCollectors
<1> QED
  BY ONLY <1>1, <1>2, <1>3, <1>4, <1>5, <1>6, <1>7, <1>8, <1>9, <1>10, <1>11, <1>12, <1>13, <1>14, <1>15, <1>16, <1>17, <1>18 DEF Shapes

WiNamed == {"core", "noop"} \cup DOMAIN Shapes(wiHost) \cup NestNames

LEMMA ModuleKnown ==
    ASSUME NEW name \in WiNamed
    PROVE  CollectsKnown(Module(name).providers) /\ Module(name).imports \subseteq NestNames
<1>1. CASE name = "core"
  <2>1. /\ CollectsKnown(ProfilerModule(wiHost.isGlobal).providers)
        /\ ProfilerModule(wiHost.isGlobal).imports \subseteq NestNames
    BY DEF CollectsKnown, NestNames, ProfilerModule, Provider, Collecting, Simple, WiCollectors
  <2>2. /\ CollectsKnown(InertProfiler(wiHost.isGlobal).providers)
        /\ InertProfiler(wiHost.isGlobal).imports \subseteq NestNames
    BY DEF CollectsKnown, NestNames, InertProfiler, TracerAlone, Provider, Simple
  <2>3. Module(name) \in {ProfilerModule(wiHost.isGlobal), InertProfiler(wiHost.isGlobal)}
    BY <1>1 DEF Module
  <2> QED  BY <2>1, <2>2, <2>3
<1>2. CASE name = "noop"
  <2>1. Module(name) = ProfilerNoopModule(wiHost.isGlobal)
    BY <1>2 DEF Module
  <2> QED  BY <2>1 DEF CollectsKnown, ProfilerNoopModule, TracerAlone, Provider, Simple
<1>3. CASE name \in NestNames
  <2>1. Module(name) = NestModules[name] /\ name \in DOMAIN NestModules
    BY <1>3 DEF Module, NestNames, NestModules
  <2>2. /\ CollectsKnown(NestModules[name].providers)
        /\ NestModules[name].imports \subseteq NestNames
    BY <1>3 DEF NestModules, NestNames, CollectsKnown, Provider, Simple
  <2> QED  BY <2>1, <2>2
<1>4. CASE name \in DOMAIN Shapes(wiHost)
  <2>1. AllKnown(Shapes(wiHost)[name])
    BY <1>4, ShapesKnown
  <2>2. name \notin {"core", "noop"} /\ name \notin DOMAIN NestModules
    BY <1>4 DEF Shapes, NestModules
  <2>3. Module(name) = BuildCollectorModule(Shapes(wiHost)[name], IsOn(name))
    BY <2>2 DEF Module
  <2> PICK shape : shape = Shapes(wiHost)[name]
    OBVIOUS
  <2>4. /\ Module(name).providers \in {shape.providers, shape.kept}
        /\ Module(name).imports \in {shape.imports, {}}
    BY <2>3 DEF BuildCollectorModule
  <2> QED  BY <2>1, <2>4 DEF AllKnown
<1> QED  BY <1>1, <1>2, <1>3, <1>4 DEF WiNamed

LEMMA CollectorsFinite == IsFiniteSet(WiCollectors)
<1> DEFINE listed ==
    <<"RouteCollector", "RuntimeCollector", "HttpClientCollector", "AiCollector",
      "RabbitMqPublishCollector", "EventEmitterCollector", "CacheCollector", "RoutesCollector",
      "TypeOrmCollector", "TypeOrmSchemaCollector", "MikroOrmCollector", "MikroOrmSchemaCollector",
      "MongooseCollector", "MongooseSchemaCollector", "AuthCollector", "ConfigCollector",
      "ValidatorCollector">>
<1>1. /\ listed \in [1..17 -> WiCollectors]
      /\ \A c \in WiCollectors : \E i \in 1..17 : listed[i] = c
  BY DEF WiCollectors
<1> HIDE DEF listed
<1>2. listed \in Surjection(1..17, WiCollectors)
  BY <1>1 DEF Surjection
<1>3. IsFiniteSet(1..17)
  <2>1. 1 \in Int /\ 17 \in Int
    OBVIOUS
  <2> QED  BY ONLY <2>1, FS_Interval
<1> QED  BY ONLY <1>2, <1>3, FS_Surjection

LEMMA DiscoveredFinite == ASSUME WiInv PROVE IsFiniteSet(Discovered)
<1>1. DOMAIN wiHost.modules \subseteq WiNamed
  BY WiAssumption DEF WiInv, WiNamed
<1>2. Modules \subseteq WiNamed
  BY <1>1, ModuleKnown DEF Modules, WiNamed
<1>3. \A name \in Modules : \A p \in Module(name).providers : p.collects => p.name \in WiCollectors
  BY <1>2, ModuleKnown DEF CollectsKnown
<1>4. Discovered \subseteq WiCollectors
  BY <1>3 DEF Discovered
<1> QED  BY <1>4, CollectorsFinite, FS_Subset

LEMMA ListedOnce == ASSUME NEW S, IsFiniteSet(S) PROVE NoRepeats(SetToSeq(S))
<1>1. Cardinality(S) \in Nat /\ ExistsBijection(1..Cardinality(S), S)
  BY FS_CardinalityType
<1>2. \E f \in [1..Cardinality(S) -> S] : IsInjective(f)
  BY <1>1 DEF ExistsBijection, Bijection, Injection, IsInjective
<1> PICK s : s = SetToSeq(S)
  OBVIOUS
<1>3. s \in [1..Cardinality(S) -> S] /\ IsInjective(s)
  BY <1>2 DEF SetToSeq
<1>4. IsSeq(s)
  BY <1>1, <1>3, FunIsSeq
<1> QED  BY <1>3, <1>4 DEF NoRepeats

LEMMA WiInitially == WiInit => WiInv
<1> SUFFICES ASSUME NEW host \in WiHosts, WiStart(host) PROVE WiInv
  BY DEF WiInit
<1>1. \A list \in DOMAIN wiCore : wiCore[list] = <<>>
  BY DEF WiStart
<1>2. wiStage = "built" /\ wiHost = host /\ wiBooted = {}
  BY DEF WiStart
<1> QED  BY <1>1, <1>2, EmptyOnce DEF WiInv

LEMMA WiRegisters ==
    ASSUME WiInv, NEW name, NEW items, NEW core, core = RegisterAll(name, items)
    PROVE  \A list \in DOMAIN core : NoRepeats(core[list])
<1>1. ASSUME NEW list \in DOMAIN wiCore PROVE NoRepeats(Once(wiCore[list], name))
  <2>1. NoRepeats(wiCore[list])
    BY <1>1 DEF WiInv
  <2>2. CASE Contains(wiCore[list], name)
    BY <2>1, <2>2 DEF Once
  <2>3. CASE ~Contains(wiCore[list], name)
    BY <2>1, <2>3, AppendedOnce DEF Once
  <2> QED  BY <2>2, <2>3
<1>2. CASE core = wiCore
  BY <1>2 DEF WiInv
<1>3. CASE core = [list \in DOMAIN wiCore |->
                     IF <<list, name>> \in items THEN Once(wiCore[list], name) ELSE wiCore[list]]
  <2>1. \A list \in DOMAIN core :
          list \in DOMAIN wiCore /\ core[list] \in {Once(wiCore[list], name), wiCore[list]}
    BY <1>3
  <2>2. \A list \in DOMAIN wiCore : NoRepeats(wiCore[list])
    BY DEF WiInv
  <2> QED  BY <1>1, <2>1, <2>2
<1> QED  BY <1>2, <1>3 DEF RegisterAll

LEMMA WiStep == ASSUME WiInv, [WiNext]_wiVars PROVE WiInv'
<1>1. CASE UNCHANGED wiVars
  BY <1>1 DEF wiVars, WiInv, Hooked
<1>2. CASE Instantiate
  BY <1>2 DEF Instantiate, WiInv, Hooked
<1>3. CASE Configure
  BY <1>3 DEF Configure, WiInv, Hooked
<1>4. CASE RegisterRouter
  BY <1>4 DEF RegisterRouter, WiInv, Hooked
<1>5. CASE Listen
  BY <1>5 DEF Listen, WiInv, Hooked
<1>6. ASSUME NEW specifier, LoadOptionalPeer(specifier) PROVE WiInv'
  BY <1>6 DEF LoadOptionalPeer, WiInv, Hooked
<1>7. ASSUME NEW name, OnModuleInit(name) PROVE WiInv'
  <2>1. wiHost' = wiHost /\ wiStage' = wiStage /\ wiBooted' = wiBooted
    BY <1>7 DEF OnModuleInit
  <2>2. CASE wiCore' = [wiCore EXCEPT !.collectors = SetToSeq(Discovered)]
    <3> PICK found : found = SetToSeq(Discovered)
      OBVIOUS
    <3>1. NoRepeats(found)
      BY DiscoveredFinite, ListedOnce
    <3>2. \A list \in DOMAIN wiCore' : list \in DOMAIN wiCore /\ wiCore'[list] \in {found, wiCore[list]}
      BY <2>2
    <3>3. \A list \in DOMAIN wiCore' : NoRepeats(wiCore'[list])
      BY <3>1, <3>2 DEF WiInv
    <3> QED  BY <2>1, <3>3 DEF WiInv, Hooked
  <2>3. CASE wiCore' = RegisterAll(name, AtInit(name))
    <3> PICK core : core = RegisterAll(name, AtInit(name))
      OBVIOUS
    <3>1. \A list \in DOMAIN core : NoRepeats(core[list])
      BY WiRegisters
    <3> QED  BY <2>1, <2>3, <3>1 DEF WiInv, Hooked
  <2> QED  BY <1>7, <2>2, <2>3 DEF OnModuleInit
<1>8. ASSUME NEW name, OnApplicationBootstrap(name) PROVE WiInv'
  <2>1. /\ wiHost' = wiHost /\ wiStage' = wiStage /\ wiBooted' = wiBooted \cup {name}
        /\ name \in Hooked /\ wiCore' = RegisterAll(name, AtBootstrap(name))
    BY <1>8 DEF OnApplicationBootstrap
  <2> PICK core : core = RegisterAll(name, AtBootstrap(name))
    OBVIOUS
  <2>2. \A list \in DOMAIN core : NoRepeats(core[list])
    BY WiRegisters
  <2> QED  BY <2>1, <2>2 DEF WiInv, Hooked
<1> QED  BY <1>1, <1>2, <1>3, <1>4, <1>5, <1>6, <1>7, <1>8 DEF WiNext

-----------------------------------------------------------------------------
(* AxiosCalls: what is recorded tells of an attempt that was made.         *)
AxFields == {"stage", "attempt", "place", "outer", "config", "result"}
AxResult(result, attempt) ==
    /\ result = [ok |-> result.ok, attempt |-> result.attempt, known |-> result.known]
    /\ result.attempt \in 0..attempt

AxTyped ==
    /\ axScenario.retries \in Nat
    /\ axCall = [f \in AxFields |-> axCall[f]]
    /\ axCall.stage \in {"unsent", "sent", "answered", "done"}
    /\ axCall.attempt \in 0..(axScenario.retries + 1)
    /\ axCall.stage = "unsent" <=> axCall.attempt = 0
    /\ AxResult(axCall.result, axCall.attempt)
    /\ axCall.stage = "answered" => axCall.result.attempt > 0

AxListed ==
    /\ IsSeq(axRecorded)
    /\ axPanel = <<>> \/ IsSeq(axPanel[1])
    /\ \A i \in DOMAIN axRecorded : axRecorded[i].told \in 1..axCall.attempt

AxInv == AxTyped /\ AxListed

LEMMA AxTypes == ASSUME AxInv PROVE AxTypeOK
<1>1. IsSeq(PanelEntries)
  <2>1. IsSeq(axRecorded) /\ (axPanel = <<>> \/ IsSeq(axPanel[1]))
    BY DEF AxInv, AxListed
  <2>2. PanelEntries = (IF axPanel = <<>> THEN axRecorded ELSE axPanel[1])
    BY DEF PanelEntries
  <2>3. CASE axPanel = <<>>
    BY ONLY <2>1, <2>2, <2>3
  <2>4. CASE axPanel # <<>>
    BY ONLY <2>1, <2>2, <2>4
  <2> QED  BY <2>3, <2>4
<1>2. Len(PanelEntries) # AxNone
  BY <1>1, SeqFacts, AxAssumption
<1> QED  BY <1>2 DEF AxInv, AxTyped, AxListed, AxTypeOK, CallsBadge

LEMMA AxInitially == AxInit => AxInv
<1> SUFFICES ASSUME NEW scenario \in AxScenarios, AxStart(scenario) PROVE AxInv
  BY DEF AxInit
<1>1. axScenario.retries \in Nat
  BY AxAssumption DEF AxStart
<1>2. axCall = [f \in AxFields |-> axCall[f]] /\ axCall.result = [ok |-> TRUE, attempt |-> 0, known |-> TRUE]
      /\ axCall.stage = "unsent" /\ axCall.attempt = 0
  BY DEF AxStart, AxFields
<1>3. AxTyped
  BY <1>1, <1>2 DEF AxTyped, AxResult
<1>4. IsSeq(<<>>) /\ DOMAIN <<>> = {}
  BY EmptySeq DEF IsSeq
<1>5. axRecorded = <<>> /\ axPanel = <<>>
  BY DEF AxStart
<1> QED  BY <1>3, <1>4, <1>5 DEF AxInv, AxListed

(* A further attempt.                                                      *)
LEMMA AxBegins ==
    ASSUME NEW call, call = [f \in AxFields |-> call[f]], NEW next, next = BeginAttempt(call),
           call.attempt \in Nat, AxResult(call.result, call.attempt)
    PROVE  /\ next = [f \in AxFields |-> next[f]]
           /\ next.stage \in {"answered", "sent"} /\ next.attempt = call.attempt + 1
           /\ AxResult(next.result, next.attempt)
           /\ next.stage = "answered" => next.result.attempt = next.attempt
<1> DEFINE ours == AxPatched /\ ~RequestInterceptorThrew("before")
           config == IF ours THEN [call.config EXCEPT !.start = axNow, !.body = call.config.data]
                     ELSE call.config
           thrown == RequestInterceptorThrew("before") \/ RequestInterceptorThrew("after")
           sends == IF thrown THEN config ELSE [config EXCEPT !.data = "serialised"]
           failed == [ok |-> FALSE, attempt |-> call.attempt + 1, known |-> FALSE]
<1>1. next = [call EXCEPT !.attempt = @ + 1, !.stage = IF thrown THEN "answered" ELSE "sent",
                          !.place = 1, !.result = IF thrown THEN failed ELSE @, !.config = sends]
  BY DEF BeginAttempt
<1> HIDE DEF sends, thrown
<1>2. failed = [ok |-> failed.ok, attempt |-> failed.attempt, known |-> failed.known]
      /\ failed.attempt = call.attempt + 1
  OBVIOUS
<1> HIDE DEF failed
<1>3. DOMAIN call = AxFields
  OBVIOUS
<1>4. /\ next = [f \in AxFields |-> next[f]] /\ next.attempt = call.attempt + 1
      /\ next.stage = (IF thrown THEN "answered" ELSE "sent")
      /\ next.result = (IF thrown THEN failed ELSE call.result)
  BY <1>1, <1>3 DEF AxFields
<1>5. CASE thrown
  BY <1>2, <1>4, <1>5 DEF AxResult
<1>6. CASE ~thrown
  BY <1>4, <1>6 DEF AxResult
<1> QED  BY <1>5, <1>6

(* The entries recorded so far stay true of a call that went on.           *)
LEMMA AxStays ==
    ASSUME AxListed, axRecorded' = axRecorded, axPanel' = axPanel,
           axCall.attempt \in Nat, axCall'.attempt \in {axCall.attempt, axCall.attempt + 1}
    PROVE  AxListed'
BY DEF AxListed

LEMMA AxStep == ASSUME AxInv, [AxNext]_axVars PROVE AxInv'
<1>0. /\ axScenario.retries \in Nat /\ axCall = [f \in AxFields |-> axCall[f]]
      /\ axCall.attempt \in Nat /\ AxResult(axCall.result, axCall.attempt)
      /\ axCall.attempt <= axScenario.retries + 1
      /\ axCall.stage = "unsent" <=> axCall.attempt = 0
  BY DEF AxInv, AxTyped
<1>1. CASE UNCHANGED axVars
  BY <1>1 DEF axVars, AxInv, AxTyped, AxListed
<1>2. ASSUME NEW app, InstallAxios(app) PROVE AxInv'
  BY <1>2 DEF InstallAxios, AxInv, AxTyped, AxListed
<1>3. CASE AxSend
  <2>1. axCall' = BeginAttempt(axCall) /\ axScenario' = axScenario /\ axCall.attempt = 0
        /\ axRecorded' = axRecorded /\ axPanel' = axPanel
    BY <1>0, <1>3 DEF AxSend
  <2> PICK next : next = BeginAttempt(axCall)
    OBVIOUS
  <2>2. /\ next = [f \in AxFields |-> next[f]]
        /\ next.stage \in {"answered", "sent"} /\ next.attempt = 1
        /\ AxResult(next.result, next.attempt)
        /\ next.stage = "answered" => next.result.attempt = next.attempt
    BY <1>0, <2>1, AxBegins
  <2>3. AxTyped'
    BY <1>0, <2>1, <2>2 DEF AxTyped
  <2> QED  BY <2>1, <2>2, <2>3, AxStays DEF AxInv
<1>4. CASE AxAnswer
  <2>1. /\ axCall.stage = "sent" /\ axScenario' = axScenario
        /\ axRecorded' = axRecorded /\ axPanel' = axPanel
    BY <1>4 DEF AxAnswer
  <2> PICK next, good : next = [axCall EXCEPT !.stage = "answered",
                       !.result = [ok |-> good, attempt |-> axCall.attempt, known |-> TRUE]]
             /\ axCall' = next
    BY <1>4 DEF AxAnswer
  <2>2. /\ next = [f \in AxFields |-> next[f]]
        /\ next.stage = "answered" /\ next.attempt = axCall.attempt
        /\ next.result = [ok |-> good, attempt |-> axCall.attempt, known |-> TRUE]
    BY <1>0 DEF AxFields
  <2>3. AxResult(next.result, next.attempt) /\ next.result.attempt = axCall.attempt
    BY <1>0, <2>2 DEF AxResult
  <2>4. AxTyped'
    <3>1. axCall.attempt # 0 /\ next.result.attempt > 0 /\ axScenario' = axScenario /\ axCall' = next
      BY <1>0, <2>1, <2>2, <2>3
    <3> QED  BY ONLY <1>0, <2>2, <2>3, <3>1 DEF AxTyped
  <2> QED  BY <1>0, <2>1, <2>2, <2>4, AxStays DEF AxInv
<1>5. CASE CaptureAttempt
  <2>1. /\ axCall.stage = "answered" /\ axScenario' = axScenario /\ axPanel' = axPanel
    BY <1>5 DEF CaptureAttempt, AxHandling
  <2> PICK next : next = [axCall EXCEPT !.place = @ + 1] /\ axCall' = next
    BY <1>5 DEF CaptureAttempt
  <2>2. /\ next = [f \in AxFields |-> next[f]] /\ next.stage = "answered"
        /\ next.attempt = axCall.attempt /\ next.result = axCall.result
    BY <1>0, <2>1 DEF AxFields
  <2>3. AxTyped'
    BY <1>0, <2>1, <2>2 DEF AxTyped, AxInv
  <2> PICK entry : entry = CaptureEntry(axCall.result, RequestConfig(axCall.result))
    OBVIOUS
  <2>4. entry.told = axCall.result.attempt
    BY DEF CaptureEntry
  <2>5. entry.told \in 1..axCall.attempt
    BY <1>0, <2>1, <2>4 DEF AxInv, AxTyped, AxResult
  <2>6. axRecorded' = Append(axRecorded, entry) \/ axRecorded' = axRecorded
    BY <1>5 DEF CaptureAttempt
  <2>7. CASE axRecorded' = Append(axRecorded, entry)
    <3> PICK more : more = Append(axRecorded, entry)
      OBVIOUS
    <3>0. IsSeq(axRecorded)
      BY DEF AxInv, AxListed
    <3>1. /\ IsSeq(more) /\ DOMAIN more = 1..(Len(axRecorded) + 1) /\ Len(axRecorded) \in Nat
          /\ more[Len(axRecorded) + 1] = entry
          /\ \A i \in 1..Len(axRecorded) : more[i] = axRecorded[i]
          /\ DOMAIN axRecorded = 1..Len(axRecorded)
      <4>1. /\ IsSeq(more) /\ Len(more) = Len(axRecorded) + 1
            /\ more[Len(axRecorded) + 1] = entry
            /\ \A i \in 1..Len(axRecorded) : more[i] = axRecorded[i]
        BY <3>0, AppendFacts
      <4>2. DOMAIN more = 1..Len(more) /\ Len(axRecorded) \in Nat /\ DOMAIN axRecorded = 1..Len(axRecorded)
        BY ONLY <3>0, <4>1, SeqFacts
      <4> QED  BY <4>1, <4>2
    <3>2. \A i \in DOMAIN more : more[i].told \in 1..axCall.attempt
      BY <2>5, <3>1 DEF AxInv, AxListed
    <3> QED  BY <2>1, <2>2, <2>3, <2>7, <3>1, <3>2 DEF AxInv, AxListed
  <2>8. CASE axRecorded' = axRecorded
    BY <1>0, <2>1, <2>2, <2>3, <2>8, AxStays DEF AxInv
  <2> QED  BY <2>6, <2>7, <2>8
<1>6. CASE HostMaps
  <2>1. /\ axCall.stage = "answered" /\ axScenario' = axScenario
        /\ axRecorded' = axRecorded /\ axPanel' = axPanel
    BY <1>6 DEF HostMaps, AxHandling
  <2> PICK refused : refused = [axCall.result EXCEPT !.ok = FALSE, !.known = FALSE]
    OBVIOUS
  <2>2. AxResult(refused, axCall.attempt) /\ refused.attempt = axCall.result.attempt
    <3>1. axCall.result = [ok |-> axCall.result.ok, attempt |-> axCall.result.attempt,
                           known |-> axCall.result.known]
      BY <1>0 DEF AxResult
    <3>2. refused = [ok |-> FALSE, attempt |-> axCall.result.attempt, known |-> FALSE]
      BY <3>1
    <3> QED  BY <1>0, <3>2 DEF AxResult
  <2> PICK result : result \in {refused, axCall.result} /\
                    axCall' = [axCall EXCEPT !.place = @ + 1, !.result = result]
    BY <1>6 DEF HostMaps
  <2> PICK next : next = [axCall EXCEPT !.place = @ + 1, !.result = result] /\ axCall' = next
    OBVIOUS
  <2>3. /\ next = [f \in AxFields |-> next[f]] /\ next.stage = "answered"
        /\ next.attempt = axCall.attempt /\ next.result = result
    BY <1>0, <2>1 DEF AxFields
  <2>4. AxResult(result, axCall.attempt) /\ result.attempt = axCall.result.attempt
    BY <1>0, <2>2
  <2>5. AxTyped'
    BY <1>0, <2>1, <2>3, <2>4 DEF AxTyped, AxInv
  <2> QED  BY <1>0, <2>1, <2>3, <2>5, AxStays DEF AxInv
<1>7. CASE HostRetries
  <2>1. /\ axCall.stage = "answered" /\ axScenario' = axScenario
        /\ axRecorded' = axRecorded /\ axPanel' = axPanel
    BY <1>7 DEF HostRetries, AxHandling
  <2>2. CASE HostMayRetry
    <3> PICK again : again = [axCall EXCEPT !.outer = <<@, axCall.place>>]
      OBVIOUS
    <3>1. /\ again = [f \in AxFields |-> again[f]] /\ again.attempt = axCall.attempt
          /\ again.result = axCall.result
      BY <1>0 DEF AxFields
    <3> PICK next : next = BeginAttempt(again)
      OBVIOUS
    <3>2. /\ next = [f \in AxFields |-> next[f]]
          /\ next.stage \in {"answered", "sent"} /\ next.attempt = axCall.attempt + 1
          /\ AxResult(next.result, next.attempt)
          /\ next.stage = "answered" => next.result.attempt = next.attempt
      <4>1. AxResult(again.result, again.attempt) /\ again.attempt \in Nat
        BY <1>0, <3>1
      <4>2. /\ next = [f \in AxFields |-> next[f]]
            /\ next.stage \in {"answered", "sent"} /\ next.attempt = again.attempt + 1
            /\ AxResult(next.result, next.attempt)
            /\ next.stage = "answered" => next.result.attempt = next.attempt
        <5>1. next = BeginAttempt(again)
          OBVIOUS
        <5> QED  BY ONLY <3>1, <4>1, <5>1, AxBegins
      <4> QED  BY <3>1, <4>2
    <3>3. axCall' = next
      BY <1>7, <2>2 DEF HostRetries
    <3>4. axCall.attempt <= axScenario.retries
      BY <2>2 DEF HostMayRetry
    <3>5. AxTyped'
      BY <1>0, <2>1, <3>2, <3>3, <3>4 DEF AxTyped
    <3> QED  BY <1>0, <2>1, <3>2, <3>3, <3>5, AxStays DEF AxInv
  <2>3. CASE ~HostMayRetry
    <3> PICK next : next = [axCall EXCEPT !.place = @ + 1] /\ axCall' = next
      BY <1>7, <2>3 DEF HostRetries
    <3>1. /\ next = [f \in AxFields |-> next[f]] /\ next.stage = "answered"
          /\ next.attempt = axCall.attempt /\ next.result = axCall.result
      BY <1>0, <2>1 DEF AxFields
    <3>2. AxTyped'
      BY <1>0, <2>1, <3>1 DEF AxTyped, AxInv
    <3> QED  BY <1>0, <2>1, <3>1, <3>2, AxStays DEF AxInv
  <2> QED  BY <2>2, <2>3
<1>8. CASE AxChainEnds
  <2>1. /\ axCall.stage = "answered" /\ axScenario' = axScenario
        /\ axRecorded' = axRecorded /\ axPanel' = axPanel
    BY <1>8 DEF AxChainEnds
  <2> PICK next : /\ next = [axCall EXCEPT !.stage = "done"]
                     \/ next = [axCall EXCEPT !.outer = axCall.outer[1], !.place = axCall.outer[2] + 1]
                  /\ axCall' = next
    BY <1>8 DEF AxChainEnds
  <2>2. /\ next = [f \in AxFields |-> next[f]] /\ next.stage \in {"answered", "done"}
        /\ next.attempt = axCall.attempt /\ next.result = axCall.result
    BY <1>0, <2>1 DEF AxFields
  <2>3. AxTyped'
    BY <1>0, <2>1, <2>2 DEF AxTyped, AxInv
  <2> QED  BY <1>0, <2>1, <2>2, <2>3, AxStays DEF AxInv
<1>9. CASE CollectCalls
  <2>1. IsSeq(axPanel'[1])
    <3>1. Len(axRecorded) \in Nat
      BY SeqFacts DEF AxInv, AxListed
    <3> QED  BY <1>9, <3>1, FunIsSeq DEF CollectCalls
  <2>2. IsSeq(axRecorded') /\ DOMAIN axRecorded' = {}
    BY <1>9 DEF CollectCalls, IsSeq
  <2> QED  BY <1>9, <2>1, <2>2 DEF CollectCalls, AxInv, AxTyped, AxListed
<1> QED  BY <1>1, <1>2, <1>3, <1>4, <1>5, <1>6, <1>7, <1>8, <1>9 DEF AxNext

-----------------------------------------------------------------------------
(* AxiosCalls: how many entries there are is known from where the call     *)
(* stands: its attempt, its place in the chain and how many attempts of it *)
(* wait for a retry to come back.                                          *)
OursIn(chain) == CHOOSE i \in DOMAIN chain : chain[i] = "ours"
RetryIn(chain) == CHOOSE i \in DOMAIN chain : chain[i] = "retry"
AheadIn(chain, name) == \E i, j \in DOMAIN chain : i < j /\ chain[i] = name /\ chain[j] = "ours"
Passed(chain, place, name) == \E i \in DOMAIN chain : i < place /\ chain[i] = name

(* The calls that wait, each inside the one after it.                      *)
AxNested(chain, outer, d) ==
    /\ \E h : /\ h = [i \in 0..d |-> h[i]] /\ h[0] = <<>> /\ h[d] = outer
              /\ \A i \in 1..d : h[i] = <<h[i - 1], RetryIn(chain)>>
    /\ d > 0 => \E i \in DOMAIN chain : chain[i] = "retry"

AxCounted(chain, call, d, n) ==
    /\ call.stage = "unsent" => n = 0 /\ d = 0
    /\ call.stage = "sent" => IF AheadIn(chain, "retry") THEN n = 0 /\ d = call.attempt - 1
                              ELSE n = call.attempt - 1
    /\ call.stage = "done" => n = call.attempt
    /\ call.stage = "answered" =>
         IF ~AheadIn(chain, "retry")
         THEN n = IF call.place > OursIn(chain) THEN call.attempt ELSE call.attempt - 1
         ELSE IF call.place > OursIn(chain) THEN n = call.attempt - d
         ELSE IF call.place > RetryIn(chain) THEN n = call.attempt - 1 - d
         ELSE n = 0 /\ d = call.attempt - 1

(* What the handlers made of the answer so far.                            *)
AxAnswered(scenario, call) ==
    LET ok == call.result.ok
        known == call.result.known
        succeeded == call.attempt > scenario.fails
        mapped == Passed(scenario.chain, call.place, "mapper")
    IN  /\ call.result.attempt = call.attempt /\ ok \in BOOLEAN /\ known \in BOOLEAN
        /\ scenario.requestThrows # "no" => ~known /\ ~ok
        /\ scenario.requestThrows = "no" /\ (~scenario.mapper \/ ~succeeded) => known /\ (ok <=> succeeded)
        /\ scenario.requestThrows = "no" /\ scenario.mapper /\ succeeded =>
             /\ ok <=> known
             /\ mapped => ~ok
             /\ ok \/ mapped \/ Passed(scenario.chain, call.place, "retry")

(* What the config carries from one attempt to the next.                   *)
AxMarked(scenario, call, now) ==
    LET config == call.config
    IN  /\ config = [start |-> config.start, data |-> config.data, body |-> config.body]
        /\ call.stage = "unsent" => config.data = "passed"
        /\ call.stage # "unsent" =>
             /\ config.start \in Nat /\ config.start < now /\ config.data = "serialised"
             /\ config.body = IF call.attempt = 1 THEN "passed" ELSE "serialised"

EntryTells(scenario, entry) ==
    LET refused == scenario.mapper /\ entry.told > scenario.fails
    IN  /\ ~scenario.mapper /\ scenario.requestThrows = "no" =>
             (entry.error <=> entry.told <= scenario.fails)
        /\ entry.url = "unknown" =>
             \/ scenario.requestThrows # "no"
             \/ refused /\ (AheadIn(scenario.chain, "mapper") \/ AheadIn(scenario.chain, "retry"))
        /\ (scenario.requestThrows # "no" \/ (refused /\ AheadIn(scenario.chain, "mapper")))
             => entry.url = "unknown"
        /\ scenario.method = "POST" /\ entry.url # "unknown" =>
             entry.body = IF entry.told = 1 THEN "passed" ELSE "serialised"
        /\ entry.duration >= 0
        /\ entry.url # "unknown" => entry.duration > 0

AxPlaced(scenario, call) ==
    /\ call.place \in 1..(Len(scenario.chain) + 1)
    /\ call.stage = "sent" => call.place = 1 /\ scenario.requestThrows = "no"

AxListedAs(scenario, call, entries) ==
    /\ IsSeq(entries)
    /\ \A i \in DOMAIN entries :
         /\ entries[i].told = IF AheadIn(scenario.chain, "retry") THEN call.attempt ELSE i
         /\ EntryTells(scenario, entries[i])
    /\ \E d \in Nat : /\ AxNested(scenario.chain, call.outer, d)
                      /\ AxCounted(scenario.chain, call, d, Len(entries))

AxSound(scenario, call, entries, now) ==
    /\ now \in Nat /\ AxPlaced(scenario, call)
    /\ call.stage = "answered" => AxAnswered(scenario, call)
    /\ scenario.requestThrows = "no" => AxMarked(scenario, call, now)
    /\ AxListedAs(scenario, call, entries)

-----------------------------------------------------------------------------
LEMMA AxChainOf ==
    ASSUME NEW scenario \in AxScenarios, NEW chain, chain = scenario.chain
    PROVE  /\ Len(chain) \in Nat /\ DOMAIN chain = 1..Len(chain)
           /\ OursIn(chain) \in 1..Len(chain) /\ chain[OursIn(chain)] = "ours"
           /\ \A i \in 1..Len(chain) : chain[i] = "ours" => i = OursIn(chain)
           /\ \A i \in 1..Len(chain) : chain[i] = "retry" =>
                /\ i = RetryIn(chain) /\ RetryIn(chain) # OursIn(chain)
                /\ AheadIn(chain, "retry") <=> RetryIn(chain) < OursIn(chain)
           /\ scenario.retries \in Nat /\ scenario.fails \in Nat /\ scenario.mapper \in BOOLEAN
           /\ scenario.requestThrows \in {"no", "before", "after"}
<1>1. /\ chain \in Seq(AxHandlers) /\ \E i \in DOMAIN chain : chain[i] = "ours"
      /\ \A i, j \in DOMAIN chain : chain[i] = chain[j] /\ chain[i] # "mapper" => i = j
      /\ scenario.retries \in Nat /\ scenario.fails \in Nat /\ scenario.mapper \in BOOLEAN
      /\ scenario.requestThrows \in {"no", "before", "after"}
  BY AxAssumption
<1>2. Len(chain) \in Nat /\ DOMAIN chain = 1..Len(chain)
  BY <1>1, LenProperties
<1>3. OursIn(chain) \in 1..Len(chain) /\ chain[OursIn(chain)] = "ours"
  BY <1>1, <1>2 DEF OursIn
<1>4. ASSUME NEW i \in 1..Len(chain), chain[i] = "retry"
      PROVE  /\ i = RetryIn(chain) /\ RetryIn(chain) # OursIn(chain)
             /\ AheadIn(chain, "retry") <=> RetryIn(chain) < OursIn(chain)
  <2>1. RetryIn(chain) \in DOMAIN chain /\ chain[RetryIn(chain)] = "retry"
    BY <1>2, <1>4 DEF RetryIn
  <2>2. i = RetryIn(chain) /\ RetryIn(chain) # OursIn(chain)
    BY <1>1, <1>2, <1>3, <1>4, <2>1
  <2>3. AheadIn(chain, "retry") <=> RetryIn(chain) < OursIn(chain)
    <3>1. ASSUME RetryIn(chain) < OursIn(chain) PROVE AheadIn(chain, "retry")
      BY <1>2, <1>3, <2>1, <3>1 DEF AheadIn
    <3>2. ASSUME AheadIn(chain, "retry") PROVE RetryIn(chain) < OursIn(chain)
      <4>1. PICK k, j \in DOMAIN chain : k < j /\ chain[k] = "retry" /\ chain[j] = "ours"
        BY <3>2 DEF AheadIn
      <4>2. k = RetryIn(chain)
        BY <1>1, <2>1, <4>1
      <4>3. j = OursIn(chain)
        BY <1>1, <1>2, <1>3, <4>1
      <4> QED  BY <4>1, <4>2, <4>3
    <3> QED  BY <3>1, <3>2
  <2> QED  BY <2>2, <2>3
<1> QED  BY <1>1, <1>2, <1>3, <1>4

LEMMA AxNestedEmpty == ASSUME NEW chain PROVE AxNested(chain, <<>>, 0)
<1> PICK h : h = [i \in 0..0 |-> <<>>]
  OBVIOUS
<1>1. h = [i \in 0..0 |-> h[i]] /\ h[0] = <<>>
  OBVIOUS
<1> QED  BY <1>1 DEF AxNested

LEMMA AxNestedDeeper ==
    ASSUME NEW chain, NEW outer, NEW d \in Nat, AxNested(chain, outer, d),
           NEW place \in DOMAIN chain, chain[place] = "retry", place = RetryIn(chain)
    PROVE  AxNested(chain, <<outer, place>>, d + 1)
<1>1. PICK h : /\ h = [i \in 0..d |-> h[i]] /\ h[0] = <<>> /\ h[d] = outer
               /\ \A i \in 1..d : h[i] = <<h[i - 1], RetryIn(chain)>>
  BY DEF AxNested
<1> PICK top : top = <<outer, place>>
  OBVIOUS
<1> PICK g : g = [i \in 0..(d + 1) |-> IF i = d + 1 THEN top ELSE h[i]]
  OBVIOUS
<1>2. g = [i \in 0..(d + 1) |-> g[i]] /\ g[0] = <<>> /\ g[d + 1] = top
  BY <1>1
<1>3. ASSUME NEW i \in 1..(d + 1) PROVE g[i] = <<g[i - 1], RetryIn(chain)>>
  <2>1. i - 1 \in 0..d /\ g[i - 1] = h[i - 1]
    OBVIOUS
  <2>2. CASE i = d + 1
    BY <1>1, <2>1, <2>2
  <2>3. CASE i # d + 1
    <3>1. i \in 1..d /\ g[i] = h[i]
      BY <2>3
    <3> QED  BY <1>1, <2>1, <3>1
  <2> QED  BY <2>2, <2>3
<1> QED  BY <1>2, <1>3 DEF AxNested

LEMMA AxNestedBack ==
    ASSUME NEW chain, NEW outer, NEW d \in Nat, AxNested(chain, outer, d)
    PROVE  /\ outer = <<>> <=> d = 0
           /\ d > 0 => /\ AxNested(chain, outer[1], d - 1) /\ outer[2] = RetryIn(chain)
                       /\ \E i \in DOMAIN chain : chain[i] = "retry"
<1>1. PICK h : /\ h = [i \in 0..d |-> h[i]] /\ h[0] = <<>> /\ h[d] = outer
               /\ \A i \in 1..d : h[i] = <<h[i - 1], RetryIn(chain)>>
  BY DEF AxNested
<1>2. CASE d = 0
  BY <1>1, <1>2
<1>3. CASE d > 0
  <2>1. d \in 1..d /\ outer = <<h[d - 1], RetryIn(chain)>>
    BY <1>1, <1>3
  <2>2. outer # <<>> /\ outer[1] = h[d - 1] /\ outer[2] = RetryIn(chain)
    BY <2>1
  <2>3. \E i \in DOMAIN chain : chain[i] = "retry"
    BY <1>3 DEF AxNested
  <2> PICK g : g = [i \in 0..(d - 1) |-> h[i]]
    OBVIOUS
  <2>4. g = [i \in 0..(d - 1) |-> g[i]] /\ g[0] = <<>> /\ g[d - 1] = outer[1]
    BY <1>1, <1>3, <2>2
  <2>5. \A i \in 1..(d - 1) : g[i] = <<g[i - 1], RetryIn(chain)>>
    BY <1>1
  <2>6. AxNested(chain, outer[1], d - 1)
    BY <2>3, <2>4, <2>5 DEF AxNested
  <2> QED  BY <1>3, <2>2, <2>3, <2>6
<1> QED  BY <1>2, <1>3

-----------------------------------------------------------------------------
(* What each step does to the count; nothing here depends on the state.    *)
LEMMA AxCountBegins ==
    ASSUME NEW chain, NEW call, NEW next, NEW d \in Nat, NEW n \in Nat, call.attempt \in Nat,
           AxCounted(chain, call, d, n), call.stage = "unsent", call.attempt = 0,
           next.attempt = 1, next.stage \in {"sent", "answered"}, next.place = 1,
           OursIn(chain) >= 1, AheadIn(chain, "retry") => RetryIn(chain) >= 1,
           OursIn(chain) \in Nat, AheadIn(chain, "retry") => RetryIn(chain) \in Nat
    PROVE  AxCounted(chain, next, d, n)
BY DEF AxCounted

LEMMA AxCountRetries ==
    ASSUME NEW chain, NEW call, NEW next, NEW d \in Nat, NEW n \in Nat, call.attempt \in Nat,
           AxCounted(chain, call, d, n), call.stage = "answered", call.place = RetryIn(chain),
           next.attempt = call.attempt + 1, next.stage = "sent", next.place = 1,
           OursIn(chain) \in Nat, RetryIn(chain) \in Nat, RetryIn(chain) # OursIn(chain),
           AheadIn(chain, "retry") <=> RetryIn(chain) < OursIn(chain)
    PROVE  /\ AxCounted(chain, next, d + 1, n)
           /\ AheadIn(chain, "retry") => n = 0
BY DEF AxCounted

LEMMA AxCountAnswers ==
    ASSUME NEW chain, NEW call, NEW next, NEW d \in Nat, NEW n \in Nat, call.attempt \in Nat,
           AxCounted(chain, call, d, n), call.stage = "sent",
           next.attempt = call.attempt, next.stage = "answered", next.place = 1,
           OursIn(chain) >= 1, AheadIn(chain, "retry") => RetryIn(chain) >= 1,
           OursIn(chain) \in Nat, AheadIn(chain, "retry") => RetryIn(chain) \in Nat
    PROVE  AxCounted(chain, next, d, n)
BY DEF AxCounted

LEMMA AxCountCaptures ==
    ASSUME NEW chain, NEW call, NEW next, NEW d \in Nat, NEW n \in Nat, call.attempt \in Nat,
           AxCounted(chain, call, d, n), call.stage = "answered", call.place = OursIn(chain),
           next.attempt = call.attempt, next.stage = "answered", next.place = call.place + 1,
           OursIn(chain) \in Nat, AheadIn(chain, "retry") => RetryIn(chain) < OursIn(chain),
           AheadIn(chain, "retry") => RetryIn(chain) \in Nat
    PROVE  /\ AxCounted(chain, next, d, n + 1)
           /\ ~AheadIn(chain, "retry") => call.attempt = n + 1
BY DEF AxCounted

LEMMA AxCountPasses ==
    ASSUME NEW chain, NEW call, NEW next, NEW d \in Nat, NEW n \in Nat, call.attempt \in Nat,
           AxCounted(chain, call, d, n), call.stage = "answered", call.place \in Nat,
           call.place # OursIn(chain), OursIn(chain) \in Nat,
           next.attempt = call.attempt, next.stage = "answered", next.place = call.place + 1,
           AheadIn(chain, "retry") => RetryIn(chain) < OursIn(chain),
           AheadIn(chain, "retry") => RetryIn(chain) \in Nat
    PROVE  AxCounted(chain, next, d, n)
BY DEF AxCounted

LEMMA AxCountReturns ==
    ASSUME NEW chain, NEW call, NEW next, NEW d \in Nat, NEW n \in Nat, call.attempt \in Nat,
           AxCounted(chain, call, d, n), call.stage = "answered",
           call.place > OursIn(chain), call.place \in Nat, OursIn(chain) \in Nat,
           next.attempt = call.attempt,
           \/ d = 0 /\ next.stage = "done"
           \/ /\ d > 0 /\ next.stage = "answered" /\ next.place = RetryIn(chain) + 1
              /\ RetryIn(chain) \in Nat /\ RetryIn(chain) # OursIn(chain)
              /\ AheadIn(chain, "retry") <=> RetryIn(chain) < OursIn(chain)
    PROVE  AxCounted(chain, next, IF d = 0 THEN 0 ELSE d - 1, n)
BY DEF AxCounted

(* What is told of the answer, and what of it the profiler records.        *)
LEMMA AxAnswerPasses ==
    ASSUME NEW scenario \in AxScenarios, NEW call, NEW next, call.attempt \in Nat,
           AxAnswered(scenario, call),
           next.attempt = call.attempt, next.result = call.result,
           Passed(scenario.chain, next.place, "mapper") => Passed(scenario.chain, call.place, "mapper"),
           Passed(scenario.chain, call.place, "mapper") => \/ Passed(scenario.chain, next.place, "mapper")
                                                          \/ Passed(scenario.chain, next.place, "retry"),
           Passed(scenario.chain, call.place, "retry") => Passed(scenario.chain, next.place, "retry")
    PROVE  AxAnswered(scenario, next)
BY DEF AxAnswered

LEMMA AxAnswerMapped ==
    ASSUME NEW scenario \in AxScenarios, NEW call, NEW next, call.attempt \in Nat,
           AxAnswered(scenario, call), next.attempt = call.attempt,
           IF call.result.ok /\ scenario.mapper
           THEN next.result = [ok |-> FALSE, attempt |-> call.result.attempt, known |-> FALSE]
           ELSE next.result = call.result,
           Passed(scenario.chain, next.place, "mapper")
    PROVE  AxAnswered(scenario, next)
<1>1. scenario.mapper \in BOOLEAN /\ scenario.fails \in Nat
  BY AxChainOf
<1>2. CASE call.result.ok /\ scenario.mapper
  <2>0. next.result = [ok |-> FALSE, attempt |-> call.result.attempt, known |-> FALSE]
    BY <1>2
  <2>1. /\ next.result.ok = FALSE /\ next.result.known = FALSE
        /\ next.result.attempt = call.result.attempt
    BY ONLY <2>0
  <2> QED  BY <1>1, <1>2, <2>1 DEF AxAnswered
<1>3. CASE ~(call.result.ok /\ scenario.mapper)
  BY <1>1, <1>3 DEF AxAnswered
<1> QED  BY <1>2, <1>3

LEMMA AxCapturedTells ==
    ASSUME NEW scenario \in AxScenarios, NEW call, NEW now \in Nat, call.attempt \in Nat,
           call.stage = "answered", call.attempt > 0, call.place = OursIn(scenario.chain),
           AxAnswered(scenario, call),
           scenario.requestThrows = "no" => AxMarked(scenario, call, now),
           NEW entry, entry.told = call.result.attempt, entry.error \in BOOLEAN, entry.error <=> ~call.result.ok,
           entry.url = (IF call.result.known THEN "known" ELSE "unknown"),
           entry.duration = (IF call.result.known THEN now - call.config.start ELSE 0),
           call.result.known /\ scenario.method = "POST" => entry.body = call.config.body
    PROVE  EntryTells(scenario, entry)
<1> DEFINE chain == scenario.chain
<1>1. /\ chain[OursIn(chain)] = "ours" /\ OursIn(chain) \in DOMAIN chain
      /\ \A i \in DOMAIN chain : chain[i] = "ours" => i = OursIn(chain)
      /\ scenario.mapper \in BOOLEAN /\ scenario.fails \in Nat
      /\ scenario.requestThrows \in {"no", "before", "after"}
  BY AxChainOf
<1>2. \A name : Passed(chain, call.place, name) <=> AheadIn(chain, name)
  BY <1>1 DEF Passed, AheadIn
<1> HIDE DEF chain
<1>3. CASE call.result.known
  <2>1. scenario.requestThrows = "no"
    BY <1>1, <1>3 DEF AxAnswered
  <2>2. /\ call.config.start \in Nat /\ call.config.start < now
        /\ call.config.body = IF call.attempt = 1 THEN "passed" ELSE "serialised"
    BY <2>1 DEF AxMarked
  <2>3. entry.url = "known" /\ entry.duration > 0 /\ entry.told = call.attempt
    BY <1>3, <2>2 DEF AxAnswered
  <2>4. scenario.method = "POST" => entry.body = IF entry.told = 1 THEN "passed" ELSE "serialised"
    BY <1>3, <2>2, <2>3
  <2>5. ~scenario.mapper => (call.result.ok <=> call.attempt > scenario.fails)
    BY <1>1, <2>1 DEF AxAnswered
  <2>6. scenario.mapper /\ call.attempt > scenario.fails => ~AheadIn(chain, "mapper")
    BY <1>2, <1>3, <2>1 DEF AxAnswered, chain
  <2>7. ~scenario.mapper => (entry.error <=> entry.told <= scenario.fails)
    <3>1. ASSUME ~scenario.mapper PROVE entry.error <=> entry.told <= scenario.fails
      <4>1. call.result.ok <=> call.attempt > scenario.fails
        BY <2>5, <3>1
      <4>2. entry.told = call.attempt /\ call.attempt \in Nat /\ scenario.fails \in Nat
        BY <1>1, <2>3
      <4>3. CASE call.result.ok
        BY <4>1, <4>2, <4>3
      <4>4. CASE ~call.result.ok
        BY <4>1, <4>2, <4>4
      <4> QED  BY <4>3, <4>4
    <3> QED  BY <3>1
  <2>8. ~(scenario.mapper /\ entry.told > scenario.fails /\ AheadIn(scenario.chain, "mapper"))
    BY <2>3, <2>6 DEF chain
  <2>9. entry.duration >= 0 /\ entry.url # "unknown"
    BY <1>3, <2>2, <2>3
  <2> QED  BY <2>1, <2>3, <2>4, <2>7, <2>8, <2>9 DEF EntryTells
<1>4. CASE ~call.result.known
  <2>1. entry.url = "unknown" /\ entry.duration = 0 /\ entry.told = call.attempt
    BY <1>4 DEF AxAnswered
  <2>2. scenario.requestThrows = "no" =>
          /\ scenario.mapper /\ call.attempt > scenario.fails
          /\ AheadIn(chain, "mapper") \/ AheadIn(chain, "retry")
    BY <1>1, <1>2, <1>4 DEF AxAnswered, chain
  <2> QED  BY <2>1, <2>2 DEF EntryTells, chain
<1> QED  BY <1>3, <1>4

(* Entries are kept, and with one more.                                    *)
LEMMA AxListedOneMore ==
    ASSUME NEW scenario, NEW call, NEW next, NEW entries, NEW more, NEW entry, NEW d \in Nat,
           AxListedAs(scenario, call, entries), next.attempt = call.attempt,
           IsSeq(more), Len(more) = Len(entries) + 1, more[Len(entries) + 1] = entry,
           \A i \in 1..Len(entries) : more[i] = entries[i],
           entry.told = call.attempt, EntryTells(scenario, entry),
           ~AheadIn(scenario.chain, "retry") => call.attempt = Len(entries) + 1,
           AxNested(scenario.chain, next.outer, d),
           AxCounted(scenario.chain, next, d, Len(entries) + 1)
    PROVE  AxListedAs(scenario, next, more)
<1>1. DOMAIN more = 1..Len(more) /\ Len(entries) \in Nat /\ DOMAIN entries = 1..Len(entries)
  BY SeqFacts DEF AxListedAs
<1>2. ASSUME NEW i \in DOMAIN more
      PROVE  /\ more[i].told = IF AheadIn(scenario.chain, "retry") THEN next.attempt ELSE i
             /\ EntryTells(scenario, more[i])
  <2>1. CASE i = Len(entries) + 1
    BY <2>1
  <2>2. CASE i # Len(entries) + 1
    <3>1. i \in DOMAIN entries /\ more[i] = entries[i]
      BY <1>1, <2>2
    <3> QED  BY <3>1 DEF AxListedAs
  <2> QED  BY <2>1, <2>2
<1> QED  BY <1>2 DEF AxListedAs

(* A call that goes on within its attempt.                                 *)
LEMMA AxSoundGoesOn ==
    ASSUME NEW scenario, NEW call, NEW next, NEW entries, NEW now, NEW later \in {now, now + 1},
           AxSound(scenario, call, entries, now), call.stage # "unsent", next.stage # "unsent",
           next.attempt = call.attempt, next.config = call.config, AxPlaced(scenario, next),
           next.stage = "answered" => AxAnswered(scenario, next),
           NEW d \in Nat, AxNested(scenario.chain, next.outer, d),
           AxCounted(scenario.chain, next, d, Len(entries))
    PROVE  AxSound(scenario, next, entries, later)
<1>1. now \in Nat /\ later \in Nat /\ later >= now
  BY DEF AxSound
<1>2. ASSUME scenario.requestThrows = "no" PROVE AxMarked(scenario, next, later)
  BY <1>1, <1>2 DEF AxSound, AxMarked
<1>3. AxListedAs(scenario, next, entries)
  BY DEF AxSound, AxListedAs
<1> QED  BY <1>1, <1>2, <1>3 DEF AxSound

(* A place of the chain that a call has passed.                            *)
LEMMA AxPassedOne ==
    ASSUME NEW scenario \in AxScenarios, NEW place \in DOMAIN scenario.chain, NEW name
    PROVE  /\ place \in 1..Len(scenario.chain) /\ place + 1 \in 1..(Len(scenario.chain) + 1)
           /\ Passed(scenario.chain, place + 1, name)
              <=> Passed(scenario.chain, place, name) \/ scenario.chain[place] = name
<1> PICK chain : chain = scenario.chain
  OBVIOUS
<1>1. Len(chain) \in Nat /\ DOMAIN chain = 1..Len(chain)
  BY AxChainOf
<1>2. \A i \in DOMAIN chain : i < place + 1 <=> i < place \/ i = place
  BY <1>1
<1> QED  BY <1>1, <1>2 DEF Passed

LEMMA AxSoundAnswers ==
    ASSUME NEW scenario \in AxScenarios, NEW call, NEW next, NEW entries, NEW now, NEW ok \in BOOLEAN,
           AxSound(scenario, call, entries, now), call.attempt \in Nat,
           call.stage = "sent", next.stage = "answered", next.attempt = call.attempt,
           next.place = call.place, next.outer = call.outer, next.config = call.config,
           ok <=> call.attempt > scenario.fails,
           next.result = [ok |-> ok, attempt |-> call.attempt, known |-> TRUE]
    PROVE  AxSound(scenario, next, entries, now + 1)
<1> PICK chain : chain = scenario.chain
  OBVIOUS
<1>1. /\ call.place = 1 /\ scenario.requestThrows = "no" /\ AxPlaced(scenario, next)
  BY DEF AxSound, AxPlaced
<1>2. /\ Len(chain) \in Nat /\ DOMAIN chain = 1..Len(chain) /\ OursIn(chain) \in 1..Len(chain)
      /\ \A i \in 1..Len(chain) : chain[i] = "retry" => i = RetryIn(chain)
      /\ scenario.mapper \in BOOLEAN /\ scenario.fails \in Nat
  BY AxChainOf
<1>3. AheadIn(chain, "retry") => RetryIn(chain) \in 1..Len(chain)
  BY <1>2 DEF AheadIn
<1>4. next.result.ok = ok /\ next.result.attempt = call.attempt /\ next.result.known = TRUE
  OBVIOUS
<1>5. ~Passed(chain, next.place, "mapper")
  BY <1>1, <1>2 DEF Passed
<1>6. AxAnswered(scenario, next)
  BY <1>1, <1>2, <1>4, <1>5 DEF AxAnswered
<1>7. PICK d \in Nat : AxNested(chain, call.outer, d) /\ AxCounted(chain, call, d, Len(entries))
  BY DEF AxSound, AxListedAs
<1>8. Len(entries) \in Nat
  BY SeqFacts DEF AxSound, AxListedAs
<1>9. AxCounted(chain, next, d, Len(entries))
  <2>1. /\ OursIn(chain) >= 1 /\ OursIn(chain) \in Nat
        /\ AheadIn(chain, "retry") => RetryIn(chain) >= 1 /\ RetryIn(chain) \in Nat
    BY <1>2, <1>3
  <2>2. next.place = 1
    BY <1>1
  <2> QED  BY <1>7, <1>8, <2>1, <2>2, AxCountAnswers
<1> QED  BY <1>1, <1>6, <1>7, <1>9, AxSoundGoesOn

(* A handler of the host that neither retries nor ends the chain.          *)
LEMMA AxSoundPasses ==
    ASSUME NEW scenario \in AxScenarios, NEW call, NEW next, NEW entries, NEW now,
           NEW later \in {now, now + 1}, NEW name \in {"mapper", "retry"},
           AxSound(scenario, call, entries, now), call.attempt \in Nat,
           call.stage = "answered", call.place \in DOMAIN scenario.chain,
           scenario.chain[call.place] = name,
           next.stage = "answered", next.attempt = call.attempt, next.place = call.place + 1,
           next.outer = call.outer, next.config = call.config, AxAnswered(scenario, next)
    PROVE  AxSound(scenario, next, entries, later)
<1> PICK chain : chain = scenario.chain
  OBVIOUS
<1>1. /\ call.place \in 1..Len(chain) /\ call.place + 1 \in 1..(Len(chain) + 1)
  BY AxPassedOne
<1>2. AxPlaced(scenario, next)
  BY <1>1 DEF AxSound, AxPlaced
<1>3. /\ Len(chain) \in Nat /\ DOMAIN chain = 1..Len(chain) /\ OursIn(chain) \in 1..Len(chain)
      /\ chain[OursIn(chain)] = "ours"
      /\ \A i \in 1..Len(chain) : chain[i] = "retry" =>
           /\ i = RetryIn(chain)
           /\ AheadIn(chain, "retry") <=> RetryIn(chain) < OursIn(chain)
  BY AxChainOf
<1>4. AheadIn(chain, "retry") => RetryIn(chain) \in 1..Len(chain) /\ RetryIn(chain) < OursIn(chain)
  BY <1>3 DEF AheadIn
<1>5. PICK d \in Nat : AxNested(chain, call.outer, d) /\ AxCounted(chain, call, d, Len(entries))
  BY DEF AxSound, AxListedAs
<1>6. Len(entries) \in Nat
  BY SeqFacts DEF AxSound, AxListedAs
<1>7. AxCounted(chain, next, d, Len(entries))
  <2>1. /\ OursIn(chain) \in Nat /\ call.place # OursIn(chain) /\ call.place \in Nat
        /\ AheadIn(chain, "retry") => RetryIn(chain) < OursIn(chain)
        /\ AheadIn(chain, "retry") => RetryIn(chain) \in Nat
    BY <1>1, <1>3, <1>4
  <2> QED  BY <1>5, <1>6, <2>1, AxCountPasses
<1> QED  BY <1>2, <1>5, <1>7, AxSoundGoesOn

(* The end of the chain: of the call, or of a retry it waits for.          *)
LEMMA AxSoundReturns ==
    ASSUME NEW scenario \in AxScenarios, NEW call, NEW next, NEW entries, NEW now,
           AxSound(scenario, call, entries, now), call.attempt \in Nat,
           call.stage = "answered", call.place > Len(scenario.chain),
           next.attempt = call.attempt, next.config = call.config, next.result = call.result,
           IF call.outer = <<>>
           THEN next.stage = "done" /\ next.place = call.place /\ next.outer = call.outer
           ELSE /\ next.stage = call.stage /\ next.outer = call.outer[1]
                /\ next.place = call.outer[2] + 1
    PROVE  AxSound(scenario, next, entries, now)
<1> PICK chain : chain = scenario.chain
  OBVIOUS
<1>1. /\ Len(chain) \in Nat /\ DOMAIN chain = 1..Len(chain) /\ OursIn(chain) \in 1..Len(chain)
      /\ \A i \in 1..Len(chain) : chain[i] = "retry" =>
           /\ i = RetryIn(chain) /\ RetryIn(chain) # OursIn(chain)
           /\ AheadIn(chain, "retry") <=> RetryIn(chain) < OursIn(chain)
  BY AxChainOf
<1>2. call.place \in 1..(Len(chain) + 1) /\ call.place > OursIn(chain)
  BY <1>1 DEF AxSound, AxPlaced
<1>3. PICK d \in Nat : AxNested(chain, call.outer, d) /\ AxCounted(chain, call, d, Len(entries))
  BY DEF AxSound, AxListedAs
<1>4. Len(entries) \in Nat
  BY SeqFacts DEF AxSound, AxListedAs
<1>5. /\ call.outer = <<>> <=> d = 0
      /\ d > 0 => /\ AxNested(chain, call.outer[1], d - 1) /\ call.outer[2] = RetryIn(chain)
                  /\ \E i \in DOMAIN chain : chain[i] = "retry"
  BY <1>3, AxNestedBack
<1>6. CASE d = 0
  <2>1. next.stage = "done" /\ next.place = call.place /\ next.outer = call.outer
    BY <1>5, <1>6
  <2>2. AxCounted(chain, next, IF d = 0 THEN 0 ELSE d - 1, Len(entries))
    <3>1. OursIn(chain) \in Nat /\ call.place \in Nat
      BY <1>1, <1>2
    <3> QED  BY <1>2, <1>3, <1>4, <1>6, <2>1, <3>1, AxCountReturns
  <2>3. AxCounted(chain, next, d, Len(entries)) /\ AxNested(chain, next.outer, d)
    BY <1>3, <1>6, <2>1, <2>2
  <2>4. AxPlaced(scenario, next)
    BY <2>1 DEF AxSound, AxPlaced
  <2> QED  BY <2>1, <2>3, <2>4, AxSoundGoesOn
<1>7. CASE d > 0
  <2>1. /\ next.stage = "answered" /\ next.place = RetryIn(chain) + 1
        /\ AxNested(chain, next.outer, d - 1)
    BY <1>5, <1>7
  <2>2. /\ RetryIn(chain) \in 1..Len(chain) /\ chain[RetryIn(chain)] = "retry"
        /\ RetryIn(chain) # OursIn(chain)
        /\ AheadIn(chain, "retry") <=> RetryIn(chain) < OursIn(chain)
    BY <1>1, <1>5, <1>7
  <2>3. AxCounted(chain, next, IF d = 0 THEN 0 ELSE d - 1, Len(entries))
    <3>1. RetryIn(chain) \in Nat /\ OursIn(chain) \in Nat /\ call.place \in Nat
      BY <1>1, <1>2, <2>2
    <3> QED  BY <1>2, <1>3, <1>4, <1>7, <2>1, <2>2, <3>1, AxCountReturns
  <2>4. AxCounted(chain, next, d - 1, Len(entries)) /\ d - 1 \in Nat
    BY <1>7, <2>3
  <2>5. AxPlaced(scenario, next)
    BY <1>1, <2>1, <2>2 DEF AxSound, AxPlaced
  <2>6. /\ Passed(chain, next.place, "retry")
        /\ Passed(chain, next.place, "mapper") => Passed(chain, call.place, "mapper")
    <3>1. next.place \in Nat /\ next.place <= call.place /\ RetryIn(chain) < next.place
      BY <1>1, <1>2, <2>1, <2>2
    <3>2. RetryIn(chain) \in DOMAIN chain
      BY <1>1, <2>2
    <3> QED  BY <1>1, <1>2, <2>2, <3>1, <3>2 DEF Passed
  <2>7. AxAnswered(scenario, call)
    BY DEF AxSound
  <2>8. AxAnswered(scenario, next)
    BY <2>6, <2>7, AxAnswerPasses
  <2> QED  BY <2>1, <2>4, <2>5, <2>8, AxSoundGoesOn
<1> QED  BY <1>6, <1>7

(* The profiler's own handler.                                             *)
LEMMA AxSoundCaptures ==
    ASSUME NEW scenario \in AxScenarios, NEW call, NEW next, NEW entries, NEW more, NEW entry, NEW now,
           AxSound(scenario, call, entries, now), call.attempt \in Nat, call.attempt > 0,
           call.stage = "answered", call.place \in DOMAIN scenario.chain,
           scenario.chain[call.place] = "ours",
           next.stage = "answered", next.attempt = call.attempt, next.place = call.place + 1,
           next.outer = call.outer, next.config = call.config, next.result = call.result,
           IsSeq(more), Len(more) = Len(entries) + 1, more[Len(entries) + 1] = entry,
           \A i \in 1..Len(entries) : more[i] = entries[i],
           entry.told = call.result.attempt, entry.error \in BOOLEAN, entry.error <=> ~call.result.ok,
           entry.url = (IF call.result.known THEN "known" ELSE "unknown"),
           entry.duration = (IF call.result.known THEN now - call.config.start ELSE 0),
           call.result.known /\ scenario.method = "POST" => entry.body = call.config.body
    PROVE  AxSound(scenario, next, more, now + 1)
<1> PICK chain : chain = scenario.chain
  OBVIOUS
<1>1. /\ Len(chain) \in Nat /\ DOMAIN chain = 1..Len(chain) /\ OursIn(chain) \in 1..Len(chain)
      /\ \A i \in 1..Len(chain) : chain[i] = "ours" => i = OursIn(chain)
      /\ \A i \in 1..Len(chain) : chain[i] = "retry" =>
           /\ i = RetryIn(chain)
           /\ AheadIn(chain, "retry") <=> RetryIn(chain) < OursIn(chain)
  BY AxChainOf
<1>2. call.place = OursIn(chain) /\ call.place + 1 \in 1..(Len(chain) + 1)
  BY <1>1
<1>3. AxPlaced(scenario, next) /\ AxAnswered(scenario, call) /\ now \in Nat
  BY <1>2 DEF AxSound, AxPlaced
<1>4. AxAnswered(scenario, next)
  <2>1. \A name \in {"mapper", "retry"} :
          Passed(chain, next.place, name) <=> Passed(chain, call.place, name)
    BY AxPassedOne
  <2> QED  BY <1>3, <2>1, AxAnswerPasses
<1>5. EntryTells(scenario, entry) /\ entry.told = call.attempt
  <2>1. scenario.requestThrows = "no" => AxMarked(scenario, call, now)
    BY DEF AxSound
  <2>2. EntryTells(scenario, entry)
    <3>1. call.place = OursIn(scenario.chain)
      BY <1>2
    <3> QED  BY <1>3, <2>1, <3>1, AxCapturedTells
  <2> QED  BY <1>3, <2>2 DEF AxAnswered
<1>6. PICK d \in Nat : AxNested(chain, call.outer, d) /\ AxCounted(chain, call, d, Len(entries))
  BY DEF AxSound, AxListedAs
<1>7. Len(entries) \in Nat
  BY SeqFacts DEF AxSound, AxListedAs
<1>8. /\ AxCounted(chain, next, d, Len(entries) + 1)
      /\ ~AheadIn(chain, "retry") => call.attempt = Len(entries) + 1
  <2>1. AheadIn(chain, "retry") => RetryIn(chain) \in Nat /\ RetryIn(chain) < OursIn(chain)
    BY <1>1 DEF AheadIn
  <2>2. OursIn(chain) \in Nat
    BY <1>1
  <2> QED  BY <1>2, <1>6, <1>7, <2>1, <2>2, AxCountCaptures
<1>9. AxListedAs(scenario, next, more)
  <2>1. AxListedAs(scenario, call, entries)
    BY DEF AxSound
  <2>2. AxNested(scenario.chain, next.outer, d)
    BY <1>6
  <2> QED  BY <1>5, <1>8, <2>1, <2>2, AxListedOneMore
<1>10. scenario.requestThrows = "no" => AxMarked(scenario, next, now + 1)
  BY <1>3 DEF AxSound, AxMarked
<1> QED  BY <1>3, <1>4, <1>9, <1>10 DEF AxSound

(* A further attempt, the first or a retry's.                              *)
LEMMA AxSoundBegins ==
    ASSUME NEW scenario \in AxScenarios, NEW call, NEW next, NEW entries, NEW now,
           AxSound(scenario, call, entries, now), call.attempt \in Nat,
           next.attempt = call.attempt + 1, next.place = 1,
           next.stage = (IF scenario.requestThrows = "no" THEN "sent" ELSE "answered"),
           scenario.requestThrows # "no" =>
             next.result = [ok |-> FALSE, attempt |-> call.attempt + 1, known |-> FALSE],
           scenario.requestThrows = "no" =>
             next.config = [start |-> now, data |-> "serialised", body |-> call.config.data],
           \/ call.stage = "unsent" /\ call.attempt = 0 /\ next.outer = call.outer
           \/ /\ call.stage = "answered" /\ call.attempt > 0 /\ scenario.requestThrows = "no"
              /\ call.place \in DOMAIN scenario.chain /\ scenario.chain[call.place] = "retry"
              /\ next.outer = <<call.outer, call.place>>
    PROVE  AxSound(scenario, next, entries, now + 1)
<1> PICK chain : chain = scenario.chain
  OBVIOUS
<1>1. /\ Len(chain) \in Nat /\ DOMAIN chain = 1..Len(chain) /\ OursIn(chain) \in 1..Len(chain)
      /\ \A i \in 1..Len(chain) : chain[i] = "retry" =>
           /\ i = RetryIn(chain) /\ RetryIn(chain) # OursIn(chain)
           /\ AheadIn(chain, "retry") <=> RetryIn(chain) < OursIn(chain)
      /\ scenario.mapper \in BOOLEAN /\ scenario.fails \in Nat
      /\ scenario.requestThrows \in {"no", "before", "after"}
  BY AxChainOf
<1>2. now \in Nat /\ AxPlaced(scenario, next)
  BY <1>1 DEF AxSound, AxPlaced
<1>3. ASSUME next.stage = "answered" PROVE AxAnswered(scenario, next)
  <2>1. next.result = [ok |-> FALSE, attempt |-> call.attempt + 1, known |-> FALSE]
        /\ scenario.requestThrows # "no"
    BY <1>3
  <2>2. /\ next.result.ok = FALSE /\ next.result.known = FALSE
        /\ next.result.attempt = call.attempt + 1
    BY ONLY <2>1
  <2> QED  BY <2>1, <2>2 DEF AxAnswered
<1>4. ASSUME scenario.requestThrows = "no" PROVE AxMarked(scenario, next, now + 1)
  <2>1. next.config = [start |-> now, data |-> "serialised", body |-> call.config.data]
    BY <1>4
  <2>2. next.config.start = now /\ next.config.data = "serialised" /\ next.config.body = call.config.data
    BY ONLY <2>1
  <2>3. next.config = [start |-> next.config.start, data |-> next.config.data, body |-> next.config.body]
    BY ONLY <2>1, <2>2
  <2>4. call.config.data = IF next.attempt = 1 THEN "passed" ELSE "serialised"
    BY <1>4 DEF AxSound, AxMarked
  <2>5. next.stage = "sent"
    BY <1>4
  <2> QED  BY <1>2, <2>2, <2>3, <2>4, <2>5 DEF AxMarked
<1>5. PICK d \in Nat : AxNested(chain, call.outer, d) /\ AxCounted(chain, call, d, Len(entries))
  BY DEF AxSound, AxListedAs
<1>6. Len(entries) \in Nat /\ DOMAIN entries = 1..Len(entries) /\ IsSeq(entries)
  BY SeqFacts DEF AxSound, AxListedAs
<1>7. PICK e \in Nat : /\ AxNested(chain, next.outer, e) /\ AxCounted(chain, next, e, Len(entries))
                       /\ AheadIn(chain, "retry") => Len(entries) = 0
  <2>1. CASE call.stage = "unsent"
    <3>1. call.attempt = 0 /\ next.outer = call.outer /\ next.attempt = 1
      BY <2>1
    <3>2. /\ OursIn(chain) >= 1 /\ OursIn(chain) \in Nat
          /\ AheadIn(chain, "retry") => RetryIn(chain) >= 1 /\ RetryIn(chain) \in Nat
      BY <1>1 DEF AheadIn
    <3>3. next.stage \in {"sent", "answered"}
      OBVIOUS
    <3>4. AxCounted(chain, next, d, Len(entries))
      BY <1>5, <1>6, <2>1, <3>1, <3>2, <3>3, AxCountBegins
    <3>5. Len(entries) = 0
      BY <1>5, <2>1 DEF AxCounted
    <3> QED  BY <1>5, <3>1, <3>4, <3>5
  <2>2. CASE call.stage # "unsent"
    <3>1. /\ call.stage = "answered" /\ call.place \in 1..Len(chain) /\ chain[call.place] = "retry"
          /\ next.outer = <<call.outer, call.place>> /\ next.stage = "sent"
      BY <1>1, <2>2
    <3>2. call.place = RetryIn(chain) /\ RetryIn(chain) # OursIn(chain)
      BY <1>1, <3>1
    <3>3. AheadIn(chain, "retry") <=> RetryIn(chain) < OursIn(chain)
      BY <1>1, <3>1
    <3>4. RetryIn(chain) \in Nat /\ OursIn(chain) \in Nat
      BY <1>1, <3>1, <3>2
    <3>5. AxNested(chain, next.outer, d + 1)
      BY <1>1, <1>5, <3>1, <3>2, AxNestedDeeper
    <3>6. AxCounted(chain, next, d + 1, Len(entries)) /\ (AheadIn(chain, "retry") => Len(entries) = 0)
      BY <1>5, <1>6, <3>1, <3>2, <3>3, <3>4, AxCountRetries
    <3> QED  BY <3>5, <3>6
  <2> QED  BY <2>1, <2>2
<1>8. AxListedAs(scenario, next, entries)
  <2>1. ASSUME NEW i \in DOMAIN entries
        PROVE  /\ entries[i].told = IF AheadIn(scenario.chain, "retry") THEN next.attempt ELSE i
               /\ EntryTells(scenario, entries[i])
    <3>1. ~AheadIn(scenario.chain, "retry")
      BY <1>6, <1>7
    <3> QED  BY <3>1 DEF AxSound, AxListedAs
  <2> QED  BY <1>6, <1>7, <2>1 DEF AxListedAs
<1> QED  BY <1>2, <1>3, <1>4, <1>8 DEF AxSound

(* What the model's step of a further attempt gives it.                    *)
LEMMA AxBeginsAs ==
    ASSUME NEW call, call = [f \in AxFields |-> call[f]], NEW next, next = BeginAttempt(call),
           axScenario.requestThrows \in {"no", "before", "after"},
           axScenario.requestThrows = "no" =>
             call.config = [start |-> call.config.start, data |-> call.config.data,
                            body |-> call.config.body]
    PROVE  /\ next.attempt = call.attempt + 1 /\ next.place = 1 /\ next.outer = call.outer
           /\ next.stage = (IF axScenario.requestThrows = "no" THEN "sent" ELSE "answered")
           /\ axScenario.requestThrows # "no" =>
                next.result = [ok |-> FALSE, attempt |-> call.attempt + 1, known |-> FALSE]
           /\ axScenario.requestThrows = "no" /\ AxPatched =>
                next.config = [start |-> axNow, data |-> "serialised", body |-> call.config.data]
<1> DEFINE ours == AxPatched /\ ~RequestInterceptorThrew("before")
           config == IF ours THEN [call.config EXCEPT !.start = axNow, !.body = call.config.data]
                     ELSE call.config
           thrown == RequestInterceptorThrew("before") \/ RequestInterceptorThrew("after")
           sends == IF thrown THEN config ELSE [config EXCEPT !.data = "serialised"]
           failed == [ok |-> FALSE, attempt |-> call.attempt + 1, known |-> FALSE]
<1>1. next = [call EXCEPT !.attempt = @ + 1, !.stage = IF thrown THEN "answered" ELSE "sent",
                          !.place = 1, !.result = IF thrown THEN failed ELSE @, !.config = sends]
  BY DEF BeginAttempt
<1>2. thrown <=> axScenario.requestThrows # "no"
  BY DEF RequestInterceptorThrew
<1>3. axScenario.requestThrows = "no" /\ AxPatched =>
        sends = [start |-> axNow, data |-> "serialised", body |-> call.config.data]
  <2> SUFFICES ASSUME axScenario.requestThrows = "no", AxPatched
               PROVE  sends = [start |-> axNow, data |-> "serialised", body |-> call.config.data]
    OBVIOUS
  <2> PICK start, data, body : start = call.config.start /\ data = call.config.data /\ body = call.config.body
    OBVIOUS
  <2>1. ours /\ ~thrown
    BY <1>2 DEF RequestInterceptorThrew
  <2>2. call.config = [start |-> start, data |-> data, body |-> body]
    OBVIOUS
  <2>3. [call.config EXCEPT !.start = axNow, !.body = data] = [start |-> axNow, data |-> data, body |-> data]
    <3> PICK old : old = call.config
      OBVIOUS
    <3> PICK marked : marked = [old EXCEPT !.start = axNow, !.body = data]
      OBVIOUS
    <3>1. old = [start |-> start, data |-> data, body |-> body]
      BY <2>2
    <3>2. marked.start = axNow /\ marked.data = data /\ marked.body = data
      BY ONLY <3>1, marked = [old EXCEPT !.start = axNow, !.body = data]
    <3>3. marked = [f \in {"start", "data", "body"} |-> marked[f]]
      BY ONLY <3>1, marked = [old EXCEPT !.start = axNow, !.body = data]
    <3>4. marked = [start |-> marked.start, data |-> marked.data, body |-> marked.body]
      BY ONLY <3>3
    <3>5. marked = [start |-> axNow, data |-> data, body |-> data]
      BY ONLY <3>2, <3>4
    <3> QED  BY <3>5
  <2>4. config = [start |-> axNow, data |-> data, body |-> data]
    BY <2>1, <2>3
  <2>5. sends = [config EXCEPT !.data = "serialised"]
    BY <2>1
  <2> HIDE DEF config, sends
  <2> QED  BY <2>4, <2>5
<1> HIDE DEF sends, thrown, failed
<1>4. DOMAIN call = AxFields
  OBVIOUS
<1>5. /\ next.attempt = call.attempt + 1 /\ next.place = 1 /\ next.outer = call.outer
      /\ next.stage = (IF thrown THEN "answered" ELSE "sent")
      /\ next.result = (IF thrown THEN failed ELSE call.result)
      /\ next.config = sends
  BY <1>1, <1>4 DEF AxFields
<1>6. thrown => next.result = failed
  BY <1>5
<1> QED  BY <1>2, <1>3, <1>5, <1>6 DEF failed

-----------------------------------------------------------------------------
LEMMA AxConcatFacts ==
    ASSUME NEW s, IsSeq(s), NEW t, IsSeq(t)
    PROVE  /\ IsSeq(s \o t) /\ Len(s \o t) = Len(s) + Len(t)
           /\ \A i \in 1..(Len(s) + Len(t)) :
                (s \o t)[i] = IF i <= Len(s) THEN s[i] ELSE t[i - Len(s)]
<1>1. PICK S : s \in Seq(S)
  BY DEF IsSeq
<1>2. PICK T : t \in Seq(T)
  BY DEF IsSeq
<1> PICK A : A = S \cup T
  OBVIOUS
<1>3. s \in Seq(A) /\ t \in Seq(A)
  BY <1>1, <1>2, SeqMonotonic
<1> QED  BY <1>3, ConcatProperties DEF IsSeq

(* The entries are those of the panel and, after them, the recorded ones.  *)
LEMMA AxGatheredOneMore ==
    ASSUME NEW first, IsSeq(first), NEW recorded, IsSeq(recorded), NEW entry
    PROVE  /\ IsSeq(first \o Append(recorded, entry))
           /\ Len(first \o Append(recorded, entry)) = Len(first \o recorded) + 1
           /\ (first \o Append(recorded, entry))[Len(first \o recorded) + 1] = entry
           /\ \A i \in 1..Len(first \o recorded) :
                (first \o Append(recorded, entry))[i] = (first \o recorded)[i]
<1> PICK longer : longer = Append(recorded, entry)
  OBVIOUS
<1> PICK entries : entries = first \o recorded
  OBVIOUS
<1> PICK more : more = first \o longer
  OBVIOUS
<1>0. /\ IsSeq(longer) /\ Len(longer) = Len(recorded) + 1 /\ longer[Len(recorded) + 1] = entry
      /\ \A i \in 1..Len(recorded) : longer[i] = recorded[i]
  BY AppendFacts
<1>1. IsSeq(first) /\ entries = first \o recorded /\ more = first \o longer
  OBVIOUS
<1>2. /\ IsSeq(more) /\ Len(more) = Len(first) + Len(longer)
      /\ \A i \in 1..(Len(first) + Len(longer)) :
           more[i] = IF i <= Len(first) THEN first[i] ELSE longer[i - Len(first)]
  BY ONLY <1>0, <1>1, AxConcatFacts
<1>3. /\ Len(entries) = Len(first) + Len(recorded)
      /\ \A i \in 1..(Len(first) + Len(recorded)) :
           entries[i] = IF i <= Len(first) THEN first[i] ELSE recorded[i - Len(first)]
  BY ONLY IsSeq(recorded), <1>1, AxConcatFacts
<1>4. Len(first) \in Nat /\ Len(recorded) \in Nat
  BY <1>1, SeqFacts
<1> PICK m \in Nat, n \in Nat : m = Len(first) /\ n = Len(recorded)
  BY <1>4
<1> PICK k \in Nat : k = Len(longer) /\ k = n + 1
  BY <1>0
<1>5. /\ Len(more) = m + n + 1 /\ Len(entries) = m + n /\ longer[n + 1] = entry
      /\ \A i \in 1..n : longer[i] = recorded[i]
      /\ \A i \in 1..(m + n + 1) : more[i] = IF i <= m THEN first[i] ELSE longer[i - m]
      /\ \A i \in 1..(m + n) : entries[i] = IF i <= m THEN first[i] ELSE recorded[i - m]
  <2>1. m = Len(first) /\ n = Len(recorded) /\ k = Len(longer) /\ k = n + 1
    OBVIOUS
  <2>2. Len(more) = m + k /\ m + k = m + n + 1
    BY ONLY <1>2, <2>1, m \in Nat, n \in Nat
  <2>3. \A i \in 1..(m + n + 1) : more[i] = IF i <= m THEN first[i] ELSE longer[i - m]
    BY ONLY <1>2, <2>1, <2>2
  <2>4. /\ Len(entries) = m + n
        /\ \A i \in 1..(m + n) : entries[i] = IF i <= m THEN first[i] ELSE recorded[i - m]
    BY ONLY <1>3, <2>1
  <2>5. longer[n + 1] = entry /\ \A i \in 1..n : longer[i] = recorded[i]
    BY ONLY <1>0, <2>1
  <2> QED  BY ONLY <2>2, <2>3, <2>4, <2>5
<1>6. more[Len(entries) + 1] = entry
  <2>1. m + n + 1 \in 1..(m + n + 1) /\ ~(m + n + 1 <= m) /\ m + n + 1 - m = n + 1
    BY ONLY m \in Nat, n \in Nat
  <2> QED  BY ONLY <1>5, <2>1
<1>7. ASSUME NEW i \in 1..Len(entries) PROVE more[i] = entries[i]
  <2>1. i \in 1..(m + n)
    BY <1>5
  <2>2. CASE i <= m
    <3>1. i \in 1..(m + n + 1)
      BY ONLY <2>1, m \in Nat, n \in Nat
    <3>2. more[i] = IF i <= m THEN first[i] ELSE longer[i - m]
      BY ONLY <1>5, <3>1
    <3>3. entries[i] = IF i <= m THEN first[i] ELSE recorded[i - m]
      BY ONLY <1>5, <2>1
    <3> QED  BY ONLY <2>2, <3>2, <3>3
  <2>3. CASE ~(i <= m)
    <3>1. i - m \in 1..n /\ i \in 1..(m + n + 1)
      BY <2>1, <2>3
    <3> QED  BY ONLY <1>5, <2>1, <2>3, <3>1
  <2> QED  BY <2>2, <2>3
<1> QED  BY <1>2, <1>5, <1>6, <1>7

AxEntryFields == {"told", "error", "url", "start", "duration", "body", "phases"}

LEMMA AxFingerprintKeeps ==
    ASSUME NEW entry, AxEntryFields \subseteq DOMAIN entry, NEW field \in AxEntryFields
    PROVE  Fingerprinted(entry)[field] = entry[field]
BY DEF Fingerprinted, AxEntryFields

LEMMA AxTellsTheSame ==
    ASSUME NEW scenario, NEW entry, NEW other, EntryTells(scenario, entry),
           other.told = entry.told, other.error = entry.error, other.url = entry.url,
           other.duration = entry.duration, other.body = entry.body
    PROVE  EntryTells(scenario, other)
BY Zenon DEF EntryTells

LEMMA AxSoundCollects ==
    ASSUME NEW scenario, NEW call, NEW entries, NEW others, NEW now,
           AxSound(scenario, call, entries, now), IsSeq(others), Len(others) = Len(entries),
           \A i \in 1..Len(entries) :
             /\ others[i].told = entries[i].told /\ others[i].error = entries[i].error
             /\ others[i].url = entries[i].url /\ others[i].duration = entries[i].duration
             /\ others[i].body = entries[i].body
    PROVE  AxSound(scenario, call, others, now)
<1>1. DOMAIN others = 1..Len(entries) /\ DOMAIN entries = 1..Len(entries)
  BY SeqFacts DEF AxSound, AxListedAs
<1>2. ASSUME NEW i \in DOMAIN others
      PROVE  /\ others[i].told = IF AheadIn(scenario.chain, "retry") THEN call.attempt ELSE i
             /\ EntryTells(scenario, others[i])
  <2>1. /\ entries[i].told = IF AheadIn(scenario.chain, "retry") THEN call.attempt ELSE i
        /\ EntryTells(scenario, entries[i])
    BY <1>1 DEF AxSound, AxListedAs
  <2>2. EntryTells(scenario, others[i])
    BY <1>1, <2>1, AxTellsTheSame
  <2> QED  BY <1>1, <2>1, <2>2
<1> QED  BY <1>2 DEF AxSound, AxListedAs

-----------------------------------------------------------------------------
(* Entries are only made by a pair; the pairs are put before the call.     *)
AxPairsOnce == \A i \in AxClients : axPairs[i] = <<>> \/ Len(axPairs[i]) = 1

AxMore ==
    /\ axScenario \in AxScenarios /\ AxPairsOnce
    /\ \A i \in DOMAIN axRecorded : AxEntryFields \subseteq DOMAIN axRecorded[i]
    /\ IF AxPatched \/ axCall.stage = "unsent" THEN AxSound(axScenario, axCall, AxEntries, axNow)
       ELSE AxEntries = <<>>

(* A step that neither records nor installs.                               *)
LEMMA AxMoreStays ==
    ASSUME AxMore, axScenario' = axScenario, axPairs' = axPairs, axPanel' = axPanel,
           axRecorded' = axRecorded, axCall'.stage # "unsent",
           AxPatched => AxSound(axScenario, axCall', AxEntries, axNow')
    PROVE  AxMore'
<1>1. AxEntries' = AxEntries /\ AxPairsOnce'
  BY DEF AxEntries, AxMore, AxPairsOnce, AxClients
<1>2. AxPatched' <=> AxPatched
  BY DEF AxPatched
<1>3. CASE AxPatched
  BY <1>1, <1>2, <1>3 DEF AxMore
<1>4. CASE ~AxPatched
  <2>1. AxEntries = <<>>
    <3>1. CASE axCall.stage = "unsent"
      <4>1. AxListedAs(axScenario, axCall, AxEntries)
        BY <3>1 DEF AxMore, AxSound
      <4>2. IsSeq(AxEntries) /\ Len(AxEntries) = 0
        BY <3>1, <4>1 DEF AxListedAs, AxCounted
      <4> QED  BY <4>2, SeqFacts
    <3>2. CASE axCall.stage # "unsent"
      BY <1>4, <3>2 DEF AxMore
    <3> QED  BY <3>1, <3>2
  <2> QED  BY <1>1, <1>2, <1>4, <2>1 DEF AxMore
<1> QED  BY <1>3, <1>4

LEMMA AxMoreInitially == AxInit => AxMore
<1> SUFFICES ASSUME NEW scenario \in AxScenarios, AxStart(scenario) PROVE AxMore
  BY DEF AxInit
<1>1. axScenario = scenario /\ axRecorded = <<>> /\ axPanel = <<>> /\ axNow = 1 /\ AxPairsOnce
  BY DEF AxStart, AxPairsOnce
<1>2. AxEntries = <<>> /\ IsSeq(AxEntries) /\ DOMAIN AxEntries = {} /\ Len(AxEntries) = 0
  <2>1. AxEntries = <<>>
    BY <1>1 DEF AxEntries
  <2>2. <<>> \in Seq({}) /\ Len(<<>>) = 0 /\ DOMAIN <<>> = {}
    BY EmptySeq
  <2> QED  BY <2>1, <2>2 DEF IsSeq
<1> PICK call : call = axCall
  OBVIOUS
<1>3. /\ call.stage = "unsent" /\ call.place = 1 /\ call.outer = <<>> /\ call.attempt = 0
      /\ call.config = [start |-> AxNone, data |-> "passed", body |-> AxNone]
  BY DEF AxStart
<1>4. call.config = [start |-> call.config.start, data |-> call.config.data, body |-> call.config.body]
      /\ call.config.data = "passed"
  BY <1>3
<1>5. AxPlaced(scenario, call)
  <2>1. Len(scenario.chain) \in Nat
    BY AxChainOf
  <2> QED  BY <1>3, <2>1 DEF AxPlaced
<1>6. AxMarked(scenario, call, axNow)
  BY <1>3, <1>4 DEF AxMarked
<1>7. AxListedAs(scenario, call, AxEntries)
  <2>1. AxNested(scenario.chain, call.outer, 0)
    BY <1>3, AxNestedEmpty
  <2>2. AxCounted(scenario.chain, call, 0, Len(AxEntries))
    BY <1>2, <1>3 DEF AxCounted
  <2> QED  BY <1>2, <2>1, <2>2 DEF AxListedAs
<1>8. AxSound(scenario, call, AxEntries, axNow)
  BY <1>1, <1>3, <1>5, <1>6, <1>7 DEF AxSound
<1>9. DOMAIN axRecorded = {}
  BY <1>1, <1>2 DEF AxEntries
<1> QED  BY <1>1, <1>3, <1>8, <1>9 DEF AxMore

LEMMA AxMoreInstalls == ASSUME AxMore, NEW app, InstallAxios(app) PROVE AxMore'
<1>1. /\ axCall.stage = "unsent" /\ axScenario' = axScenario /\ axCall' = axCall
      /\ axRecorded' = axRecorded /\ axPanel' = axPanel /\ axNow' = axNow
  BY DEF InstallAxios
<1>2. AxEntries' = AxEntries
  BY <1>1 DEF AxEntries
<1>3. AxPairsOnce'
  <2>1. ASSUME NEW i \in AxClients PROVE axPairs'[i] = <<>> \/ Len(axPairs'[i]) = 1
    <3>1. axPairs'[i] \in {Append(axPairs[i], app), axPairs[i]}
          /\ (axPairs'[i] = axPairs[i] \/ axPairs[i] = <<>>)
      BY <2>1 DEF InstallAxios, AxUnpatched
    <3>2. Len(Append(<<>>, app)) = 1
      <4>1. <<>> \in Seq({app}) /\ Len(<<>>) = 0
        BY EmptySeq
      <4> QED  BY <4>1, AppendProperties
    <3>3. CASE axPairs'[i] = axPairs[i]
      BY <3>3 DEF AxMore, AxPairsOnce
    <3>4. CASE axPairs'[i] # axPairs[i]
      BY <3>1, <3>2, <3>4
    <3> QED  BY <3>3, <3>4
  <2> QED  BY <2>1 DEF AxPairsOnce, AxClients
<1> QED  BY <1>1, <1>2, <1>3 DEF AxMore

LEMMA AxMoreSends == ASSUME AxInv, AxMore, AxSend PROVE AxMore'
<1> PICK call, next : call = axCall /\ next = BeginAttempt(axCall)
  OBVIOUS
<1>1. /\ call.stage = "unsent" /\ axCall' = next /\ axNow' = axNow + 1 /\ axScenario' = axScenario
      /\ axPairs' = axPairs /\ axRecorded' = axRecorded /\ axPanel' = axPanel
  BY DEF AxSend
<1>2. /\ axCall = [f \in AxFields |-> axCall[f]] /\ axCall.attempt \in Nat
      /\ axCall.stage = "unsent" <=> axCall.attempt = 0
  BY DEF AxInv, AxTyped
<1>3. axScenario.requestThrows \in {"no", "before", "after"} /\ axScenario \in AxScenarios
  BY AxChainOf DEF AxMore
<1>4. AxSound(axScenario, axCall, AxEntries, axNow)
  BY <1>1 DEF AxMore
<1>5. /\ next.attempt = call.attempt + 1 /\ next.place = 1 /\ next.outer = call.outer
      /\ next.stage = (IF axScenario.requestThrows = "no" THEN "sent" ELSE "answered")
      /\ axScenario.requestThrows # "no" =>
           next.result = [ok |-> FALSE, attempt |-> call.attempt + 1, known |-> FALSE]
      /\ axScenario.requestThrows = "no" /\ AxPatched =>
           next.config = [start |-> axNow, data |-> "serialised", body |-> call.config.data]
  <2>1. axScenario.requestThrows = "no" =>
          call.config = [start |-> call.config.start, data |-> call.config.data,
                         body |-> call.config.body]
    BY <1>4 DEF AxSound, AxMarked
  <2> QED  BY <1>2, <1>3, <2>1, AxBeginsAs
<1>6. ASSUME AxPatched PROVE AxSound(axScenario, next, AxEntries, axNow + 1)
  BY <1>1, <1>2, <1>3, <1>4, <1>5, <1>6, AxSoundBegins
<1>7. axCall'.stage # "unsent"
  BY <1>1, <1>5
<1> QED  BY <1>1, <1>6, <1>7, AxMoreStays

LEMMA AxMoreAnswers == ASSUME AxInv, AxMore, AxAnswer PROVE AxMore'
<1> PICK ok : ok = (axCall.attempt > axScenario.fails)
  OBVIOUS
<1>1. ok \in BOOLEAN /\ (ok <=> axCall.attempt > axScenario.fails)
  <2>1. ok \in BOOLEAN
    BY ONLY ok = (axCall.attempt > axScenario.fails)
  <2> QED  BY ONLY <2>1, ok = (axCall.attempt > axScenario.fails)
<1>2. /\ axCall.stage = "sent" /\ axNow' = axNow + 1 /\ axScenario' = axScenario
      /\ axPairs' = axPairs /\ axRecorded' = axRecorded /\ axPanel' = axPanel
  BY DEF AxAnswer
<1> PICK result : result = [ok |-> ok, attempt |-> axCall.attempt, known |-> TRUE]
  OBVIOUS
<1> PICK next : next = [axCall EXCEPT !.stage = "answered", !.result = result]
  OBVIOUS
<1>3. axCall' = next
  BY Zenon DEF AxAnswer
<1>4. /\ axCall = [f \in AxFields |-> axCall[f]] /\ axCall.attempt \in Nat
  BY DEF AxInv, AxTyped
<1>5. /\ next.stage = "answered" /\ next.attempt = axCall.attempt /\ next.place = axCall.place
      /\ next.outer = axCall.outer /\ next.config = axCall.config /\ next.result = result
  BY <1>4 DEF AxFields
<1>6. ASSUME AxPatched PROVE AxSound(axScenario, next, AxEntries, axNow + 1)
  <2>1. AxSound(axScenario, axCall, AxEntries, axNow) /\ axScenario \in AxScenarios
    BY <1>6 DEF AxMore
  <2> QED  BY <1>1, <1>2, <1>4, <1>5, <2>1, AxSoundAnswers
<1> QED  BY <1>2, <1>3, <1>5, <1>6, AxMoreStays

LEMMA AxMoreMaps == ASSUME AxInv, AxMore, HostMaps PROVE AxMore'
<1>1. /\ axCall.stage = "answered" /\ axNow' = axNow /\ axScenario' = axScenario
      /\ axPairs' = axPairs /\ axRecorded' = axRecorded /\ axPanel' = axPanel
      /\ axCall.place <= Len(axScenario.chain) /\ axScenario.chain[axCall.place] = "mapper"
  BY DEF HostMaps, AxHandling, AxChain, ChainHandler
<1>2. /\ axCall = [f \in AxFields |-> axCall[f]] /\ axCall.attempt \in Nat
      /\ AxResult(axCall.result, axCall.attempt)
  BY DEF AxInv, AxTyped
<1> PICK was, refused : was = axCall.result /\ refused = [was EXCEPT !.ok = FALSE, !.known = FALSE]
  OBVIOUS
<1>3. refused = [ok |-> FALSE, attempt |-> was.attempt, known |-> FALSE]
  <2>1. was = [ok |-> was.ok, attempt |-> was.attempt, known |-> was.known]
    BY <1>2 DEF AxResult
  <2> QED  BY <2>1
<1> PICK result : result = IF was.ok /\ axScenario.mapper THEN refused ELSE was
  OBVIOUS
<1> PICK next : next = [axCall EXCEPT !.place = @ + 1, !.result = result]
  OBVIOUS
<1>4. axCall' = next
  BY DEF HostMaps
<1>5. /\ next.stage = "answered" /\ next.attempt = axCall.attempt /\ next.place = axCall.place + 1
      /\ next.outer = axCall.outer /\ next.config = axCall.config /\ next.result = result
  BY <1>1, <1>2 DEF AxFields
<1>6. ASSUME AxPatched PROVE AxSound(axScenario, next, AxEntries, axNow)
  <2>1. AxSound(axScenario, axCall, AxEntries, axNow) /\ axScenario \in AxScenarios
    BY <1>6 DEF AxMore
  <2>2. axCall.place \in DOMAIN axScenario.chain
    <3>1. Len(axScenario.chain) \in Nat /\ DOMAIN axScenario.chain = 1..Len(axScenario.chain)
      BY <2>1, AxChainOf
    <3>2. axCall.place \in 1..(Len(axScenario.chain) + 1)
      BY <2>1 DEF AxSound, AxPlaced
    <3> QED  BY <1>1, <3>1, <3>2
  <2>3. Passed(axScenario.chain, next.place, "mapper")
    BY <1>1, <1>5, <2>1, <2>2, AxPassedOne
  <2>4. AxAnswered(axScenario, axCall)
    BY <1>1, <2>1 DEF AxSound
  <2>5. AxAnswered(axScenario, next)
    <3>1. IF axCall.result.ok /\ axScenario.mapper
          THEN next.result = [ok |-> FALSE, attempt |-> axCall.result.attempt, known |-> FALSE]
          ELSE next.result = axCall.result
      BY <1>3, <1>5
    <3> QED  BY <1>2, <1>5, <2>1, <2>3, <2>4, <3>1, AxAnswerMapped
  <2> QED  BY <1>1, <1>2, <1>5, <2>1, <2>2, <2>5, AxSoundPasses
<1> QED  BY <1>1, <1>4, <1>5, <1>6, AxMoreStays

LEMMA AxMoreEnds == ASSUME AxInv, AxMore, AxChainEnds PROVE AxMore'
<1>1. /\ axCall.stage = "answered" /\ axNow' = axNow /\ axScenario' = axScenario
      /\ axPairs' = axPairs /\ axRecorded' = axRecorded /\ axPanel' = axPanel
      /\ axCall.place > Len(axScenario.chain)
  BY DEF AxChainEnds, AxChain
<1>2. axCall = [f \in AxFields |-> axCall[f]] /\ axCall.attempt \in Nat
  BY DEF AxInv, AxTyped
<1> PICK next : next = IF axCall.outer = <<>> THEN [axCall EXCEPT !.stage = "done"]
                       ELSE [axCall EXCEPT !.outer = axCall.outer[1], !.place = axCall.outer[2] + 1]
  OBVIOUS
<1>3. axCall' = next
  BY DEF AxChainEnds
<1>4. /\ next.attempt = axCall.attempt /\ next.config = axCall.config /\ next.result = axCall.result
      /\ IF axCall.outer = <<>>
         THEN next.stage = "done" /\ next.place = axCall.place /\ next.outer = axCall.outer
         ELSE /\ next.stage = axCall.stage /\ next.outer = axCall.outer[1]
              /\ next.place = axCall.outer[2] + 1
  <2>1. CASE axCall.outer = <<>>
    BY <1>2, <2>1 DEF AxFields
  <2>2. CASE axCall.outer # <<>>
    BY <1>2, <2>2 DEF AxFields
  <2> QED  BY <2>1, <2>2
<1>5. ASSUME AxPatched PROVE AxSound(axScenario, next, AxEntries, axNow)
  <2>1. AxSound(axScenario, axCall, AxEntries, axNow) /\ axScenario \in AxScenarios
    BY <1>5 DEF AxMore
  <2> QED  BY <1>1, <1>2, <1>4, <2>1, AxSoundReturns
<1>6. next.stage # "unsent"
  BY <1>1, <1>4
<1> QED  BY <1>1, <1>3, <1>5, <1>6, AxMoreStays

LEMMA AxMoreRetries == ASSUME AxInv, AxMore, HostRetries PROVE AxMore'
<1>1. /\ axCall.stage = "answered" /\ axNow' = axNow + 1 /\ axScenario' = axScenario
      /\ axPairs' = axPairs /\ axRecorded' = axRecorded /\ axPanel' = axPanel
      /\ axCall.place <= Len(axScenario.chain) /\ axScenario.chain[axCall.place] = "retry"
  BY DEF HostRetries, AxHandling, AxChain, ChainHandler
<1>2. /\ axCall = [f \in AxFields |-> axCall[f]] /\ axCall.attempt \in Nat /\ axCall.attempt > 0
  BY <1>1 DEF AxInv, AxTyped
<1>3. axScenario \in AxScenarios /\ axScenario.requestThrows \in {"no", "before", "after"}
  BY AxChainOf DEF AxMore
<1>4. ASSUME AxPatched
      PROVE  /\ AxSound(axScenario, axCall, AxEntries, axNow) /\ AxAnswered(axScenario, axCall)
             /\ axCall.place \in DOMAIN axScenario.chain
  <2>1. AxSound(axScenario, axCall, AxEntries, axNow)
    BY <1>4 DEF AxMore
  <2>2. Len(axScenario.chain) \in Nat /\ DOMAIN axScenario.chain = 1..Len(axScenario.chain)
    BY <1>3, AxChainOf
  <2>3. axCall.place \in 1..(Len(axScenario.chain) + 1)
    BY <2>1 DEF AxSound, AxPlaced
  <2> QED  BY <1>1, <2>1, <2>2, <2>3 DEF AxSound
<1>5. CASE HostMayRetry
  <2> PICK again, next : again = [axCall EXCEPT !.outer = <<@, axCall.place>>] /\ next = BeginAttempt(again)
    OBVIOUS
  <2>1. axCall' = next
    BY <1>5 DEF HostRetries
  <2>2. /\ again = [f \in AxFields |-> again[f]] /\ again.attempt = axCall.attempt
        /\ again.outer = <<axCall.outer, axCall.place>> /\ again.config = axCall.config
        /\ AxResult(again.result, again.attempt)
    <3>1. AxResult(axCall.result, axCall.attempt)
      BY DEF AxInv, AxTyped
    <3>2. /\ again = [f \in AxFields |-> again[f]] /\ again.attempt = axCall.attempt
          /\ again.outer = <<axCall.outer, axCall.place>> /\ again.config = axCall.config
          /\ again.result = axCall.result
      BY <1>2 DEF AxFields
    <3> QED  BY <3>1, <3>2
  <2>3. next.stage \in {"answered", "sent"}
    BY <1>2, <2>2, AxBegins
  <2>4. ASSUME AxPatched PROVE AxSound(axScenario, next, AxEntries, axNow + 1)
    <3>1. axScenario.requestThrows = "no"
      BY <1>4, <1>5, <2>4 DEF AxAnswered, HostMayRetry
    <3>2. axCall.config = [start |-> axCall.config.start, data |-> axCall.config.data,
                           body |-> axCall.config.body]
      BY <1>4, <2>4, <3>1 DEF AxSound, AxMarked
    <3>3. again.config = [start |-> again.config.start, data |-> again.config.data,
                          body |-> again.config.body]
      BY <2>2, <3>2
    <3>4. /\ next.attempt = axCall.attempt + 1 /\ next.place = 1
          /\ next.outer = <<axCall.outer, axCall.place>>
          /\ next.stage = (IF axScenario.requestThrows = "no" THEN "sent" ELSE "answered")
          /\ next.config = [start |-> axNow, data |-> "serialised", body |-> axCall.config.data]
      <4>1. next = BeginAttempt(again)
        OBVIOUS
      <4>2. /\ next.attempt = again.attempt + 1 /\ next.place = 1 /\ next.outer = again.outer
            /\ next.stage = (IF axScenario.requestThrows = "no" THEN "sent" ELSE "answered")
            /\ axScenario.requestThrows = "no" /\ AxPatched =>
                 next.config = [start |-> axNow, data |-> "serialised", body |-> again.config.data]
        BY ONLY <1>3, <2>2, <3>3, <4>1, AxBeginsAs
      <4> QED  BY <2>2, <2>4, <3>1, <4>2
    <3> QED  BY <1>1, <1>2, <1>3, <1>4, <2>4, <3>1, <3>4, AxSoundBegins
  <2> QED  BY <1>1, <2>1, <2>3, <2>4, AxMoreStays
<1>6. CASE ~HostMayRetry
  <2> PICK next : next = [axCall EXCEPT !.place = @ + 1]
    OBVIOUS
  <2>1. axCall' = next
    BY <1>6 DEF HostRetries
  <2>2. /\ next.stage = "answered" /\ next.attempt = axCall.attempt /\ next.place = axCall.place + 1
        /\ next.outer = axCall.outer /\ next.config = axCall.config /\ next.result = axCall.result
    BY <1>1, <1>2 DEF AxFields
  <2>3. ASSUME AxPatched PROVE AxSound(axScenario, next, AxEntries, axNow + 1)
    <3>1. \A name : Passed(axScenario.chain, next.place, name)
                    <=> Passed(axScenario.chain, axCall.place, name) \/ axScenario.chain[axCall.place] = name
      BY <1>3, <1>4, <2>2, <2>3, AxPassedOne
    <3>2. AxAnswered(axScenario, next)
      BY <1>1, <1>2, <1>3, <1>4, <2>2, <2>3, <3>1, AxAnswerPasses
    <3>3. axNow + 1 \in {axNow, axNow + 1}
      OBVIOUS
    <3> QED  BY <1>1, <1>2, <1>3, <1>4, <2>2, <2>3, <3>2, <3>3, AxSoundPasses
  <2> QED  BY <1>1, <2>1, <2>2, <2>3, AxMoreStays
<1> QED  BY <1>5, <1>6

LEMMA AxMoreCaptures == ASSUME AxInv, AxMore, CaptureAttempt PROVE AxMore'
<1> PICK entry, more :
      /\ entry = CaptureEntry(axCall.result, RequestConfig(axCall.result))
      /\ more = Append(axRecorded, entry)
  OBVIOUS
<1>1. /\ axCall.stage = "answered" /\ axNow' = axNow + 1 /\ axScenario' = axScenario
      /\ axPairs' = axPairs /\ axPanel' = axPanel
      /\ axRecorded' = (IF AxPatched THEN more ELSE axRecorded)
      /\ axCall.place <= Len(axScenario.chain) /\ axScenario.chain[axCall.place] = "ours"
  BY DEF CaptureAttempt, AxHandling, AxChain, ChainHandler
<1>2. /\ axCall = [f \in AxFields |-> axCall[f]] /\ axCall.attempt \in Nat /\ axCall.attempt > 0
      /\ IsSeq(axRecorded) /\ (axPanel = <<>> \/ IsSeq(axPanel[1]))
  BY <1>1 DEF AxInv, AxTyped, AxListed
<1> PICK next : next = [axCall EXCEPT !.place = @ + 1]
  OBVIOUS
<1>3. axCall' = next
  BY DEF CaptureAttempt
<1>4. /\ next.stage = "answered" /\ next.attempt = axCall.attempt /\ next.place = axCall.place + 1
      /\ next.outer = axCall.outer /\ next.config = axCall.config /\ next.result = axCall.result
  BY <1>1, <1>2 DEF AxFields
<1>5. CASE ~AxPatched
  BY <1>1, <1>3, <1>4, <1>5, AxMoreStays
<1>6. CASE AxPatched
  <2>1. AxSound(axScenario, axCall, AxEntries, axNow) /\ axScenario \in AxScenarios
    BY <1>6 DEF AxMore
  <2>2. AxAnswered(axScenario, axCall) /\ axNow \in Nat
    BY <1>1, <2>1 DEF AxSound
  <2>3. axCall.place \in DOMAIN axScenario.chain
    <3>1. Len(axScenario.chain) \in Nat /\ DOMAIN axScenario.chain = 1..Len(axScenario.chain)
      BY <2>1, AxChainOf
    <3>2. axCall.place \in 1..(Len(axScenario.chain) + 1)
      BY <2>1 DEF AxSound, AxPlaced
    <3> QED  BY <1>1, <3>1, <3>2
  <2> PICK config, ok, known : config = RequestConfig(axCall.result) /\ ok = axCall.result.ok
                               /\ known = axCall.result.known
    OBVIOUS
  <2>4. ok \in BOOLEAN /\ known \in BOOLEAN
    BY <2>2 DEF AxAnswered
  <2>5. config.start = IF known THEN axCall.config.start ELSE AxNone
    BY DEF RequestConfig, NoAxConfig
  <2>6. known => axCall.config.start # AxNone /\ config = axCall.config
    <3>1. SUFFICES ASSUME known PROVE axCall.config.start # AxNone /\ config = axCall.config
      OBVIOUS
    <3>2. axScenario.requestThrows = "no"
      BY <2>1, <2>2, <3>1, AxChainOf DEF AxAnswered
    <3>3. axCall.config.start \in Nat
      BY <1>1, <2>1, <3>2 DEF AxSound, AxMarked
    <3> QED  BY <3>1, <3>3, AxAssumption DEF RequestConfig
  <2>7. /\ entry.told = axCall.result.attempt
        /\ entry.error = ~ok
        /\ entry.url = (IF known THEN "known" ELSE "unknown")
        /\ entry.duration = (IF config.start = AxNone THEN 0 ELSE axNow - config.start)
        /\ entry.body = (IF known /\ axScenario.method = "POST" THEN config.body ELSE AxNone)
        /\ AxEntryFields \subseteq DOMAIN entry
    BY DEF CaptureEntry, AxEntryFields
  <2>8. entry.error \in BOOLEAN /\ (entry.error <=> ~ok)
    BY <2>4, <2>7
  <2>9. entry.duration = (IF known THEN axNow - axCall.config.start ELSE 0)
    BY <2>5, <2>6, <2>7
  <2>10. known /\ axScenario.method = "POST" => entry.body = axCall.config.body
    BY <2>6, <2>7
  <2> PICK entries, all :
        /\ entries = AxEntries
        /\ all = IF axPanel = <<>> THEN more ELSE axPanel[1] \o more
    OBVIOUS
  <2>11. AxEntries' = all
    BY <1>1, <1>6 DEF AxEntries
  <2>12. /\ IsSeq(all) /\ Len(all) = Len(entries) + 1 /\ all[Len(entries) + 1] = entry
         /\ \A i \in 1..Len(entries) : all[i] = entries[i]
    <3>1. entries = (IF axPanel = <<>> THEN axRecorded ELSE axPanel[1] \o axRecorded)
      BY DEF AxEntries
    <3>2. all = (IF axPanel = <<>> THEN Append(axRecorded, entry)
                 ELSE axPanel[1] \o Append(axRecorded, entry))
      BY Zenon
    <3>3. CASE axPanel = <<>>
      <4>1. entries = axRecorded /\ all = Append(axRecorded, entry)
        BY <3>1, <3>2, <3>3
      <4> PICK recorded : recorded = axRecorded
        OBVIOUS
      <4>2. IsSeq(recorded) /\ entries = recorded /\ all = Append(recorded, entry)
        BY <1>2, <4>1
      <4> QED  BY ONLY <4>2, AppendFacts
    <3>4. CASE axPanel # <<>>
      <4> PICK first : first = axPanel[1]
        OBVIOUS
      <4> PICK recorded : recorded = axRecorded
        OBVIOUS
      <4>1. /\ IsSeq(first) /\ IsSeq(recorded) /\ entries = first \o recorded
            /\ all = first \o Append(recorded, entry)
        BY <1>2, <3>1, <3>2, <3>4
      <4> QED  BY ONLY <4>1, AxGatheredOneMore
    <3> QED  BY <3>3, <3>4
  <2>13. AxSound(axScenario, next, all, axNow + 1)
    BY <1>1, <1>2, <1>4, <2>1, <2>3, <2>7, <2>8, <2>9, <2>10, <2>12, AxSoundCaptures
  <2>14. \A i \in DOMAIN axRecorded' : AxEntryFields \subseteq DOMAIN axRecorded'[i]
    <3>1. /\ IsSeq(more) /\ Len(more) = Len(axRecorded) + 1 /\ more[Len(axRecorded) + 1] = entry
          /\ \A i \in 1..Len(axRecorded) : more[i] = axRecorded[i]
      BY <1>2, AppendFacts
    <3>2. DOMAIN more = 1..(Len(axRecorded) + 1) /\ DOMAIN axRecorded = 1..Len(axRecorded)
          /\ Len(axRecorded) \in Nat
      BY <1>2, <3>1, SeqFacts
    <3>3. \A i \in DOMAIN more : AxEntryFields \subseteq DOMAIN more[i]
      BY <2>7, <3>1, <3>2 DEF AxMore
    <3> QED  BY <1>1, <1>6, <3>3
  <2>15. AxPairsOnce' /\ AxPatched' /\ axScenario' \in AxScenarios
    BY <1>1, <1>6, <2>1 DEF AxMore, AxPairsOnce, AxPatched, AxClients
  <2> QED  BY <1>1, <1>3, <2>11, <2>13, <2>14, <2>15 DEF AxMore
<1> QED  BY <1>5, <1>6

LEMMA AxMoreCollects == ASSUME AxInv, AxMore, CollectCalls PROVE AxMore'
<1> PICK panel : panel = [i \in 1..Len(axRecorded) |-> Fingerprinted(axRecorded[i])]
  OBVIOUS
<1>1. /\ axScenario' = axScenario /\ axPairs' = axPairs /\ axCall' = axCall /\ axNow' = axNow
      /\ axPanel = <<>> /\ axPanel' = <<panel>> /\ axRecorded' = <<>>
  BY DEF CollectCalls
<1>2. /\ IsSeq(axRecorded) /\ Len(axRecorded) \in Nat /\ DOMAIN axRecorded = 1..Len(axRecorded)
      /\ AxEntries = axRecorded
  BY <1>1, SeqFacts DEF AxInv, AxListed, AxEntries
<1>3. IsSeq(panel) /\ Len(panel) = Len(axRecorded)
  <2>1. panel = [i \in 1..Len(axRecorded) |-> Fingerprinted(axRecorded[i])] /\ Len(axRecorded) \in Nat
    BY <1>2
  <2> QED  BY ONLY <2>1, FunIsSeq
<1>4. AxEntries' = panel
  <2>1. PICK S : panel \in Seq(S)
    BY <1>3 DEF IsSeq
  <2>2. panel \o <<>> = panel
    BY <2>1, ConcatEmptySeq
  <2>3. <<panel>> # <<>> /\ <<panel>>[1] = panel
    OBVIOUS
  <2> QED  BY <1>1, <2>2, <2>3 DEF AxEntries
<1>5. ASSUME NEW i \in 1..Len(axRecorded)
      PROVE  /\ panel[i].told = axRecorded[i].told /\ panel[i].error = axRecorded[i].error
             /\ panel[i].url = axRecorded[i].url /\ panel[i].duration = axRecorded[i].duration
             /\ panel[i].body = axRecorded[i].body
  <2> PICK entry : entry = axRecorded[i]
    OBVIOUS
  <2>1. AxEntryFields \subseteq DOMAIN entry
    BY <1>2, <1>5 DEF AxMore
  <2>2. \A field \in AxEntryFields : Fingerprinted(entry)[field] = entry[field]
    BY <2>1, AxFingerprintKeeps
  <2>3. panel[i] = Fingerprinted(entry)
    BY <1>5
  <2> QED  BY <2>2, <2>3 DEF AxEntryFields
<1>6. ASSUME AxPatched \/ axCall.stage = "unsent" PROVE AxSound(axScenario, axCall, panel, axNow)
  <2>1. AxSound(axScenario, axCall, axRecorded, axNow)
    BY <1>2, <1>6 DEF AxMore
  <2> QED  BY <1>3, <1>5, <2>1, AxSoundCollects
<1>7. ASSUME ~(AxPatched \/ axCall.stage = "unsent") PROVE panel = <<>>
  <2>1. axRecorded = <<>>
    BY <1>2, <1>7 DEF AxMore
  <2>2. Len(panel) = 0
    BY <1>2, <1>3, <2>1, SeqFacts
  <2> QED  BY <1>3, <2>2, SeqFacts
<1>8. AxPairsOnce' /\ (AxPatched' <=> AxPatched) /\ axScenario' \in AxScenarios
  BY <1>1 DEF AxMore, AxPairsOnce, AxPatched, AxClients
<1>9. DOMAIN axRecorded' = {}
  <2>1. <<>> \in Seq({}) /\ Len(<<>>) = 0
    BY EmptySeq
  <2> QED  BY <1>1, <2>1
<1> QED  BY <1>1, <1>4, <1>6, <1>7, <1>8, <1>9 DEF AxMore

LEMMA AxMoreStep == ASSUME AxInv, AxMore, [AxNext]_axVars PROVE AxMore'
<1>1. CASE UNCHANGED axVars
  <2>1. /\ axScenario' = axScenario /\ axPairs' = axPairs /\ axCall' = axCall /\ axNow' = axNow
        /\ axPanel' = axPanel /\ axRecorded' = axRecorded
    BY <1>1 DEF axVars
  <2>2. AxEntries' = AxEntries /\ (AxPatched' <=> AxPatched) /\ AxPairsOnce'
    BY <2>1 DEF AxEntries, AxPatched, AxPairsOnce, AxMore, AxClients
  <2> QED  BY <2>1, <2>2 DEF AxMore
<1> QED  BY <1>1, AxMoreInstalls, AxMoreSends, AxMoreAnswers, AxMoreCaptures, AxMoreMaps, AxMoreRetries,
            AxMoreEnds, AxMoreCollects DEF AxNext

LEMMA AxMoreEnough ==
    ASSUME AxInv, AxMore
    PROVE  ClientsPatchedOnce /\ AttemptsAreRecorded /\ EntriesTellTheAttempt
<1>1. ClientsPatchedOnce
  <2>1. Len(<<>>) = 0
    BY EmptySeq
  <2>2. ASSUME NEW i \in AxClients PROVE Len(axPairs[i]) <= 1
    <3>1. axPairs[i] = <<>> \/ Len(axPairs[i]) = 1
      BY DEF AxMore, AxPairsOnce
    <3>2. Len(axPairs[i]) = 0 \/ Len(axPairs[i]) = 1
      <4>1. CASE axPairs[i] = <<>>
        BY ONLY <2>1, <4>1
      <4> QED  BY <3>1, <4>1
    <3>3. PICK n \in {0, 1} : n = Len(axPairs[i])
      BY <3>2
    <3>4. n <= 1
      OBVIOUS
    <3> QED  BY ONLY <3>3, <3>4
  <2> QED  BY <2>2 DEF ClientsPatchedOnce
<1>2. \A name : AheadOfOurs(name) <=> AheadIn(axScenario.chain, name)
  BY DEF AheadOfOurs, AheadIn, AxChain
<1>3. AttemptsAreRecorded
  <2>1. SUFFICES ASSUME axCall.stage = "done", AxPatched
                 PROVE  /\ Len(AxEntries) = axCall.attempt
                        /\ \A i \in DOMAIN AxEntries :
                             AxEntries[i].told = IF AheadOfOurs("retry") THEN axCall.attempt ELSE i
    BY DEF AttemptsAreRecorded
  <2>2. AxListedAs(axScenario, axCall, AxEntries)
    BY <2>1 DEF AxMore, AxSound
  <2> QED  BY <1>2, <2>1, <2>2 DEF AxListedAs, AxCounted
<1>4. EntriesTellTheAttempt
  <2>1. CASE AxPatched \/ axCall.stage = "unsent"
    <3>1. AxListedAs(axScenario, axCall, AxEntries)
      BY <2>1 DEF AxMore, AxSound
    <3>2. \A i \in DOMAIN AxEntries : EntryTells(axScenario, AxEntries[i])
      BY <3>1 DEF AxListedAs
    <3> QED  BY Zenon, <1>2, <3>2 DEF EntriesTellTheAttempt, EntryTells
  <2>2. CASE ~(AxPatched \/ axCall.stage = "unsent")
    <3>1. <<>> \in Seq({}) /\ Len(<<>>) = 0
      BY EmptySeq
    <3>2. DOMAIN AxEntries = {}
      BY <2>2, <3>1 DEF AxMore
    <3> QED  BY <3>2 DEF EntriesTellTheAttempt
  <2> QED  BY <2>1, <2>2
<1> QED  BY <1>1, <1>3, <1>4

(* Every attempt of a call through axios is recorded once and told as it   *)
(* was, whatever the host's interceptors do with its answer and however    *)
(* often they retry it, and no client is patched twice.                    *)
THEOREM AxiosAttemptsTold ==
    AxSpec => [](ClientsPatchedOnce /\ AttemptsAreRecorded /\ EntriesTellTheAttempt /\ AxTypeOK)
<1>1. AxInit => AxInv /\ AxMore
  BY AxInitially, AxMoreInitially
<1>2. AxInv /\ AxMore /\ [AxNext]_axVars => AxInv' /\ AxMore'
  BY AxStep, AxMoreStep
<1>3. AxInv /\ AxMore => ClientsPatchedOnce /\ AttemptsAreRecorded /\ EntriesTellTheAttempt /\ AxTypeOK
  BY AxTypes, AxMoreEnough
<1> QED  BY <1>1, <1>2, <1>3, PTL DEF AxSpec

-----------------------------------------------------------------------------
(* MongoCommands: an edit is one of the document's, wherever it is held.   *)
MgBounded ==
    /\ mgProfiled \in [MgCalls -> BOOLEAN]
    /\ mgEdits \in 0..MgMaxEdits /\ mgNow \in 0..MgMaxTime
    /\ mgDocument.edit \in 0..MgMaxEdits
    /\ \A c \in MgCalls : mgDelta[c].update \in 0..MgMaxEdits
    /\ \A c \in MgCalls : mgKind[c] = "save" => mgCall[c].update \in 0..MgMaxEdits

LEMMA MgBoundedInitially == MgInit => MgBounded
<1> SUFFICES ASSUME NEW s \in MgScenarios, MgStart(s) PROVE MgBounded
  BY DEF MgInit
<1> QED  BY MgAssumption DEF MgStart, MgBounded

LEMMA MgBoundedStays ==
    ASSUME MgInv, MgBounded, mgKind' = mgKind, mgProfiled' = mgProfiled, mgEdits' = mgEdits,
           mgNow' = mgNow, mgDocument'.edit \in 0..MgMaxEdits, mgDelta' = mgDelta,
           \A c \in MgCalls : mgKind[c] = "save" => mgCall'[c].update \in 0..MgMaxEdits
    PROVE  MgBounded'
BY DEF MgBounded

LEMMA MgBoundedStep == ASSUME MgInv, MgBounded, [MgNext]_mgVars PROVE MgBounded'
<1>0. /\ mgKind \in [MgCalls -> MgKinds] /\ mgCall \in [MgCalls -> MgCallType]
      /\ mgDocument \in MgDocuments
      /\ MgMaxEdits \in Nat /\ MgMaxTime \in Nat
  BY MgAssumption DEF MgInv, MgTyped
<1>1. CASE UNCHANGED mgVars
  BY <1>1 DEF mgVars, MgBounded
<1>2. CASE EditDocument
  BY <1>0, <1>2 DEF EditDocument, MgBounded
<1>3. CASE MgTick
  BY <1>0, <1>3 DEF MgTick, MgBounded
<1>4. ASSUME NEW c \in MgCalls, NEW refusedBy, NEW late, NEW insert,
             Started(c, refusedBy, late, insert)
      PROVE  \A d \in MgCalls : mgCall'[d].update = mgCall[d].update
  <2>1. mgCall[c] \in MgCallType
    BY <1>0
  <2> PICK new : new = [mgCall[c] EXCEPT !.stage = "running", !.refusedBy = refusedBy,
                                         !.late = late, !.insert = insert, !.at = mgNow]
    OBVIOUS
  <2>2. new.update = mgCall[c].update
    BY <2>1 DEF MgCallType
  <2>3. mgCall' = [mgCall EXCEPT ![c] = new]
    BY <1>4 DEF Started
  <2> QED  BY <1>0, <2>2, <2>3
<1>5. ASSUME NEW c \in MgCalls, Save(c) PROVE MgBounded'
  <2>2. \A d \in MgCalls : mgCall'[d].update = mgCall[d].update
    BY <1>4, <1>5 DEF Save
  <2>3. mgDocument'.edit = mgDocument.edit
    BY <1>5, MgSaveStarted DEF MgInv
  <2> QED  BY <1>5, <2>2, <2>3, MgBoundedStays DEF Save, MgBounded
<1>6. ASSUME NEW c \in MgCalls, Exec(c) \/ OpenCursor(c) PROVE MgBounded'
  <2>1. \A d \in MgCalls : mgCall'[d].update = mgCall[d].update
    BY <1>4, <1>6 DEF Exec, OpenCursor
  <2> QED  BY <1>6, <2>1, MgBoundedStays DEF Exec, OpenCursor, MgBounded
<1>7. ASSUME NEW c \in MgCalls, SendSave(c) PROVE MgBounded'
  <2>1. \A d \in MgCalls : mgCall'[d].update \in {mgCall[d].update, mgDocument.edit}
    <3>1. mgCall[c] \in MgCallType
      BY <1>0
    <3> PICK inserts, sends :
          /\ inserts = [mgCall[c] EXCEPT !.stage = "sent", !.sent = "insertOne"]
          /\ sends = [mgCall[c] EXCEPT !.stage = "sent", !.update = mgDocument.edit,
                         !.sent = IF mgDocument.edit = 0 THEN "findOne" ELSE "updateOne"]
      OBVIOUS
    <3>2. inserts.update = mgCall[c].update /\ sends.update = mgDocument.edit
      BY <3>1 DEF MgCallType
    <3>3. mgCall' = [mgCall EXCEPT ![c] = inserts] \/ mgCall' = [mgCall EXCEPT ![c] = sends]
      BY <1>7 DEF SendSave
    <3> QED  BY <1>0, <3>2, <3>3
  <2>2. \A d \in MgCalls : mgDelta'[d].update \in {mgDelta[d].update, mgDocument.edit}
    BY <1>7 DEF SendSave
  <2>3. mgDocument'.edit = 0
    BY <1>0, <1>7 DEF SendSave, MgDocuments
  <2>4. /\ mgKind' = mgKind /\ mgProfiled' = mgProfiled /\ mgEdits' = mgEdits /\ mgNow' = mgNow
    BY <1>7 DEF SendSave
  <2> QED  BY <1>0, <2>1, <2>2, <2>3, <2>4 DEF MgBounded
<1>8. ASSUME NEW c \in MgCalls, SettleSave(c) PROVE MgBounded'
  <2>1. \A d \in MgCalls : mgCall'[d].update = mgCall[d].update
    BY <1>0, <1>8 DEF SettleSave, MgCallType
  <2>2. mgDocument'.edit = mgDocument.edit
    <3>1. PICK s : s = RestoredDelta(c)
      OBVIOUS
    <3>2. mgDocument' = mgDocument \/ mgDocument' = [mgDocument EXCEPT !.overrides = s]
      BY <1>8, <3>1 DEF SettleSave
    <3> QED  BY <1>0, <3>2 DEF MgDocuments
  <2> QED  BY <1>8, <2>1, <2>2, MgBoundedStays DEF SettleSave, MgBounded
<1>11. ASSUME NEW c \in MgCalls, NEW ok \in BOOLEAN, SaveEnds(c, ok) PROVE MgBounded'
  <2>1. mgKind[c] = "save" /\ \A d \in MgCalls : mgCall'[d].update = mgCall[d].update
    <3>1. OnlyCall(c) /\ mgCall'[c].update = mgCall[c].update
      BY <1>11, MgEnded DEF MgInv
    <3>2. mgKind[c] = "save"
      BY <1>11 DEF SaveEnds, MgInv, MgSaves, SaveOK, Flying
    <3> QED  BY <3>1, <3>2 DEF OnlyCall
  <2>2. mgDocument'.edit \in {mgCall[c].update, mgDocument.edit}
    <3>1. PICK isNew : isNew = (mgDocument.isNew \/ (mgCall[c].sent = "insertOne" /\ ~ok))
      OBVIOUS
    <3>2. PICK edit : /\ edit \in {mgCall[c].update, mgDocument.edit}
                      /\ edit = IF ~ok /\ mgDocument.edit = 0 THEN mgCall[c].update
                                ELSE mgDocument.edit
      OBVIOUS
    <3>3. mgDocument' = [mgDocument EXCEPT !.isNew = isNew, !.edit = edit, !.saving = MgNone]
      BY <1>0, <1>11, <3>1, <3>2 DEF SaveEnds, MgDocuments
    <3> QED  BY <1>0, <3>2, <3>3 DEF MgDocuments
  <2> QED  BY <1>11, <2>1, <2>2, MgBoundedStays DEF SaveEnds, MgBounded
<1>9. ASSUME NEW c \in MgCalls, NEW outcome, SettleExec(c, outcome) PROVE MgBounded'
  <2>1. \A d \in MgCalls : mgCall'[d].update = mgCall[d].update
    BY <1>0, <1>9 DEF SettleExec, MgCallType
  <2> QED  BY <1>9, <2>1, MgBoundedStays DEF SettleExec, MgBounded
<1>10. ASSUME NEW c \in MgCalls, NEW event, CursorEvent(c, event) PROVE MgBounded'
  <2>1. mgKind[c] = "cursor" /\ \A d \in MgCalls \ {c} : mgCall'[d] = mgCall[d]
    BY <1>0, <1>10 DEF CursorEvent
  <2> QED  BY <1>10, <2>1, MgBoundedStays DEF CursorEvent, MgBounded
<1> QED  BY <1>1, <1>2, <1>3, <1>5, <1>6, <1>7, <1>8, <1>9, <1>10, <1>11 DEF MgNext

LEMMA MgTypes == ASSUME MgInv, MgBounded PROVE MgTypeOK
<1>1. /\ mgKind \in [MgCalls -> MgKinds] /\ mgCall \in [MgCalls -> MgCallType]
      /\ mgDocument \in MgDocuments
      /\ mgDelta \in [MgCalls -> [computed : BOOLEAN, update : Nat]]
  BY DEF MgInv, MgTyped
<1>2. \A i \in DOMAIN mgEntries : mgEntries[i].call \in MgCalls
  BY DEF MgInv, MgTold, EntryOK
<1>3. \A c \in MgCalls : mgCall[c].stage \in MgStages /\ mgDelta[c].computed \in BOOLEAN
  BY <1>1 DEF MgCallType
<1>4. mgDocument.isNew \in BOOLEAN
  BY <1>1 DEF MgDocuments
<1> QED  BY <1>1, <1>2, <1>3, <1>4 DEF MgBounded, MgTypeOK, MgStages

-----------------------------------------------------------------------------
LEMMA CmTypes == ASSUME CmInv PROVE CmTypeOK
<1>1. /\ cmConfig \in CmScenarios /\ cmApp \in 1..(CmLast + 3) /\ cmSeen \subseteq CmNames
      /\ cmRun \in [CmRuns -> [stage : CmStages, outcome : CmOutcomes, told : CmOutcomes]]
      /\ cmDeferred \subseteq cmProfiles /\ cmStored \subseteq cmProfiles
  BY DEF CmInv, CmTyped
<1>2. Cardinality(DOMAIN cmConfig.providers) = CmLast
  BY <1>1, CmCounted
<1>3. \A r \in CmRuns : cmRun[r].stage \in CmStages
  BY <1>1
<1> QED  BY <1>1, <1>2, <1>3 DEF CmTypeOK, CmNames, CmStages, CmClosed

-----------------------------------------------------------------------------
(* The packages together: the one that moves keeps its own invariant, and  *)
(* which one moves never changes.                                          *)
PackageInv ==
    /\ subject \in Packages
    /\ subject = "ai" => AiAll
    /\ subject = "aiSetup" => AsInv
    /\ subject = "http" => HcInv
    /\ subject = "httpTimer" => CrInv
    /\ subject = "mongo" => MgInv /\ MgOnce /\ MgBounded
    /\ subject = "drivers" => DqInv
    /\ subject = "events" => EvInv /\ EvTold
    /\ subject = "messages" => MqInv
    /\ subject = "commands" => CmInv
    /\ subject = "discovery" => DsInv
    /\ subject = "wiring" => WiInv
    /\ subject = "axios" => AxInv

LEMMA PackageInitially == Init => PackageInv
<1> SUFFICES ASSUME Init PROVE PackageInv
  OBVIOUS
<1>1. ASSUME subject = "ai" PROVE AiAll
  BY <1>1, AiInitially DEF Init, AiInit
<1>2. ASSUME subject = "aiSetup" PROVE AsInv
  BY <1>2, AsInitially DEF Init, AsInit
<1>3. ASSUME subject = "http" PROVE HcInv
  BY <1>3, HcInitially DEF Init
<1>4. CrInv
  BY CrInitially DEF Init
<1>5. ASSUME subject = "mongo" PROVE MgInv /\ MgOnce /\ MgBounded
  BY <1>5, MgAllInitially, MgBoundedInitially DEF Init
<1>6. ASSUME subject = "drivers" PROVE DqInv
  BY <1>6, DqInitially DEF Init
<1>7. ASSUME subject = "events" PROVE EvInv /\ EvTold
  BY <1>7, EvAllInitially DEF Init
<1>8. ASSUME subject = "messages" PROVE MqInv
  BY <1>8, MqInitially DEF Init, MqInit
<1>9. ASSUME subject = "commands" PROVE CmInv
  BY <1>9, CmInitially DEF Init
<1>10. ASSUME subject = "discovery" PROVE DsInv
  BY <1>10, DsInitially DEF Init
<1>11. ASSUME subject = "wiring" PROVE WiInv
  BY <1>11, WiInitially DEF Init
<1>12. ASSUME subject = "axios" PROVE AxInv
  BY <1>12, AxInitially DEF Init
<1>13. subject \in Packages
  BY DEF Init
<1> QED
  BY <1>1, <1>2, <1>3, <1>4, <1>5, <1>6, <1>7, <1>8, <1>9, <1>10, <1>11, <1>12, <1>13
  DEF PackageInv

(* A step is one of the package that moves.                                *)
LEMMA OneMoves ==
    ASSUME [Next]_vars
    PROVE  /\ subject' = subject
           /\ subject = "ai" => [AiNext]_aiVars
           /\ subject = "aiSetup" => [AsNext]_asVars
           /\ subject = "http" => [HcNext]_hcVars
           /\ subject = "httpTimer" => [CrNext]_crVars
           /\ subject = "mongo" => [MgNext]_mgVars
           /\ subject = "drivers" => [DqNext]_dqVars
           /\ subject = "events" => [EvNext]_evVars
           /\ subject = "messages" => [MqNext]_mqVars
           /\ subject = "commands" => [CmNext]_cmVars
           /\ subject = "discovery" => [DsNext]_dsVars
           /\ subject = "wiring" => [WiNext]_wiVars
           /\ subject = "axios" => [AxNext]_axVars
<1>1. CASE UNCHANGED vars
  BY <1>1 DEF vars
<1>2. CASE Next
  <2>1. ASSUME NEW p, Only(p) PROVE subject = p /\ subject' = subject
    BY <2>1 DEF Only
  <2> QED  BY <1>2, <2>1 DEF Next
<1> QED  BY <1>1, <1>2

LEMMA PackageStep == PackageInv /\ [Next]_vars => PackageInv'
<1> SUFFICES ASSUME PackageInv, [Next]_vars PROVE PackageInv'
  OBVIOUS
<1>0. subject' = subject
  BY OneMoves
<1>1. ASSUME subject = "ai" PROVE AiAll'
  BY <1>1, OneMoves, AiStep, AiUnmoved DEF PackageInv
<1>2. ASSUME subject = "aiSetup" PROVE AsInv'
  BY <1>2, OneMoves, AsStep DEF PackageInv
<1>3. ASSUME subject = "http" PROVE HcInv'
  BY <1>3, OneMoves, HcStep DEF PackageInv
<1>4. ASSUME subject = "httpTimer" PROVE CrInv'
  BY <1>4, OneMoves, CrStep DEF PackageInv
<1>5. ASSUME subject = "mongo" PROVE MgInv' /\ MgOnce' /\ MgBounded'
  BY <1>5, OneMoves, MgAllStep, MgBoundedStep DEF PackageInv
<1>6. ASSUME subject = "drivers" PROVE DqInv'
  BY <1>6, OneMoves, DqStep DEF PackageInv
<1>7. ASSUME subject = "events" PROVE EvInv' /\ EvTold'
  BY <1>7, OneMoves, EvAllStep DEF PackageInv
<1>8. ASSUME subject = "messages" PROVE MqInv'
  BY <1>8, OneMoves, MqStep DEF PackageInv
<1>9. ASSUME subject = "commands" PROVE CmInv'
  BY <1>9, OneMoves, CmStep DEF PackageInv
<1>10. ASSUME subject = "discovery" PROVE DsInv'
  BY <1>10, OneMoves, DsStep DEF PackageInv
<1>11. ASSUME subject = "wiring" PROVE WiInv'
  BY <1>11, OneMoves, WiStep DEF PackageInv
<1>12. ASSUME subject = "axios" PROVE AxInv'
  BY <1>12, OneMoves, AxStep DEF PackageInv
<1>13. subject' \in Packages
  BY <1>0 DEF PackageInv
<1> QED
  BY <1>0, <1>1, <1>2, <1>3, <1>4, <1>5, <1>6, <1>7, <1>8, <1>9, <1>10, <1>11, <1>12, <1>13
  DEF PackageInv

(* A model call, an outgoing call, a command, a driver call and an emission*)
(* each leave one entry, on the profile they ran for: for every number of  *)
(* them, of applications that install wrappers, of retries and of tools.   *)
THEOREM EntriesOnceEverywhere == Spec => []OneEntryPerCall
<1>1. PackageInv => OneEntryPerCall
  BY AiEnough, HcEnough, MgListedOnce, DqEnough, EvToldEnough DEF PackageInv, OneEntryPerCall
<1> QED  BY <1>1, PackageInitially, PackageStep, PTL DEF Spec

(* An AI entry tells the call it stands for, a load of prices in flight is *)
(* the one of the source configured last, and a bill counts a token once:  *)
(* for every number of operations, of applications and of prices.          *)
THEOREM AiPanelHonest == Spec => []AiPanelIsHonest
<1>1. PackageInv => AiPanelIsHonest
  BY AiEnough, AsEnough DEF PackageInv, AiPanelIsHonest
<1> QED  BY <1>1, PackageInitially, PackageStep, PTL DEF Spec

(* A handshake is reported by one call, the phases of a call fit in the    *)
(* time it took and no listener outlives its request: for every number of  *)
(* calls and of pooled sockets.                                            *)
THEOREM HttpPanelHonest == Spec => []HttpCallsAreTold
<1>1. PackageInv => HttpCallsAreTold
  BY HcEnough, CrEnough DEF PackageInv, HttpCallsAreTold
<1> QED  BY <1>1, PackageInitially, PackageStep, PTL DEF Spec

(* The variables of every package stay within their types: for every       *)
(* number of operations and calls, and whatever bounds the lists and queues*)
(* have (pending sockets, edits, attempts, registrations).                 *)
THEOREM PackagesTyped == Spec => []PackagesTypeOK
<1>1. PackageInv => PackagesTypeOK
  <2> SUFFICES ASSUME PackageInv PROVE PackagesTypeOK
    OBVIOUS
  <2>1. /\ subject = "ai" => AiTypeOK
        /\ subject = "aiSetup" => AsTypeOK
        /\ subject = "http" => HcTypeOK
        /\ subject = "httpTimer" => CrTypeOK
    BY AiEnough, AsEnough, HcEnough, CrEnough DEF PackageInv
  <2>2. /\ subject = "mongo" => MgTypeOK
        /\ subject = "drivers" => DqTypeOK
        /\ subject = "events" => EvTypeOK
        /\ subject = "messages" => MqTypeOK
    BY MgTypes, DqEnough, EvToldEnough, MqEnough DEF PackageInv
  <2>3. /\ subject = "commands" => CmTypeOK
        /\ subject = "discovery" => DsTypeOK
        /\ subject = "wiring" => WiTypeOK
        /\ subject = "axios" => AxTypeOK
    BY CmTypes, DsTypes, WiTypes, AxTypes DEF PackageInv
  <2>4. subject \in Packages
    BY DEF PackageInv
  <2>5. CASE subject = "ai"
    BY <2>1, <2>5 DEF PackagesTypeOK
  <2>6. CASE subject = "aiSetup"
    BY <2>1, <2>6 DEF PackagesTypeOK
  <2>7. CASE subject = "http"
    BY <2>1, <2>7 DEF PackagesTypeOK
  <2>8. CASE subject = "httpTimer"
    BY <2>1, <2>8 DEF PackagesTypeOK
  <2>9. CASE subject = "mongo"
    BY <2>2, <2>9 DEF PackagesTypeOK
  <2>10. CASE subject = "drivers"
    BY <2>2, <2>10 DEF PackagesTypeOK
  <2>11. CASE subject = "events"
    BY <2>2, <2>11 DEF PackagesTypeOK
  <2>12. CASE subject = "messages"
    BY <2>2, <2>12 DEF PackagesTypeOK
  <2>13. CASE subject = "commands"
    BY <2>3, <2>13 DEF PackagesTypeOK
  <2>14. CASE subject = "discovery"
    BY <2>3, <2>14 DEF PackagesTypeOK
  <2>15. CASE subject = "wiring"
    BY <2>3, <2>15 DEF PackagesTypeOK
  <2>16. CASE subject = "axios"
    BY <2>3, <2>16 DEF PackagesTypeOK
  <2> QED  BY <2>4, <2>5, <2>6, <2>7, <2>8, <2>9, <2>10, <2>11, <2>12, <2>13, <2>14, <2>15, <2>16 DEF Packages
<1> QED  BY <1>1, PackageInitially, PackageStep, PTL DEF Spec
=============================================================================
