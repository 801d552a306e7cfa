------------------------- MODULE ClientRequestTimer -------------------------
(***************************************************************************)
(* The timer NodeHttpPhases puts on every node:http request                *)
(* (client-request-timer.ts): marks taken from the request's own events    *)
(* over a pool of keep-alive sockets, and the durations derived from them. *)
(* The order in which node emits the events is external.                   *)
(***************************************************************************)
EXTENDS Integers, FiniteSets

CONSTANTS
    CrRequests,  \* client requests
    CrSockets,   \* sockets of the agent's pool
    CrMaxTime,   \* bound: the clock
    CrNone

ASSUME CrAssumption ==
    /\ CrMaxTime \in Nat
    /\ CrNone \notin Nat /\ CrNone \notin CrSockets

VARIABLES
    crStage,     \* request -> "new", "open", "answered", "closed"
    crMarks,     \* request -> mark -> instant, or CrNone
    crSocket,    \* request -> its socket
    crListeners, \* socket -> requests whose connection listeners it holds
    crFresh,     \* sockets that have not connected yet
    crNow

crVars == <<crStage, crMarks, crSocket, crListeners, crFresh, crNow>>

CrMarkNames == {"start", "socket", "lookup", "connect", "secureConnect", "upload",
                "response", "end"}
NoMarks == [m \in CrMarkNames |-> CrNone]

CrInit ==
    /\ crStage = [r \in CrRequests |-> "new"]
    /\ crMarks = [r \in CrRequests |-> NoMarks]
    /\ crSocket = [r \in CrRequests |-> CrNone]
    /\ crListeners = [s \in CrSockets |-> {}]
    /\ crFresh = CrSockets
    /\ crNow = 0

(* Events of one request happen at the clock's instant; time passes first. *)
Passes(d) == crNow + d <= CrMaxTime /\ crNow' = crNow + d

(* ??= : the first instant is the one kept.                                *)
Take(r, mark) == [crMarks EXCEPT ![r][mark] = IF @ = CrNone THEN crNow' ELSE @]

(* instrumentClientRequest: idempotent, start is marked.                   *)
Instrument(r) ==
    /\ crStage[r] = "new"
    /\ crStage' = [crStage EXCEPT ![r] = "open"]
    /\ crMarks' = Take(r, "start")
    /\ UNCHANGED <<crSocket, crListeners, crFresh>>

(* onSocket: a fresh socket or a free pooled one; three once-listeners go  *)
(* on it.                                                                  *)
OnSocket(r, s) ==
    /\ crStage[r] = "open" /\ crSocket[r] = CrNone
    /\ \A q \in CrRequests : crSocket[q] = s => crStage[q] = "closed"
    /\ crSocket' = [crSocket EXCEPT ![r] = s]
    /\ crMarks' = Take(r, "socket")
    /\ crListeners' = [crListeners EXCEPT ![s] = @ \cup {r}]
    /\ UNCHANGED <<crStage, crFresh>>

(* lookup, connect, secureConnect: heard by the requests listening.        *)
OnConnection(r, mark) ==
    /\ crStage[r] = "open" /\ crSocket[r] # CrNone
    /\ crSocket[r] \in crFresh /\ r \in crListeners[crSocket[r]]
    /\ crMarks[r][mark] = CrNone
    /\ mark = "lookup" => crMarks[r].connect = CrNone
    /\ mark = "secureConnect" => crMarks[r].connect # CrNone
    /\ crMarks' = Take(r, mark)
    /\ UNCHANGED <<crStage, crSocket, crListeners, crFresh>>

(* finish: the body is flushed, possibly before the handshake is done.     *)
OnFinish(r) ==
    /\ crStage[r] \in {"open", "answered"} /\ crSocket[r] # CrNone
    /\ crMarks[r].upload = CrNone
    /\ crMarks' = Take(r, "upload")
    /\ UNCHANGED <<crStage, crSocket, crListeners, crFresh>>

Detached(r) == [s \in CrSockets |-> crListeners[s] \ {r}]

(* response: the connection listeners are spent.                           *)
OnResponse(r) ==
    /\ crStage[r] = "open" /\ crSocket[r] # CrNone
    /\ crSocket[r] \in crFresh => crMarks[r].connect # CrNone
    /\ crStage' = [crStage EXCEPT ![r] = "answered"]
    /\ crMarks' = Take(r, "response")
    /\ crListeners' = Detached(r)
    /\ crFresh' = crFresh \ {crSocket[r]}
    /\ UNCHANGED crSocket

(* end, aborted or error of the response, then close.                      *)
OnEnd(r) ==
    /\ crStage[r] = "answered"
    /\ crStage' = [crStage EXCEPT ![r] = "closed"]
    /\ crMarks' = Take(r, "end")
    /\ crListeners' = Detached(r)
    /\ UNCHANGED <<crSocket, crFresh>>

(* error of the request, or an abort that only closes it.                  *)
OnError(r, reported) ==
    /\ crStage[r] = "open"
    /\ crStage' = [crStage EXCEPT ![r] = "closed"]
    /\ crMarks' = IF reported THEN Take(r, "end") ELSE crMarks
    /\ crListeners' = Detached(r)
    /\ UNCHANGED <<crSocket, crFresh>>

CrNext ==
    \E r \in CrRequests, d \in {0, 1} :
        /\ Passes(d)
        /\ \/ Instrument(r)
           \/ \E s \in CrSockets : OnSocket(r, s)
           \/ \E mark \in {"lookup", "connect", "secureConnect"} : OnConnection(r, mark)
           \/ OnFinish(r) \/ OnResponse(r) \/ OnEnd(r)
           \/ \E reported \in BOOLEAN : OnError(r, reported)

CrSpec == CrInit /\ [][CrNext]_crVars

-----------------------------------------------------------------------------
(* derivePhases: a phase needs both its ends; the upload is clamped onto   *)
(* the connection.                                                         *)
Span(from, to) == IF from = CrNone \/ to = CrNone \/ to < from THEN 0 ELSE to - from
FirstMark(a, b) == IF a # CrNone THEN a ELSE b

UploadAsFlushed(t, connectedAt) == t.upload

(* A body flushed into the socket's buffer before the connection is there  *)
(* counts as sent when it is.                                              *)
UploadMark(t, connectedAt) ==
    IF t.upload # CrNone /\ connectedAt # CrNone /\ t.upload < connectedAt
    THEN connectedAt ELSE t.upload

DerivePhases(t) ==
    LET connectedAt == FirstMark(t.secureConnect, FirstMark(t.connect, t.socket))
        upload      == UploadMark(t, connectedAt)
    IN  [wait      |-> Span(t.start, t.socket),
         dns       |-> IF t.lookup # CrNone THEN Span(t.socket, t.lookup) ELSE 0,
         tcp       |-> Span(FirstMark(t.lookup, t.socket), t.connect),
         tls       |-> Span(t.connect, t.secureConnect),
         request   |-> Span(connectedAt, upload),
         firstByte |-> Span(FirstMark(upload, connectedAt), t.response),
         download  |-> Span(t.response, t.end)]

(* Types: what the variables may hold.                                     *)
CrTypeOK ==
    /\ \A r \in CrRequests :
         /\ crStage[r] \in {"new", "open", "answered", "closed"}
         /\ \A m \in CrMarkNames : crMarks[r][m] = CrNone \/ crMarks[r][m] \in 0..crNow
    /\ crNow \in 0..CrMaxTime

(* The breakdown of an answered request never claims the same instant      *)
(* twice: the phases add up to no more than the time it took, in whatever  *)
(* order the handshake and the upload went, provided the body was sent     *)
(* before the response came.                                               *)
PhasesFitTheCall ==
    \A r \in CrRequests :
        LET t == crMarks[r]
            p == DerivePhases(t)
        IN  t.response # CrNone /\ t.upload # CrNone /\ t.upload <= t.response
            => p.wait + p.dns + p.tcp + p.tls + p.request + p.firstByte + p.download
                 <= crNow - t.start

(* A pooled socket holds the connection listeners of the request using it  *)
(* and of no other: nothing accumulates on a keep-alive connection.        *)
ListenersDetached ==
    \A s \in CrSockets : \A r \in crListeners[s] : crSocket[r] = s /\ crStage[r] = "open"
=============================================================================
