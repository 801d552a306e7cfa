----------------------------- MODULE MCHttpClient -----------------------------
(***************************************************************************)
(* Model values for HttpClient alone: fetch called with a Request object   *)
(* that carries its headers, beside fetch called with a URL and an init.   *)
(***************************************************************************)
EXTENDS HttpClient, TLC

CONSTANTS call1, call2

Outgoing(input) ==
    [client |-> "fetch", input |-> input, headers |-> {"auth"}, profiled |-> TRUE]

RequestObjects ==
    { [calls |-> (call1 :> Outgoing("request") @@ call2 :> Outgoing("url")),
       propagate |-> TRUE, captureBody |-> FALSE, phases |-> FALSE] }
=============================================================================
