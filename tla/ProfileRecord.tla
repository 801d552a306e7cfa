--------------------------- MODULE ProfileRecord ---------------------------
(***************************************************************************)
(* What the profiler promises of one profile, whoever works on it: it is   *)
(* opened, closed once, collected into once, and stored only after it was  *)
(* closed and its collection started.                                      *)
(***************************************************************************)
VARIABLES
    stage,      \* "none", "open", "closed"
    collection, \* "idle", "running", "done", "failed"
    stored      \* a document of it is in the store

vars == <<stage, collection, stored>>

Init == stage = "none" /\ collection = "idle" /\ stored = FALSE

Open ==
    /\ stage = "none"
    /\ stage' = "open"
    /\ UNCHANGED <<collection, stored>>

(* Closing a profile starts its one collection. *)
CloseProfile ==
    /\ stage = "open"
    /\ stage' = "closed"
    /\ collection' = "running"
    /\ UNCHANGED stored

EndCollection ==
    /\ collection = "running"
    /\ collection' \in {"done", "failed"}
    /\ UNCHANGED <<stage, stored>>

Store ==
    /\ stage = "closed"
    /\ stored' = TRUE
    /\ UNCHANGED <<stage, collection>>

Next == Open \/ CloseProfile \/ EndCollection \/ Store
Spec == Init /\ [][Next]_vars
=============================================================================
