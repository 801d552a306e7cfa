------------------------- MODULE MCRequestLifecycle -------------------------
(* Model values of RequestLifecycle, and the abstract record it implements. *)
EXTENDS RequestLifecycle

AllHandlers == HandlerKinds

(* The profile as its readers see it; a profile no hook watches stays "none". *)
StageOf == IF ~deferred THEN "none" ELSE IF Closed THEN "closed" ELSE "open"
CollectionOf ==
    IF ~deferred \/ ~Closed THEN "idle"
    ELSE IF CollectionRuns THEN "running"
    ELSE IF \E c \in Collectors : panels[c].state = "none" THEN "running"
    ELSE IF AnalysisThrows(panels) THEN "failed" ELSE "done"

StoredOf == deferred /\ doc.present

Record == INSTANCE ProfileRecord WITH
    stage <- StageOf, collection <- CollectionOf, stored <- StoredOf

(* Every step of the interceptor, the filters and the hook is a step of one   *)
(* profile record: opened, closed once, collected once, stored after closing. *)
ImplementsRecord == Record!Spec
=============================================================================
