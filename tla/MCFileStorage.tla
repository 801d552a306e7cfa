--------------------------- MODULE MCFileStorage ---------------------------
(* Model values of FileStorage.  Calls are named after the process that makes  *)
(* them; w1 and w1again save two states of one profile.                        *)
EXTENDS FileStorage, TLC

CONSTANTS web, cli, w1, w1again, wread, wclear, c2, cread

BothProcesses == {web, cli}
WebOnly == {web}

(* A web server that saves, saves again and clears beside a process that saves *)
(* and reads.                                                                  *)
MixedCalls == {w1, w1again, wclear, c2, cread}
(* A process alone, that saves a profile twice and reads it. *)
LoneCalls == {w1, w1again, wread}

OnCalls(f) == [c \in Calls |-> f[c]]
KindOf == OnCalls([c \in {w1, w1again, c2} |-> "save"]
                  @@ [c \in {wread, cread} |-> "read"] @@ wclear :> "clear")
Owner == OnCalls([c \in {w1, w1again, wread, wclear} |-> web]
                 @@ [c \in {c2, cread} |-> cli])
Token == w1 :> 0 @@ w1again :> 0 @@ c2 :> 1
Version == w1 :> 1 @@ w1again :> 2 @@ c2 :> 1
=============================================================================
