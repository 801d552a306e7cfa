-------------------------- MODULE MCSqliteStorage --------------------------
(* Model values of SqliteStorage: a process that saves, re-saves and clears   *)
(* beside one that saves; and, for the eviction run, one process alone.       *)
EXTENDS SqliteStorage

CONSTANTS web, cli, none
TwoProcesses == {web, cli}
OneProcess == {web}

MixedCalls == 1..5
MixedProcess == <<web, web, web, cli, web>>
MixedTokens == <<1, 2, 1, 3, none>>

BurstCalls == 1..4
BurstProcess == <<web, web, web, web>>
BurstTokens == <<1, 2, 3, 4>>
=============================================================================
