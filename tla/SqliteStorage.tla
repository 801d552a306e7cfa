--------------------------- MODULE SqliteStorage ---------------------------
(***************************************************************************)
(* SqliteStorageAdapter: one table shared by the processes that opened it, *)
(* and in each process a counter of its rows kept in step by hand, so that *)
(* the table is sorted only to trim it.  A statement is atomic and runs    *)
(* between two awaits; the code after an await runs in a step of its own.  *)
(* Profiles are named by their creation time.                              *)
(***************************************************************************)
EXTENDS Integers, FiniteSets

CONSTANTS
    Processes,      \* the processes that opened the database
    Calls,          \* calls of save() and clear()
    ProcessOf,      \* the process that makes each call
    TokenOf,        \* the profile each call saves, or NoToken for clear()
    NoToken,
    MaxProfiles,    \* the cap; 0 for none
    SweepInterval,  \* SWEEP_INTERVAL
    Expires,        \* whether the ttl option is positive
    MaxOverlap,     \* bound: calls of a process in flight at once
    MaxTime,        \* bound: how far the expiry horizon moves
    MaxRestarts     \* bound: restarts

Tokens == {TokenOf[c] : c \in Calls} \ {NoToken}

ASSUME SqliteAssumption ==
    /\ IsFiniteSet(Calls)
    /\ ProcessOf \in [Calls -> Processes]
    /\ TokenOf \in [Calls -> Nat \cup {NoToken}]
    /\ NoToken \notin Nat
    /\ MaxProfiles \in Nat /\ SweepInterval \in Nat \ {0}
    /\ Expires \in BOOLEAN
    /\ MaxOverlap \in Nat /\ MaxTime \in Nat /\ MaxRestarts \in Nat

VARIABLES
    rows,       \* the table: the tokens stored
    horizon,    \* rows created before it have expired
    rowCount,   \* each process's counter
    ops,        \* each process's saves since its last sweep
    call,       \* where each call is, and what its last statement answered
    drift,      \* the counter may be off since the last re-sync (read by no code)
    restarts

vars == <<rows, horizon, rowCount, ops, call, drift, restarts>>

InFlight(p) == {c \in Calls : ProcessOf[c] = p /\ call[c].pc \notin {"none", "done", "dead"}}
AtRest == \A p \in Processes : InFlight(p) = {}

At(pc) == [pc |-> pc, existed |-> FALSE, n |-> 0]

Init ==
    /\ rows = {}
    /\ horizon = 0
    /\ rowCount = [p \in Processes |-> 0]
    /\ ops = [p \in Processes |-> 0]
    /\ call = [c \in Calls |-> At("none")]
    /\ drift = [p \in Processes |-> FALSE]
    /\ restarts = 0

Goto(c, pc) == call' = [call EXCEPT ![c].pc = pc]
Return(c) == call' = [call EXCEPT ![c] = At("done")]

(* A statement of p changes the table: the others' counters do not follow. *)
Write(p, table) ==
    /\ rows' = table
    /\ drift' = IF table = rows THEN drift
                ELSE [q \in Processes |-> drift[q] \/ q # p]

-----------------------------------------------------------------------------
(* A call is made; a second one in flight in the process interleaves with it. *)
Begin(c) ==
    LET p == ProcessOf[c] IN
    /\ call[c].pc = "none" /\ Cardinality(InFlight(p)) < MaxOverlap
    /\ Goto(c, IF TokenOf[c] = NoToken THEN "delete" ELSE "select")
    /\ drift' = [drift EXCEPT ![p] = @ \/ InFlight(p) # {}]
    /\ UNCHANGED <<rows, horizon, rowCount, ops, restarts>>

(* Fault: every save is taken for a new row. *)
SelectNothing(c) ==
    /\ call[c].pc = "select"
    /\ Goto(c, "insert")
    /\ UNCHANGED <<rows, horizon, rowCount, ops, drift, restarts>>

(* SELECT 1 ... WHERE token *)
Select(c) ==
    /\ call[c].pc = "select"
    /\ call' = [call EXCEPT ![c].pc = "insert", ![c].existed = TokenOf[c] \in rows]
    /\ UNCHANGED <<rows, horizon, rowCount, ops, drift, restarts>>

(* INSERT OR REPLACE *)
Insert(c) ==
    /\ call[c].pc = "insert"
    /\ Goto(c, "inserted")
    /\ Write(ProcessOf[c], rows \cup {TokenOf[c]})
    /\ UNCHANGED <<horizon, rowCount, ops, restarts>>

(* Fault: the cap is taken for a limit never to reach. *)
DecideAtCap(c, count) ==
    call' = [call EXCEPT ![c] =
                IF MaxProfiles > 0 /\ count >= MaxProfiles
                THEN [At("trim") EXCEPT !.n = count - MaxProfiles]
                ELSE At("done")]

(* evict()'s decision, with the counter it reads *)
Decide(c, count) ==
    call' = [call EXCEPT ![c] =
                IF MaxProfiles > 0 /\ count > MaxProfiles
                THEN [At("trim") EXCEPT !.n = count - MaxProfiles]
                ELSE At("done")]

(* After the insert: count the row, then sweep every SWEEP_INTERVAL saves, or trim. *)
Inserted(c) ==
    LET p == ProcessOf[c]
        count == rowCount[p] + IF call[c].existed THEN 0 ELSE 1
    IN  /\ call[c].pc = "inserted"
        /\ rowCount' = [rowCount EXCEPT ![p] = count]
        /\ IF ops[p] + 1 >= SweepInterval
           THEN /\ ops' = [ops EXCEPT ![p] = 0]
                /\ Goto(c, IF Expires THEN "sweep" ELSE "count")
           ELSE /\ ops' = [ops EXCEPT ![p] = @ + 1]
                /\ Decide(c, count)
        /\ UNCHANGED <<rows, horizon, drift, restarts>>

(* DELETE ... WHERE created_at < ? *)
Sweep(c) ==
    /\ call[c].pc = "sweep"
    /\ Goto(c, "count")
    /\ Write(ProcessOf[c], {t \in rows : t >= horizon})
    /\ UNCHANGED <<horizon, rowCount, ops, restarts>>

(* SELECT COUNT( * ): what it reads is exact for a call that is alone. *)
Count(c) ==
    LET p == ProcessOf[c] IN
    /\ call[c].pc = "count"
    /\ call' = [call EXCEPT ![c].pc = "counted", ![c].n = Cardinality(rows)]
    /\ drift' = [drift EXCEPT ![p] = InFlight(p) # {c}]
    /\ UNCHANGED <<rows, horizon, rowCount, ops, restarts>>

(* Fault: the save that swept trims nothing. *)
CountedUntrimmed(c) ==
    /\ call[c].pc = "counted"
    /\ rowCount' = [rowCount EXCEPT ![ProcessOf[c]] = call[c].n]
    /\ Return(c)
    /\ UNCHANGED <<rows, horizon, ops, drift, restarts>>

Counted(c) ==
    /\ call[c].pc = "counted"
    /\ rowCount' = [rowCount EXCEPT ![ProcessOf[c]] = call[c].n]
    /\ Decide(c, call[c].n)
    /\ UNCHANGED <<rows, horizon, ops, drift, restarts>>

(* The `n` oldest rows, or all of them. *)
Oldest(n) == {t \in rows : Cardinality({u \in rows : u <= t}) <= n}

(* DELETE ... ORDER BY created_at LIMIT ?: the limit was computed at the decision. *)
Trim(c) ==
    LET victims == Oldest(call[c].n) IN
    /\ call[c].pc = "trim"
    /\ Write(ProcessOf[c], rows \ victims)
    /\ call' = [call EXCEPT ![c].pc = "trimmed", ![c].n = Cardinality(victims)]
    /\ UNCHANGED <<horizon, rowCount, ops, restarts>>

Trimmed(c) ==
    /\ call[c].pc = "trimmed"
    /\ rowCount' = [rowCount EXCEPT ![ProcessOf[c]] = @ - call[c].n]
    /\ Return(c)
    /\ UNCHANGED <<rows, horizon, ops, drift, restarts>>

-----------------------------------------------------------------------------
(* clear() *)
Delete(c) ==
    /\ call[c].pc = "delete"
    /\ Goto(c, "deleted")
    /\ Write(ProcessOf[c], {})
    /\ UNCHANGED <<horizon, rowCount, ops, restarts>>

Deleted(c) ==
    /\ call[c].pc = "deleted"
    /\ rowCount' = [rowCount EXCEPT ![ProcessOf[c]] = 0]
    /\ Return(c)
    /\ UNCHANGED <<rows, horizon, ops, drift, restarts>>

(* A process dies with its calls and starts again: configure() drops a table of *)
(* another schema version and seeds the counter.                                *)
Restart(p, stale) ==
    /\ restarts < MaxRestarts
    /\ restarts' = restarts + 1
    /\ call' = [c \in Calls |-> IF c \in InFlight(p) THEN At("dead")
                                                     ELSE call[c]]
    /\ LET table == IF stale THEN {} ELSE rows IN
         /\ rows' = table
         /\ drift' = [q \in Processes |-> q # p /\ (drift[q] \/ table # rows)]
         /\ rowCount' = [rowCount EXCEPT ![p] = Cardinality(table)]
    /\ ops' = [ops EXCEPT ![p] = 0]
    /\ UNCHANGED horizon

Tick ==
    /\ Expires /\ horizon < MaxTime
    /\ horizon' = horizon + 1
    /\ UNCHANGED <<rows, rowCount, ops, call, drift, restarts>>

Step(c) == Select(c) \/ Insert(c) \/ Inserted(c) \/ Sweep(c) \/ Count(c) \/ Counted(c)
           \/ Trim(c) \/ Trimmed(c) \/ Delete(c) \/ Deleted(c)

Next ==
    \/ \E c \in Calls : Begin(c) \/ Step(c)
    \/ \E p \in Processes, stale \in BOOLEAN : Restart(p, stale)
    \/ Tick

Spec == Init /\ [][Next]_vars

-----------------------------------------------------------------------------
(* Properties *)

CallType == [pc : {"none", "select", "insert", "inserted", "sweep", "count", "counted",
                   "trim", "trimmed", "delete", "deleted", "done", "dead"},
             existed : BOOLEAN, n : Nat]

(* The variables' domains; a clear never saves, a trim's limit is never below one. *)
TypeOK ==
    /\ rows \in SUBSET Tokens
    /\ horizon \in Nat
    /\ rowCount \in [Processes -> Int]
    /\ ops \in [Processes -> 0..(SweepInterval - 1)]
    /\ call \in [Calls -> CallType]
    /\ \A c \in Calls : TokenOf[c] = NoToken =>
                          call[c].pc \in {"none", "delete", "deleted", "done", "dead"}
    /\ \A c \in Calls : call[c].pc = "trim" => call[c].n > 0
    /\ drift \in [Processes -> BOOLEAN]
    /\ restarts \in Nat

(* "The counter stays exact across re-saves" (and sweeps, trims, clears and      *)
(* restarts) in a process whose calls did not interleave, while no other one     *)
(* wrote.                                                                        *)
CounterExact ==
    \A p \in Processes :
        (InFlight(p) = {} /\ ~drift[p]) => rowCount[p] = Cardinality(rows)

(* A save that did not interleave leaves at most MaxProfiles rows behind.        *)
SaveLeavesCap ==
    [][\A c \in Calls :
          (/\ call[c].pc \in {"inserted", "counted", "trimmed"} /\ call'[c].pc = "done"
           /\ MaxProfiles > 0 /\ ~drift[ProcessOf[c]])
              => Cardinality(rows') <= MaxProfiles]_vars

(* What the comments of rowCount and evict promise of a process of its own: the  *)
(* trim "only fires once actually over the cap", so once all is quiet the store  *)
(* holds the MaxProfiles profiles it may hold, if as many were saved.            *)
FullToTheCap ==
    (AtRest /\ horizon = 0 /\ restarts = 0) =>
        LET saved == {TokenOf[c] : c \in {d \in Calls : call[d].pc = "done"}}
        IN  Cardinality(rows) >= (IF Cardinality(saved) < MaxProfiles
                                  THEN Cardinality(saved) ELSE MaxProfiles)
=============================================================================
