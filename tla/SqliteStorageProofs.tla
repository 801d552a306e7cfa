------------------------ MODULE SqliteStorageProofs ------------------------
(* Proofs about SqliteStorage: its types, and that the counter kept by hand is *)
(* exact, for any number of processes and calls.                               *)
EXTENDS SqliteStorage, FiniteSetTheorems, TLAPS

-----------------------------------------------------------------------------
(* Finite sets *)

(* There are no more profiles than calls that save them. *)
LEMMA TokensFinite == IsFiniteSet(Tokens)
<1> DEFINE all == {TokenOf[c] : c \in Calls}
<1>1. TokenOf \in [Calls -> all]
  BY SqliteAssumption
<1>2. TokenOf \in Surjection(Calls, all)
  BY <1>1 DEF Surjection
<1>3. IsFiniteSet(all)
  BY <1>2, FS_Surjection, SqliteAssumption
<1> QED
  BY <1>3, FS_Subset DEF Tokens

(* A table is finite, and so is each part of it. *)
LEMMA TableFinite ==
  ASSUME NEW table \in SUBSET Tokens
  PROVE  IsFiniteSet(table) /\ Cardinality(table) \in Nat
  BY TokensFinite, FS_Subset, FS_CardinalityType

(* What is deleted and what is left make up the table. *)
LEMMA DeleteCount ==
  ASSUME NEW table \in SUBSET Tokens, NEW gone \in SUBSET table
  PROVE  Cardinality(table \ gone) = Cardinality(table) - Cardinality(gone)
<1> DEFINE left == table \ gone
<1>1. left \in SUBSET Tokens /\ gone \in SUBSET Tokens
  OBVIOUS
<1>2. /\ IsFiniteSet(left) /\ Cardinality(left) \in Nat
      /\ IsFiniteSet(gone) /\ Cardinality(gone) \in Nat
  BY <1>1, TableFinite
<1>3. left \cup gone = table /\ left \cap gone = {}
  OBVIOUS
<1>4. Cardinality(left \cup gone)
        = Cardinality(left) + Cardinality(gone) - Cardinality(left \cap gone)
  BY <1>2, FS_Union
<1>5. Cardinality(left \cap gone) = 0
  BY <1>3, FS_EmptySet
<1> QED
  BY <1>2, <1>3, <1>4, <1>5

(* An inserted row counts when it is new. *)
LEMMA InsertCount ==
  ASSUME NEW table \in SUBSET Tokens, NEW t \in Tokens
  PROVE  Cardinality(table \cup {t})
           = IF t \in table THEN Cardinality(table) ELSE Cardinality(table) + 1
  BY TableFinite, FS_AddElement

-----------------------------------------------------------------------------
(* Types *)

LEMMA Domains ==
  /\ MaxProfiles \in Nat /\ SweepInterval \in Nat \ {0} /\ Expires \in BOOLEAN
  /\ MaxTime \in Nat /\ MaxRestarts \in Nat
  /\ \A c \in Calls : ProcessOf[c] \in Processes
  /\ \A c \in Calls : TokenOf[c] # NoToken => TokenOf[c] \in Tokens
  BY SqliteAssumption DEF Tokens

LEMMA AtType ==
  ASSUME NEW pc \in {"none", "done", "dead"}
  PROVE  At(pc) \in CallType /\ At(pc).pc = pc
  BY DEF At, CallType

(* One call moves: the others' records are as they were. *)
LEMMA CallMoves ==
  ASSUME TypeOK, NEW c \in Calls, NEW r \in CallType, call' = [call EXCEPT ![c] = r],
         TokenOf[c] = NoToken => r.pc \in {"none", "delete", "deleted", "done", "dead"},
         r.pc = "trim" => r.n > 0
  PROVE  /\ call' \in [Calls -> CallType]
         /\ \A d \in Calls : TokenOf[d] = NoToken =>
                               call'[d].pc \in {"none", "delete", "deleted", "done", "dead"}
         /\ \A d \in Calls : call'[d].pc = "trim" => call'[d].n > 0
  BY DEF TypeOK

LEMMA GotoMoves ==
  ASSUME TypeOK, NEW c \in Calls, NEW pc, Goto(c, pc), [call[c] EXCEPT !.pc = pc] \in CallType
  PROVE  call' = [call EXCEPT ![c] = [call[c] EXCEPT !.pc = pc]]
  BY DEF TypeOK, Goto

(* What evict decides with a counter, whichever it is. *)
Decided(count) == IF MaxProfiles > 0 /\ count > MaxProfiles
                  THEN [At("trim") EXCEPT !.n = count - MaxProfiles]
                  ELSE At("done")

LEMMA DecideType ==
  ASSUME NEW c \in Calls, NEW count \in Int, Decide(c, count)
  PROVE  /\ Decided(count) \in CallType /\ Decided(count).pc \in {"trim", "done"}
         /\ Decided(count).pc = "trim" => Decided(count).n > 0
         /\ call' = [call EXCEPT ![c] = Decided(count)]
<1>1. call' = [call EXCEPT ![c] = Decided(count)]
  BY DEF Decide, Decided
<1>2. CASE MaxProfiles > 0 /\ count > MaxProfiles
  <2>1. count - MaxProfiles \in Nat /\ count - MaxProfiles > 0
    BY <1>2, Domains
  <2>2. Decided(count) = [pc |-> "trim", existed |-> FALSE, n |-> count - MaxProfiles]
    BY <1>2 DEF Decided, At
  <2> QED
    BY <1>1, <2>1, <2>2 DEF CallType
<1>3. CASE ~(MaxProfiles > 0 /\ count > MaxProfiles)
  <2>1. Decided(count) = At("done")
    BY <1>3 DEF Decided
  <2> QED
    BY <1>1, <2>1, AtType
<1> QED
  BY <1>2, <1>3

LEMMA WriteType ==
  ASSUME TypeOK, NEW p \in Processes, NEW table \in SUBSET Tokens, Write(p, table)
  PROVE  rows' \in SUBSET Tokens /\ drift' \in [Processes -> BOOLEAN]
  BY DEF TypeOK, Write

LEMMA InitType == Init => TypeOK
  BY Domains, AtType DEF Init, TypeOK, At, CallType

LEMMA NextType == TypeOK /\ [Next]_vars => TypeOK'
<1> SUFFICES ASSUME TypeOK, [Next]_vars PROVE TypeOK'
  OBVIOUS
<1>1. ASSUME NEW c \in Calls, Begin(c) PROVE TypeOK'
  <2> DEFINE pc == IF TokenOf[c] = NoToken THEN "delete" ELSE "select"
  <2>1. Goto(c, pc) /\ [call[c] EXCEPT !.pc = pc] \in CallType
    BY <1>1 DEF Begin, TypeOK, CallType
  <2>2. call' = [call EXCEPT ![c] = [call[c] EXCEPT !.pc = pc]]
    BY <2>1, GotoMoves
  <2>3. [call[c] EXCEPT !.pc = pc].pc = pc
    BY DEF TypeOK, CallType
  <2>4. drift' \in [Processes -> BOOLEAN]
    BY <1>1, Domains DEF Begin, TypeOK
  <2> QED
    BY <1>1, <2>1, <2>2, <2>3, <2>4, CallMoves DEF Begin, TypeOK
<1>2. ASSUME NEW c \in Calls, Select(c) PROVE TypeOK'
  <2> DEFINE found == TokenOf[c] \in rows
             r == [call[c] EXCEPT !.pc = "insert", !.existed = found]
  <2>0. call' = [call EXCEPT ![c].pc = "insert", ![c].existed = found] /\ found \in BOOLEAN
    BY <1>2 DEF Select
  <2> HIDE DEF found
  <2>1. r \in CallType /\ r.pc = "insert" /\ call' = [call EXCEPT ![c] = r]
    BY <2>0 DEF TypeOK, CallType
  <2>2. TokenOf[c] # NoToken
    BY <1>2 DEF Select, TypeOK
  <2> QED
    BY <1>2, <2>1, <2>2, CallMoves DEF Select, TypeOK
<1>3. ASSUME NEW c \in Calls, Insert(c) PROVE TypeOK'
  <2> DEFINE r == [call[c] EXCEPT !.pc = "inserted"]
  <2>1. r \in CallType /\ r.pc = "inserted" /\ call' = [call EXCEPT ![c] = r]
    BY <1>3 DEF Insert, Goto, TypeOK, CallType
  <2>2. TokenOf[c] # NoToken
    BY <1>3 DEF Insert, TypeOK
  <2>3. rows' \in SUBSET Tokens /\ drift' \in [Processes -> BOOLEAN]
    BY <1>3, <2>2, Domains, WriteType DEF Insert, TypeOK
  <2> QED
    BY <1>3, <2>1, <2>2, <2>3, CallMoves DEF Insert, TypeOK
<1>4. ASSUME NEW c \in Calls, Inserted(c) PROVE TypeOK'
  <2> DEFINE p == ProcessOf[c]
             count == rowCount[p] + IF call[c].existed THEN 0 ELSE 1
  <2>1. p \in Processes /\ count \in Int
    BY Domains DEF TypeOK
  <2>2. rowCount' = [rowCount EXCEPT ![p] = count]
    BY <1>4 DEF Inserted
  <2>3. rowCount' \in [Processes -> Int]
    BY <2>1, <2>2 DEF TypeOK
  <2>4. TokenOf[c] # NoToken
    BY <1>4 DEF Inserted, TypeOK
  <2>5. CASE ops[p] + 1 >= SweepInterval
    <3> DEFINE pc == IF Expires THEN "sweep" ELSE "count"
               r == [call[c] EXCEPT !.pc = pc]
    <3>1. ops' = [ops EXCEPT ![p] = 0] /\ Goto(c, pc)
      BY <1>4, <2>5 DEF Inserted
    <3>2. ops' \in [Processes -> 0..(SweepInterval - 1)]
      BY <2>1, <3>1, Domains DEF TypeOK
    <3>3. r \in CallType /\ r.pc \in {"sweep", "count"} /\ call' = [call EXCEPT ![c] = r]
      BY <3>1 DEF Goto, TypeOK, CallType
    <3> QED
      BY <1>4, <2>3, <2>4, <3>2, <3>3, CallMoves DEF Inserted, TypeOK
  <2>6. CASE ~(ops[p] + 1 >= SweepInterval)
    <3>1. ops' = [ops EXCEPT ![p] = ops[p] + 1] /\ Decide(c, count)
      BY <1>4, <2>6 DEF Inserted
    <3>2. ops[p] + 1 \in 0..(SweepInterval - 1)
      BY <2>1, <2>6, Domains DEF TypeOK
    <3>3. ops' \in [Processes -> 0..(SweepInterval - 1)]
      BY <2>1, <3>1, <3>2 DEF TypeOK
    <3> QED
      BY <1>4, <2>1, <2>3, <2>4, <3>1, <3>3, DecideType, CallMoves DEF Inserted, TypeOK
  <2> QED
    BY <2>5, <2>6
<1>5. ASSUME NEW c \in Calls, Sweep(c) PROVE TypeOK'
  <2> DEFINE r == [call[c] EXCEPT !.pc = "count"]
  <2>1. r \in CallType /\ r.pc = "count" /\ call' = [call EXCEPT ![c] = r]
    BY <1>5 DEF Sweep, Goto, TypeOK, CallType
  <2>2. TokenOf[c] # NoToken
    BY <1>5 DEF Sweep, TypeOK
  <2>3. {t \in rows : t >= horizon} \in SUBSET Tokens
    BY DEF TypeOK
  <2>4. rows' \in SUBSET Tokens /\ drift' \in [Processes -> BOOLEAN]
    BY <1>5, <2>3, Domains, WriteType DEF Sweep
  <2> QED
    BY <1>5, <2>1, <2>2, <2>4, CallMoves DEF Sweep, TypeOK
<1>6. ASSUME NEW c \in Calls, Count(c) PROVE TypeOK'
  <2> DEFINE r == [call[c] EXCEPT !.pc = "counted", !.n = Cardinality(rows)]
  <2>1. Cardinality(rows) \in Nat
    BY TableFinite DEF TypeOK
  <2>2. r \in CallType /\ r.pc = "counted" /\ call' = [call EXCEPT ![c] = r]
    BY <1>6, <2>1 DEF Count, TypeOK, CallType
  <2>3. TokenOf[c] # NoToken
    BY <1>6 DEF Count, TypeOK
  <2>4. drift' \in [Processes -> BOOLEAN]
    BY <1>6, Domains DEF Count, TypeOK
  <2> QED
    BY <1>6, <2>2, <2>3, <2>4, CallMoves DEF Count, TypeOK
<1>7. ASSUME NEW c \in Calls, Counted(c) PROVE TypeOK'
  <2>1. call[c].n \in Int /\ TokenOf[c] # NoToken
    BY <1>7 DEF Counted, TypeOK, CallType
  <2>2. rowCount' \in [Processes -> Int]
    BY <1>7, <2>1, Domains DEF Counted, TypeOK
  <2>3. Decide(c, call[c].n)
    BY <1>7 DEF Counted
  <2> QED
    BY <1>7, <2>1, <2>2, <2>3, DecideType, CallMoves DEF Counted, TypeOK
<1>8. ASSUME NEW c \in Calls, Trim(c) PROVE TypeOK'
  <2> DEFINE victims == Oldest(call[c].n)
             r == [call[c] EXCEPT !.pc = "trimmed", !.n = Cardinality(victims)]
  <2>1. victims \in SUBSET rows /\ victims \in SUBSET Tokens /\ rows \ victims \in SUBSET Tokens
    BY DEF Oldest, TypeOK
  <2>2. Cardinality(victims) \in Nat
    BY <2>1, TableFinite
  <2>3. call' = [call EXCEPT ![c].pc = "trimmed", ![c].n = Cardinality(victims)]
    BY <1>8 DEF Trim
  <2> HIDE DEF victims
  <2>4. r \in CallType /\ r.pc = "trimmed" /\ call' = [call EXCEPT ![c] = r]
    BY <2>2, <2>3 DEF TypeOK, CallType
  <2>5. TokenOf[c] # NoToken
    BY <1>8 DEF Trim, TypeOK
  <2>6. Write(ProcessOf[c], rows \ victims)
    BY <1>8 DEF Trim, victims
  <2>7. rows' \in SUBSET Tokens /\ drift' \in [Processes -> BOOLEAN]
    BY <2>1, <2>6, Domains, WriteType
  <2> QED
    BY <1>8, <2>4, <2>5, <2>7, CallMoves DEF Trim, TypeOK
<1>9. ASSUME NEW c \in Calls, Trimmed(c) PROVE TypeOK'
  <2>1. rowCount' \in [Processes -> Int]
    BY <1>9, Domains DEF Trimmed, TypeOK, CallType
  <2>2. call' = [call EXCEPT ![c] = At("done")]
    BY <1>9 DEF Trimmed, Return
  <2> QED
    BY <1>9, <2>1, <2>2, AtType, CallMoves DEF Trimmed, TypeOK
<1>10. ASSUME NEW c \in Calls, Delete(c) PROVE TypeOK'
  <2> DEFINE r == [call[c] EXCEPT !.pc = "deleted"]
  <2>1. r \in CallType /\ r.pc = "deleted" /\ call' = [call EXCEPT ![c] = r]
    BY <1>10 DEF Delete, Goto, TypeOK, CallType
  <2>2. rows' \in SUBSET Tokens /\ drift' \in [Processes -> BOOLEAN]
    BY <1>10, Domains, WriteType DEF Delete
  <2> QED
    BY <1>10, <2>1, <2>2, CallMoves DEF Delete, TypeOK
<1>11. ASSUME NEW c \in Calls, Deleted(c) PROVE TypeOK'
  <2>1. call' = [call EXCEPT ![c] = At("done")] /\ rowCount' \in [Processes -> Int]
    BY <1>11, Domains DEF Deleted, Return, TypeOK
  <2> QED
    BY <1>11, <2>1, AtType, CallMoves DEF Deleted, TypeOK
<1>12. ASSUME NEW p \in Processes, NEW stale \in BOOLEAN, Restart(p, stale) PROVE TypeOK'
  <2> DEFINE table == IF stale THEN {} ELSE rows
  <2>1. table \in SUBSET Tokens /\ Cardinality(table) \in Nat
    BY TableFinite DEF TypeOK
  <2>2. /\ rows' = table
        /\ drift' = [q \in Processes |-> q # p /\ (drift[q] \/ table # rows)]
        /\ rowCount' = [rowCount EXCEPT ![p] = Cardinality(table)]
        /\ call' = [c \in Calls |-> IF c \in InFlight(p) THEN At("dead") ELSE call[c]]
        /\ ops' = [ops EXCEPT ![p] = 0] /\ horizon' = horizon /\ restarts' = restarts + 1
    BY <1>12 DEF Restart
  <2> HIDE DEF table
  <2>3. rowCount' \in [Processes -> Int] /\ drift' \in [Processes -> BOOLEAN]
    BY <2>1, <2>2 DEF TypeOK
  <2>4. \A c \in Calls : call'[c] \in {At("dead"), call[c]}
    BY <2>2
  <2>5. call' \in [Calls -> CallType]
    BY <2>2, <2>4, AtType DEF TypeOK
  <2> QED
    BY <2>1, <2>2, <2>3, <2>4, <2>5, AtType, Domains DEF TypeOK
<1>13. CASE Tick
  BY <1>13 DEF Tick, TypeOK
<1>14. CASE UNCHANGED vars
  BY <1>14 DEF vars, TypeOK
<1> QED
  BY <1>1, <1>2, <1>3, <1>4, <1>5, <1>6, <1>7, <1>8, <1>9, <1>10, <1>11, <1>12, <1>13,
     <1>14 DEF Next, Step

(* The table holds saved profiles only, and no trim is ever asked for nothing, in *)
(* every reachable state (SqliteStorageAdapter).                                  *)
THEOREM TableTypeCorrect == Spec => []TypeOK
  BY InitType, NextType, PTL DEF Spec

-----------------------------------------------------------------------------
(* The counter *)

Resting == {"none", "done", "dead"}

(* Where the counter is while the one call of its process is between two awaits. *)
Followed(c) ==
    LET k == rowCount[ProcessOf[c]]
        size == Cardinality(rows)
        s == call[c]
    IN  /\ s.pc \in {"select", "delete", "sweep", "trim"} => k = size
        /\ s.pc = "insert" => k = size /\ (s.existed <=> TokenOf[c] \in rows)
        /\ s.pc = "inserted" => k + (IF s.existed THEN 0 ELSE 1) = size
        /\ s.pc = "counted" => s.n = size
        /\ s.pc = "trimmed" => k - s.n = size
        /\ s.pc = "deleted" => size = 0

Kept(p) ==
    /\ InFlight(p) = {} => rowCount[p] = Cardinality(rows)
    /\ \A c \in InFlight(p) : Followed(c) /\ \A d \in InFlight(p) : d = c

CounterInv == \A p \in Processes : ~drift[p] => Kept(p)

(* A call of a process that did not drift is alone in it. *)
LEMMA Alone ==
  ASSUME CounterInv, NEW c \in Calls, call[c].pc \notin Resting, ~drift[ProcessOf[c]]
  PROVE  InFlight(ProcessOf[c]) \subseteq {c} /\ Followed(c)
<1> DEFINE p == ProcessOf[c]
<1>1. Kept(p) /\ c \in InFlight(p)
  BY Domains DEF CounterInv, InFlight, Resting
<1> QED
  BY <1>1 DEF Kept

(* A statement that changes the table is a drift for the other processes. *)
LEMMA WriteDrifts ==
  ASSUME TypeOK, NEW p \in Processes, NEW table, Write(p, table)
  PROVE  /\ rows' = table /\ drift'[p] = drift[p]
         /\ \A q \in Processes \ {p} : ~drift'[q] => ~drift[q] /\ rows' = rows
  BY DEF TypeOK, Write

(* A process that neither moves nor drifts keeps its counter. *)
LEMMA OthersKept ==
  ASSUME CounterInv, NEW p \in Processes, ~drift[p], rows' = rows, rowCount'[p] = rowCount[p],
         \A c \in Calls : ProcessOf[c] = p => call'[c] = call[c]
  PROVE  Kept(p)'
<1>1. Kept(p)
  BY DEF CounterInv
<1>2. InFlight(p)' = InFlight(p)
  BY DEF InFlight
<1>3. \A c \in InFlight(p) : ProcessOf[c] = p /\ call'[c] = call[c]
  BY DEF InFlight
<1> QED
  BY <1>1, <1>2, <1>3 DEF Kept, Followed

(* What a step of one call has to keep, for every process to keep its counter. *)
LEMMA StepKeeps ==
  ASSUME CounterInv, NEW c \in Calls,
         \A d \in Calls \ {c} : call'[d] = call[d],
         \A q \in Processes \ {ProcessOf[c]} :
             rowCount'[q] = rowCount[q] /\ (~drift'[q] => ~drift[q] /\ rows' = rows),
         ~drift'[ProcessOf[c]] =>
             /\ InFlight(ProcessOf[c]) \subseteq {c}
             /\ IF call'[c].pc \in Resting
                THEN rowCount'[ProcessOf[c]] = Cardinality(rows') ELSE Followed(c)'
  PROVE  CounterInv'
<1> SUFFICES ASSUME NEW p \in Processes, ~drift'[p] PROVE Kept(p)'
  BY DEF CounterInv
<1>1. CASE p = ProcessOf[c]
  <2>1. InFlight(p)' \subseteq {c}
    BY <1>1 DEF InFlight
  <2>2. c \in InFlight(p)' <=> call'[c].pc \notin Resting
    BY <1>1 DEF InFlight, Resting
  <2> QED
    BY <1>1, <2>1, <2>2 DEF Kept
<1>2. CASE p # ProcessOf[c]
  BY <1>2, OthersKept
<1> QED
  BY <1>1, <1>2

LEMMA InitCounter == Init => CounterInv
<1> SUFFICES ASSUME Init, NEW p \in Processes PROVE Kept(p)
  BY DEF CounterInv
<1>1. InFlight(p) = {}
  BY DEF Init, At, InFlight
<1>2. Cardinality(rows) = 0
  BY FS_EmptySet DEF Init
<1> QED
  BY <1>1, <1>2 DEF Init, Kept

(* What becomes of a call that decides with the exact counter. *)
LEMMA DecideKeeps ==
  ASSUME TypeOK, NEW c \in Calls, NEW count \in Int, Decide(c, count),
         count = Cardinality(rows'), rowCount'[ProcessOf[c]] = count
  PROVE  IF call'[c].pc \in Resting
         THEN rowCount'[ProcessOf[c]] = Cardinality(rows') ELSE Followed(c)'
<1>1. call'[c] = Decided(count) /\ Decided(count).pc \in {"trim", "done"}
  BY DecideType DEF TypeOK
<1> QED
  BY <1>1 DEF Followed, Resting

LEMMA NextCounter == TypeOK /\ CounterInv /\ [Next]_vars => CounterInv'
<1> SUFFICES ASSUME TypeOK, CounterInv, [Next]_vars PROVE CounterInv'
  OBVIOUS
<1> USE DEF Resting
<1>1. ASSUME NEW c \in Calls, Begin(c) PROVE CounterInv'
  <2> DEFINE p == ProcessOf[c]
  <2>1. /\ p \in Processes /\ call[c].pc = "none" /\ rows' = rows /\ rowCount' = rowCount
        /\ drift' = [drift EXCEPT ![p] = drift[p] \/ InFlight(p) # {}]
        /\ Goto(c, IF TokenOf[c] = NoToken THEN "delete" ELSE "select")
    BY <1>1, Domains DEF Begin
  <2>2. call'[c].pc \in {"select", "delete"} /\ \A d \in Calls \ {c} : call'[d] = call[d]
    BY <2>1 DEF Goto, TypeOK, CallType
  <2>3. \A q \in Processes \ {p} : drift'[q] = drift[q]
    BY <2>1 DEF TypeOK
  <2>4. ~drift'[p] => ~drift[p] /\ InFlight(p) = {}
    BY <2>1 DEF TypeOK
  <2>5. ~drift'[p] => InFlight(p) \subseteq {c} /\ Followed(c)'
    <3> SUFFICES ASSUME ~drift'[p] PROVE InFlight(p) \subseteq {c} /\ Followed(c)'
      OBVIOUS
    <3>1. rowCount[p] = Cardinality(rows)
      BY <2>1, <2>4 DEF CounterInv, Kept
    <3> QED
      BY <2>1, <2>2, <2>4, <3>1 DEF Followed
  <2> QED
    BY <2>1, <2>2, <2>3, <2>5, StepKeeps
<1>2. ASSUME NEW c \in Calls, Select(c) PROVE CounterInv'
  <2> DEFINE p == ProcessOf[c]
             found == TokenOf[c] \in rows
  <2>1. /\ call[c].pc = "select" /\ rows' = rows /\ rowCount' = rowCount /\ drift' = drift
        /\ call' = [call EXCEPT ![c].pc = "insert", ![c].existed = found]
    BY <1>2 DEF Select
  <2> HIDE DEF found
  <2>2. /\ call'[c].pc = "insert" /\ call'[c].existed = found
        /\ \A d \in Calls \ {c} : call'[d] = call[d]
    BY <2>1 DEF TypeOK, CallType
  <2>3. ~drift[p] => InFlight(p) \subseteq {c} /\ Followed(c)
    BY <2>1, Alone
  <2>4. Followed(c) => Followed(c)'
    BY <2>1, <2>2 DEF Followed, found
  <2> QED
    BY <2>1, <2>2, <2>3, <2>4, StepKeeps
<1>3. ASSUME NEW c \in Calls, Insert(c) PROVE CounterInv'
  <2> DEFINE p == ProcessOf[c]
             table == rows \cup {TokenOf[c]}
  <2>1. /\ call[c].pc = "insert" /\ Goto(c, "inserted") /\ Write(p, table) /\ rowCount' = rowCount
    BY <1>3 DEF Insert
  <2>2. /\ call'[c].pc = "inserted" /\ call'[c].existed = call[c].existed
        /\ \A d \in Calls \ {c} : call'[d] = call[d]
    BY <2>1 DEF Goto, TypeOK, CallType
  <2>3. /\ rows' = table /\ drift'[p] = drift[p]
        /\ \A q \in Processes \ {p} : ~drift'[q] => ~drift[q] /\ rows' = rows
    BY <2>1, WriteDrifts, Domains
  <2>4. ~drift[p] => InFlight(p) \subseteq {c} /\ Followed(c)
    BY <2>1, Alone
  <2>5. TokenOf[c] \in Tokens
    BY <2>1, Domains DEF TypeOK
  <2>6. /\ rows \in SUBSET Tokens /\ Cardinality(rows) \in Nat
        /\ Cardinality(table) = IF TokenOf[c] \in rows THEN Cardinality(rows)
                                ELSE Cardinality(rows) + 1
    BY <2>5, TableFinite, InsertCount DEF TypeOK
  <2> HIDE DEF table
  <2>7. Followed(c) => Followed(c)'
    BY <2>1, <2>2, <2>3, <2>6 DEF Followed
  <2> QED
    BY <2>1, <2>2, <2>3, <2>4, <2>7, StepKeeps
<1>4. ASSUME NEW c \in Calls, Inserted(c) PROVE CounterInv'
  <2> DEFINE p == ProcessOf[c]
             count == rowCount[p] + IF call[c].existed THEN 0 ELSE 1
  <2>1. /\ call[c].pc = "inserted" /\ rows' = rows /\ drift' = drift
        /\ rowCount' = [rowCount EXCEPT ![p] = count]
        /\ \/ Goto(c, "sweep") \/ Goto(c, "count")
           \/ Decide(c, count)
    BY <1>4 DEF Inserted
  <2>2. p \in Processes /\ count \in Int
    BY Domains DEF TypeOK
  <2>3. rowCount'[p] = count /\ \A q \in Processes \ {p} : rowCount'[q] = rowCount[q]
    BY <2>1, <2>2 DEF TypeOK
  <2>4. ~drift[p] => InFlight(p) \subseteq {c} /\ count = Cardinality(rows)
    BY <2>1, Alone DEF Followed
  <2>5. \A d \in Calls \ {c} : call'[d] = call[d]
    BY <2>1 DEF Goto, Decide, TypeOK
  <2> HIDE DEF count
  <2>6. ASSUME ~drift[p]
        PROVE  IF call'[c].pc \in Resting THEN rowCount'[p] = Cardinality(rows') ELSE Followed(c)'
    <3>1. CASE Decide(c, count)
      BY <2>1, <2>2, <2>3, <2>4, <2>6, <3>1, DecideKeeps
    <3>2. CASE Goto(c, "sweep") \/ Goto(c, "count")
      <4>1. call'[c].pc \in {"sweep", "count"}
        BY <3>2 DEF Goto, TypeOK, CallType
      <4> QED
        BY <2>1, <2>3, <2>4, <2>6, <4>1 DEF Followed
    <3> QED
      BY <2>1, <3>1, <3>2
  <2> QED
    BY <2>1, <2>3, <2>4, <2>5, <2>6, StepKeeps
<1>5. ASSUME NEW c \in Calls, Sweep(c) PROVE CounterInv'
  <2> DEFINE p == ProcessOf[c]
             table == {t \in rows : t >= horizon}
  <2>1. call[c].pc = "sweep" /\ Goto(c, "count") /\ Write(p, table) /\ rowCount' = rowCount
    BY <1>5 DEF Sweep
  <2>2. call'[c].pc = "count" /\ \A d \in Calls \ {c} : call'[d] = call[d]
    BY <2>1 DEF Goto, TypeOK, CallType
  <2> HIDE DEF table
  <2>3. /\ drift'[p] = drift[p]
        /\ \A q \in Processes \ {p} : ~drift'[q] => ~drift[q] /\ rows' = rows
    BY <2>1, WriteDrifts, Domains
  <2>4. ~drift[p] => InFlight(p) \subseteq {c}
    BY <2>1, Alone
  <2> QED
    BY <2>1, <2>2, <2>3, <2>4, StepKeeps DEF Followed
<1>6. ASSUME NEW c \in Calls, Count(c) PROVE CounterInv'
  <2> DEFINE p == ProcessOf[c]
             size == Cardinality(rows)
  <2>1. /\ rows' = rows /\ rowCount' = rowCount
        /\ drift' = [drift EXCEPT ![p] = InFlight(p) # {c}]
        /\ call' = [call EXCEPT ![c].pc = "counted", ![c].n = size]
    BY <1>6 DEF Count
  <2> HIDE DEF size
  <2>2. /\ call'[c].pc = "counted" /\ call'[c].n = size
        /\ \A d \in Calls \ {c} : call'[d] = call[d]
    BY <2>1 DEF TypeOK, CallType
  <2>3. /\ ~drift'[p] => InFlight(p) = {c}
        /\ \A q \in Processes \ {p} : drift'[q] = drift[q]
    BY <2>1, Domains DEF TypeOK
  <2>4. Followed(c)'
    BY <2>1, <2>2 DEF Followed, size
  <2> QED
    BY <2>1, <2>2, <2>3, <2>4, StepKeeps
<1>7. ASSUME NEW c \in Calls, Counted(c) PROVE CounterInv'
  <2> DEFINE p == ProcessOf[c]
             count == call[c].n
  <2>1. /\ call[c].pc = "counted" /\ rows' = rows /\ drift' = drift /\ Decide(c, count)
        /\ rowCount' = [rowCount EXCEPT ![p] = count]
    BY <1>7 DEF Counted
  <2>2. p \in Processes /\ count \in Int
    BY Domains DEF TypeOK, CallType
  <2>3. rowCount'[p] = count /\ \A q \in Processes \ {p} : rowCount'[q] = rowCount[q]
    BY <2>1, <2>2 DEF TypeOK
  <2>4. ~drift[p] => InFlight(p) \subseteq {c} /\ count = Cardinality(rows)
    BY <2>1, Alone DEF Followed
  <2>5. \A d \in Calls \ {c} : call'[d] = call[d]
    BY <2>1 DEF Decide, TypeOK
  <2> HIDE DEF count
  <2>6. ASSUME ~drift[p]
        PROVE  IF call'[c].pc \in Resting THEN rowCount'[p] = Cardinality(rows') ELSE Followed(c)'
    BY <2>1, <2>2, <2>3, <2>4, <2>6, DecideKeeps
  <2> QED
    BY <2>1, <2>3, <2>4, <2>5, <2>6, StepKeeps
<1>8. ASSUME NEW c \in Calls, Trim(c) PROVE CounterInv'
  <2> DEFINE p == ProcessOf[c]
             victims == Oldest(call[c].n)
             gone == Cardinality(victims)
  <2>1. /\ call[c].pc = "trim" /\ Write(p, rows \ victims) /\ rowCount' = rowCount
        /\ call' = [call EXCEPT ![c].pc = "trimmed", ![c].n = gone]
    BY <1>8 DEF Trim
  <2>2. victims \in SUBSET rows
    BY DEF Oldest
  <2> HIDE DEF victims
  <2>3. /\ rows' = rows \ victims /\ drift'[p] = drift[p]
        /\ \A q \in Processes \ {p} : ~drift'[q] => ~drift[q] /\ rows' = rows
    BY <2>1, WriteDrifts, Domains
  <2>4. Cardinality(rows') = Cardinality(rows) - gone
    BY <2>2, <2>3, DeleteCount DEF TypeOK
  <2>5. Cardinality(rows) \in Nat /\ gone \in Nat /\ rowCount[p] \in Int
    BY <2>2, TableFinite, Domains DEF TypeOK
  <2> HIDE DEF gone
  <2>6. /\ call'[c].pc = "trimmed" /\ call'[c].n = gone
        /\ \A d \in Calls \ {c} : call'[d] = call[d]
    BY <2>1 DEF TypeOK, CallType
  <2>7. ~drift[p] => InFlight(p) \subseteq {c} /\ Followed(c)
    BY <2>1, Alone
  <2>8. Followed(c) => Followed(c)'
    BY <2>1, <2>4, <2>5, <2>6 DEF Followed
  <2> QED
    BY <2>1, <2>3, <2>6, <2>7, <2>8, StepKeeps
<1>9. ASSUME NEW c \in Calls, Trimmed(c) PROVE CounterInv'
  <2> DEFINE p == ProcessOf[c]
  <2>1. /\ call[c].pc = "trimmed" /\ rows' = rows /\ drift' = drift
        /\ call' = [call EXCEPT ![c] = At("done")]
        /\ rowCount' = [rowCount EXCEPT ![p] = rowCount[p] - call[c].n]
    BY <1>9 DEF Trimmed, Return
  <2>2. call'[c].pc = "done" /\ \A d \in Calls \ {c} : call'[d] = call[d]
    BY <2>1, AtType DEF TypeOK
  <2>3. /\ rowCount'[p] = rowCount[p] - call[c].n
        /\ \A q \in Processes \ {p} : rowCount'[q] = rowCount[q]
    BY <2>1, Domains DEF TypeOK
  <2>4. ~drift[p] => InFlight(p) \subseteq {c} /\ rowCount[p] - call[c].n = Cardinality(rows)
    BY <2>1, Alone DEF Followed
  <2> QED
    BY <2>1, <2>2, <2>3, <2>4, StepKeeps
<1>10. ASSUME NEW c \in Calls, Delete(c) PROVE CounterInv'
  <2> DEFINE p == ProcessOf[c]
  <2>1. call[c].pc = "delete" /\ Goto(c, "deleted") /\ Write(p, {}) /\ rowCount' = rowCount
    BY <1>10 DEF Delete
  <2>2. call'[c].pc = "deleted" /\ \A d \in Calls \ {c} : call'[d] = call[d]
    BY <2>1 DEF Goto, TypeOK, CallType
  <2>3. /\ rows' = {} /\ drift'[p] = drift[p]
        /\ \A q \in Processes \ {p} : ~drift'[q] => ~drift[q] /\ rows' = rows
    BY <2>1, WriteDrifts, Domains
  <2>4. ~drift[p] => InFlight(p) \subseteq {c}
    BY <2>1, Alone
  <2>5. Followed(c)'
    BY <2>2, <2>3, FS_EmptySet DEF Followed
  <2> QED
    BY <2>1, <2>2, <2>3, <2>4, <2>5, StepKeeps
<1>11. ASSUME NEW c \in Calls, Deleted(c) PROVE CounterInv'
  <2> DEFINE p == ProcessOf[c]
  <2>1. /\ call[c].pc = "deleted" /\ rows' = rows /\ drift' = drift
        /\ call' = [call EXCEPT ![c] = At("done")]
        /\ rowCount' = [rowCount EXCEPT ![p] = 0]
    BY <1>11 DEF Deleted, Return
  <2>2. call'[c].pc = "done" /\ \A d \in Calls \ {c} : call'[d] = call[d]
    BY <2>1, AtType DEF TypeOK
  <2>3. rowCount'[p] = 0 /\ \A q \in Processes \ {p} : rowCount'[q] = rowCount[q]
    BY <2>1, Domains DEF TypeOK
  <2>4. ~drift[p] => InFlight(p) \subseteq {c} /\ 0 = Cardinality(rows)
    BY <2>1, Alone DEF Followed
  <2> QED
    BY <2>1, <2>2, <2>3, <2>4, StepKeeps
<1>12. ASSUME NEW p \in Processes, NEW stale \in BOOLEAN, Restart(p, stale) PROVE CounterInv'
  <2> SUFFICES ASSUME NEW q \in Processes, ~drift'[q] PROVE Kept(q)'
    BY DEF CounterInv
  <2> DEFINE table == IF stale THEN {} ELSE rows
             size == Cardinality(table)
  <2>1. /\ rows' = table
        /\ drift' = [r \in Processes |-> r # p /\ (drift[r] \/ table # rows)]
        /\ rowCount' = [rowCount EXCEPT ![p] = size]
        /\ call' = [c \in Calls |-> IF c \in InFlight(p) THEN At("dead") ELSE call[c]]
    BY <1>12 DEF Restart
  <2> HIDE DEF table
  <2>2. CASE q = p
    <3>1. \A c \in Calls : ProcessOf[c] = p => call'[c].pc \in Resting
      BY <2>1, AtType DEF InFlight
    <3>2. InFlight(p)' = {}
      BY <3>1 DEF InFlight
    <3>3. rowCount'[p] = Cardinality(rows')
      BY <2>1 DEF TypeOK
    <3> QED
      BY <2>2, <3>2, <3>3 DEF Kept
  <2>3. CASE q # p
    <3>1. ~drift[q] /\ table = rows
      BY <2>1, <2>3
    <3> HIDE DEF size
    <3>2. rows' = rows /\ rowCount'[q] = rowCount[q]
      BY <2>1, <2>3, <3>1 DEF TypeOK
    <3>3. \A c \in Calls : ProcessOf[c] = q => call'[c] = call[c]
      BY <2>1, <2>3 DEF InFlight
    <3> QED
      BY <3>1, <3>2, <3>3, OthersKept
  <2> QED
    BY <2>2, <2>3
<1>13. CASE Tick
  BY <1>13 DEF Tick, CounterInv, Kept, InFlight, Followed
<1>14. CASE UNCHANGED vars
  BY <1>14 DEF vars, CounterInv, Kept, InFlight, Followed
<1> QED
  BY <1>1, <1>2, <1>3, <1>4, <1>5, <1>6, <1>7, <1>8, <1>9, <1>10, <1>11, <1>12, <1>13,
     <1>14 DEF Next, Step

(* The counter is exact whenever the process is at rest, however many processes   *)
(* share the table and however the calls of the others go, as long as none of its *)
(* own calls overlapped and no other process changed the table since it counted   *)
(* (rowCount of SqliteStorageAdapter).                                            *)
THEOREM CounterIsExact == Spec => []CounterExact
<1>1. CounterInv => CounterExact
  BY DEF CounterInv, Kept, CounterExact
<1> QED
  BY InitType, NextType, InitCounter, NextCounter, <1>1, PTL DEF Spec
=============================================================================
