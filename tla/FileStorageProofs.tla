------------------------- MODULE FileStorageProofs -------------------------
(* Proofs about FileStorage, for any number of processes and calls, any cap  *)
(* and any number of deaths and failed writes.                               *)
EXTENDS FileStorage, FiniteSetTheorems, TLAPS

-----------------------------------------------------------------------------
(* The domains *)

(* What a call does under its process's lock *)
Locked == {"scan", "sweep", "reconcile", "summarize", "unlink", "persist", "rename", "stat",
           "wipe", "unseed"}
Pcs == Locked \cup {"none", "start", "reading", "done", "failed", "dead"}

Summaries == [Tokens -> Versions]
CallType == [pc : Pcs, tokens : SUBSET Tokens, temps : SUBSET Tokens, changed : BOOLEAN,
             got : Summaries]
ReadType == [call : Calls, token : Tokens, at : {"stat", "read", "parse"}, mtime : Versions,
             version : Versions]
HistoryType == [saved : Summaries, written : SUBSET Tokens, removed : SUBSET Tokens,
                cleared : SUBSET Tokens, own : [Processes -> SUBSET Tokens],
                floor : [Calls -> Summaries]]

Domains ==
    /\ files \in Summaries /\ sidecar \in Summaries /\ temps \in SUBSET Tokens
    /\ index \in [Processes -> Summaries]
    /\ cache \in [Processes -> [Tokens -> [mtime : Versions, version : Versions]]]
    /\ ready \in SUBSET Processes
    /\ queue \in [Processes -> Seq(Calls)]
    /\ call \in [Calls -> CallType]
    /\ reads \in SUBSET ReadType
    /\ horizon \in Nat /\ faults \in Nat
    /\ history \in HistoryType


LEMMA Constants ==
  /\ Versions \subseteq Nat /\ 0 \in Versions
  /\ \A c \in Saves : TokenOf[c] \in Tokens /\ VersionOf[c] \in Versions /\ VersionOf[c] > 0
  /\ \A c \in Calls : ProcessOf[c] \in Processes
  /\ Saves \subseteq Calls
  BY FileAssumption DEF Tokens, Versions, Saves

LEMMA Values ==
  /\ Nothing \in Summaries
  /\ NotCached \in [mtime : Versions, version : Versions]
  /\ \A pc \in Pcs : At(pc) \in CallType
  BY Constants DEF Nothing, Summaries, NotCached, At, CallType

(* One call goes on. *)
LEMMA CallUpdate ==
  ASSUME call \in [Calls -> CallType], NEW c \in Calls
  PROVE  /\ \A k \in CallType : [call EXCEPT ![c] = k] \in [Calls -> CallType]
         /\ \A pc \in Pcs : [call EXCEPT ![c].pc = pc] \in [Calls -> CallType]
  BY DEF CallType

LEMMA HistoryUpdate ==
  ASSUME history \in HistoryType, NEW t \in Tokens
  PROVE  /\ \A v \in Versions : [history EXCEPT !.saved[t] = v] \in HistoryType
         /\ \A p \in Processes : [history EXCEPT !.written = history.written \cup {t},
                                     !.own[p] = history.own[p] \cup {t}] \in HistoryType
         /\ \A w \in SUBSET Tokens : [history EXCEPT !.removed = history.removed \cup {t},
                                                     !.cleared = w] \in HistoryType
<1>1. history.saved \in Summaries /\ history.own \in [Processes -> SUBSET Tokens]
      /\ history.written \in SUBSET Tokens /\ history.removed \in SUBSET Tokens
  BY DEF HistoryType
<1>2. ASSUME NEW v \in Versions PROVE [history EXCEPT !.saved[t] = v] \in HistoryType
  <2>1. [history.saved EXCEPT ![t] = v] \in Summaries
    BY <1>1 DEF Summaries
  <2> QED
    BY <2>1 DEF HistoryType
<1>3. ASSUME NEW p \in Processes
      PROVE  [history EXCEPT !.written = history.written \cup {t},
                             !.own[p] = history.own[p] \cup {t}] \in HistoryType
  <2>1. [history.own EXCEPT ![p] = history.own[p] \cup {t}] \in [Processes -> SUBSET Tokens]
    BY <1>1
  <2>2. history.written \cup {t} \in SUBSET Tokens
    BY <1>1
  <2> QED
    BY <2>1, <2>2 DEF HistoryType
<1>4. ASSUME NEW w \in SUBSET Tokens
      PROVE  [history EXCEPT !.removed = history.removed \cup {t}, !.cleared = w] \in HistoryType
  <2>1. history.removed \cup {t} \in SUBSET Tokens
    BY <1>1
  <2> QED
    BY <2>1 DEF HistoryType
<1> QED
  BY <1>2, <1>3, <1>4

LEMMA InitDomains == Init => Domains
  BY Constants, Values DEF Init, Domains, Summaries, Pcs, Locked, HistoryType

LEMMA PruneType ==
  ASSUME Domains, NEW p \in Processes, NEW gone, Prune(p, gone)
  PROVE  /\ index' \in [Processes -> Summaries]
         /\ cache' \in [Processes -> [Tokens -> [mtime : Versions, version : Versions]]]
<1>1. [t \in Tokens |-> IF t \in gone THEN 0 ELSE index[p][t]] \in Summaries
  BY Constants DEF Domains, Summaries
<1>2. [t \in Tokens |-> IF t \in gone THEN NotCached ELSE cache[p][t]]
        \in [Tokens -> [mtime : Versions, version : Versions]]
  BY Values DEF Domains
<1> QED
  BY <1>1, <1>2 DEF Prune, Domains

LEMMA ReadAllType ==
  ASSUME Domains, NEW c \in Calls, NEW tokens \in SUBSET Tokens, ReadAll(c, tokens)
  PROVE  reads' \in SUBSET ReadType
  BY Constants DEF ReadAll, Domains, ReadType

LEMMA ReleaseType ==
  ASSUME Domains, NEW c \in Calls, Release(c), Holds(c)
  PROVE  queue' \in [Processes -> Seq(Calls)]
  BY Constants DEF Release, Domains, Holds

LEMMA ExtendedType ==
  ASSUME Domains, NEW c \in Calls
  PROVE  Extended(c) \in Summaries
  BY Constants DEF Extended, Domains, CallType, Summaries

LEMMA ListType ==
  ASSUME Domains, NEW c \in Calls, Holds(c), NEW summaries \in Summaries, List(c, summaries)
  PROVE  reads' \in SUBSET ReadType /\ queue' \in [Processes -> Seq(Calls)]
         /\ call' \in [Calls -> CallType]
<1>1. {t \in Tokens : summaries[t] > 0} \ Expired \in SUBSET Tokens
  OBVIOUS
<1>2. reads' \in SUBSET ReadType
  BY <1>1, ReadAllType DEF List
<1>3. \E pc \in Pcs : call' = [call EXCEPT ![c] = At(pc)]
  BY DEF List, Pcs
<1> QED
  BY <1>2, <1>3, Values, CallUpdate, ReleaseType DEF List, Domains

(* A call that leaves one token behind *)
LEMMA TokenType ==
  ASSUME call \in [Calls -> CallType], NEW c \in Calls, NEW t \in call[c].tokens
  PROVE  t \in Tokens /\ call[c].tokens \ {t} \in SUBSET Tokens /\ call[c].pc \in Pcs
  BY DEF CallType

LEMMA TokenLeft ==
  ASSUME call \in [Calls -> CallType], NEW c \in Calls, NEW t \in call[c].tokens,
         \/ call' = [call EXCEPT ![c].tokens = call[c].tokens \ {t}]
         \/ call' = [call EXCEPT ![c].tokens = call[c].tokens \ {t},
                                ![c].pc = IF call[c].tokens = {t} THEN "persist" ELSE call[c].pc]
  PROVE  call' \in [Calls -> CallType]
<1>1. PICK q \in CallType : q = call[c]
  OBVIOUS
<1>2. PICK tokens \in SUBSET Tokens, pc \in Pcs :
        tokens = call[c].tokens \ {t} /\ pc = IF call[c].tokens = {t} THEN "persist" ELSE call[c].pc
  <2>1. "persist" \in Pcs
    BY DEF Pcs, Locked
  <2> QED
    BY <2>1, TokenType
<1>3. PICK r, s : r = [q EXCEPT !.tokens = tokens] /\ s = [q EXCEPT !.tokens = tokens, !.pc = pc]
  OBVIOUS
<1>4. r \in CallType /\ s \in CallType
  BY <1>3 DEF CallType
<1>5. call' = [call EXCEPT ![c] = r] \/ call' = [call EXCEPT ![c] = s]
  BY <1>1, <1>2, <1>3
<1> QED
  BY <1>4, <1>5

LEMMA LoadTypes ==
  ASSUME call \in [Calls -> CallType], temps \in SUBSET Tokens, NEW c \in Calls,
         Scan(c) \/ SweepTemps(c) \/ Readdir(c) \/ Reconcile(c)
  PROVE  call' \in [Calls -> CallType]
<1>1. PICK q \in CallType : q = call[c]
  OBVIOUS
<1>2. "sweep" \in Pcs /\ "reconcile" \in Pcs /\ "summarize" \in Pcs /\ OnDisk \in SUBSET Tokens
  BY DEF Pcs, Locked, OnDisk
<1>3. CASE Scan(c)
  <2>1. PICK r : r = [q EXCEPT !.pc = "sweep", !.tokens = OnDisk, !.temps = temps]
    OBVIOUS
  <2>2. r \in CallType
    BY <1>2, <2>1 DEF CallType
  <2>3. call' = [call EXCEPT ![c] = r]
    BY <1>1, <1>3, <2>1 DEF Scan
  <2> QED
    BY <2>2, <2>3
<1>4. CASE SweepTemps(c)
  <2>1. PICK r : r = [q EXCEPT !.pc = "reconcile", !.temps = {}]
    OBVIOUS
  <2>2. r \in CallType
    BY <1>2, <2>1 DEF CallType
  <2>3. call' = [call EXCEPT ![c] = r]
    BY <1>1, <1>4, <2>1 DEF SweepTemps
  <2> QED
    BY <2>2, <2>3
<1>5. CASE Readdir(c)
  <2>1. PICK r : r = [q EXCEPT !.pc = "reconcile", !.tokens = OnDisk]
    OBVIOUS
  <2>2. r \in CallType
    BY <1>2, <2>1 DEF CallType
  <2>3. call' = [call EXCEPT ![c] = r]
    BY <1>1, <1>5, <2>1 DEF Readdir
  <2> QED
    BY <2>2, <2>3
<1>6. CASE Reconcile(c)
  <2>1. PICK changed \in BOOLEAN : changed = (Indexed(ProcessOf[c]) \ call[c].tokens # {})
    BY Zenon
  <2>2. PICK r : r = [q EXCEPT !.pc = "summarize", !.tokens = {}, !.changed = changed]
    OBVIOUS
  <2>3. r \in CallType
    BY <1>2, <2>2 DEF CallType
  <2>4. call' = [call EXCEPT ![c] = r]
    BY <1>1, <1>6, <2>1, <2>2 DEF Reconcile
  <2> QED
    BY <2>3, <2>4
<1> QED
  BY <1>3, <1>4, <1>5, <1>6

(* The load of a directory, and the listing of a read *)
LEMMA LoadDomains ==
  ASSUME Domains, NEW c \in Calls,
         Seed(c) \/ Scan(c) \/ SweepTemps(c) \/ Readdir(c) \/ Reconcile(c)
  PROVE  Domains'
<1> USE Constants DEF Domains, vars, disk, memory
<1>1. CASE Seed(c)
  BY <1>1, CallUpdate DEF Seed, Goto, Pcs, Locked
<1>2. CASE Scan(c) \/ SweepTemps(c) \/ Readdir(c)
  <2>1. call' \in [Calls -> CallType]
    BY <1>2, LoadTypes
  <2>2. /\ UNCHANGED <<files, sidecar, memory, queue, reads, horizon, faults, history>>
        /\ temps' \in SUBSET Tokens
    BY <1>2 DEF Scan, SweepTemps, Readdir
  <2> QED
    BY <2>1, <2>2
<1>3. CASE Reconcile(c)
  <2>1. call[c].tokens \ Indexed(ProcessOf[c]) \in SUBSET Tokens
    BY DEF CallType
  <2>2. reads' \in SUBSET ReadType
    BY <1>3, <2>1, ReadAllType DEF Reconcile
  <2>3. call' \in [Calls -> CallType]
    BY <1>3, LoadTypes
  <2> QED
    BY <1>3, <2>2, <2>3, PruneType DEF Reconcile
<1> QED
  BY <1>1, <1>2, <1>3

LEMMA SummarizeDomains ==
  ASSUME Domains, NEW c \in Calls, SummarizeRead(c) \/ SummarizeLoad(c)
  PROVE  Domains'
<1> USE Constants DEF Domains, vars, disk, memory
<1>1. CASE SummarizeRead(c)
  <2>1. index' \in [Processes -> Summaries]
    BY <1>1, ExtendedType DEF SummarizeRead
  <2>2. /\ reads' \in SUBSET ReadType /\ queue' \in [Processes -> Seq(Calls)]
        /\ call' \in [Calls -> CallType]
    <3>1. CASE call' = [call EXCEPT ![c] = At("persist")] /\ UNCHANGED <<queue, reads>>
      BY <3>1, Values, CallUpdate DEF Pcs, Locked
    <3>2. CASE List(c, Extended(c))
      BY <1>1, <3>2, ExtendedType, ListType DEF SummarizeRead, InLock
    <3> QED
      BY <1>1, <3>1, <3>2 DEF SummarizeRead
  <2> QED
    BY <1>1, <2>1, <2>2 DEF SummarizeRead
<1>2. CASE SummarizeLoad(c)
  <2> DEFINE expired == {t \in Expired : Extended(c)[t] > 0}
  <2>1. [t \in Tokens |-> IF t \in expired THEN 0 ELSE Extended(c)[t]] \in Summaries
    BY ExtendedType DEF Summaries
  <2>2. index' \in [Processes -> Summaries]
    BY <1>2, <2>1 DEF SummarizeLoad
  <2>3. [t \in Tokens |-> IF t \in expired THEN NotCached ELSE cache[ProcessOf[c]][t]]
          \in [Tokens -> [mtime : Versions, version : Versions]]
    BY Values
  <2>4. cache' \in [Processes -> [Tokens -> [mtime : Versions, version : Versions]]]
    BY <1>2, <2>3 DEF SummarizeLoad
  <2>5. [At("unlink") EXCEPT !.tokens = expired] \in CallType
    <3>1. At("unlink") \in CallType
      BY Values DEF Pcs, Locked
    <3>2. expired \in SUBSET Tokens
      BY DEF Expired
    <3> QED
      BY <3>1, <3>2 DEF CallType
  <2>6. call' \in [Calls -> CallType]
    <3>1. \E k \in CallType : call' = [call EXCEPT ![c] = k]
      BY <1>2, <2>5, Values DEF SummarizeLoad, Pcs, Locked
    <3> QED
      BY <3>1, CallUpdate
  <2>7. ready' \in SUBSET Processes
    BY <1>2 DEF SummarizeLoad
  <2> QED
    BY <1>2, <2>2, <2>4, <2>6, <2>7 DEF SummarizeLoad
<1> QED
  BY <1>1, <1>2

-----------------------------------------------------------------------------
(* The lock *)

Queued(c) == \E i \in DOMAIN queue[ProcessOf[c]] : queue[ProcessOf[c]][i] = c
Ready(c) == ProcessOf[c] \in ready

(* A process's queue holds its own calls, each once. *)
Queues ==
    \A p \in Processes : \A i, j \in DOMAIN queue[p] :
        ProcessOf[queue[p][i]] = p /\ (queue[p][i] = queue[p][j] => i = j)

(* What is past its start and not over holds the lock; files are read within the *)
(* lock, or after it.                                                            *)
Discipline ==
    /\ \A c \in Calls : (InFlight(c) /\ call[c].pc # "reading") <=> Queued(c)
    /\ \A c \in Calls : call[c].pc \in Locked => Holds(c)
    /\ \A r \in reads : call[r.call].pc \in {"summarize", "reading"}

(* Which calls get where: a process that is not ready loads, and saved nothing. *)
Place(c) ==
    /\ call[c].pc \in {"scan", "sweep"} => ~Ready(c)
    /\ call[c].pc \in {"rename", "stat"} => Kind[c] = "save" /\ Ready(c)
    /\ call[c].pc = "unlink" /\ Ready(c) => Kind[c] = "save"
    /\ call[c].pc \in {"wipe", "unseed"} => Kind[c] = "clear" /\ Ready(c)
    /\ call[c].pc \in {"reconcile", "summarize"} /\ Ready(c) => Kind[c] = "read"
    /\ call[c].pc \in {"none", "start", "scan", "sweep", "reconcile"} => call[c].got = Nothing

Paths ==
    /\ \A c \in Calls : Place(c)
    /\ \A p \in Processes \ ready : history.own[p] = {}

Lock == Domains /\ Queues /\ Discipline /\ Paths

LEMMA SaveDomains ==
  ASSUME Domains, Paths, NEW c \in Calls,
         Write(c) \/ Rename(c) \/ RenameFails(c) \/ Stat(c) \/ Unlink(c)
  PROVE  Domains'
<1> USE Constants DEF Domains, vars, disk, memory
<1>1. CASE Write(c)
  BY <1>1, CallUpdate DEF Write, Goto, Pcs, Locked, Saves
<1>2. CASE Rename(c)
  <2>1. c \in Saves
    BY <1>2 DEF Rename, InLock, Paths, Place, Saves
  <2>2. history' \in HistoryType
    BY <1>2, <2>1, HistoryUpdate DEF Rename
  <2>3. call' \in [Calls -> CallType]
    BY <1>2, CallUpdate DEF Rename, Goto, Pcs, Locked
  <2>4. files' \in Summaries /\ index' \in [Processes -> Summaries]
    BY <1>2, <2>1 DEF Rename, Summaries
  <2> QED
    BY <1>2, <2>2, <2>3, <2>4 DEF Rename
<1>3. CASE RenameFails(c)
  BY <1>3, CallUpdate, Values, ReleaseType DEF RenameFails, InLock, Leave, Pcs
<1>4. CASE Stat(c)
  <2> DEFINE t == TokenOf[c]
             victims == Victims(Indexed(ProcessOf[c]))
             cached == IF files[t] > 0 THEN [mtime |-> files[t], version |-> VersionOf[c]]
                                       ELSE cache[ProcessOf[c]][t]
  <2>1. victims \in SUBSET Tokens
    BY DEF Victims, Oldest, Indexed
  <2>2. [u \in Tokens |-> IF u \in victims THEN 0 ELSE index[ProcessOf[c]][u]] \in Summaries
    BY DEF Summaries
  <2> c \in Saves
    BY <1>4 DEF Stat, InLock, Paths, Place, Saves
  <2>3. cached \in [mtime : Versions, version : Versions]
    BY DEF Summaries
  <2>4. [u \in Tokens |-> IF u \in victims THEN NotCached
                          ELSE IF u = t THEN cached ELSE cache[ProcessOf[c]][u]]
          \in [Tokens -> [mtime : Versions, version : Versions]]
    BY <2>3, Values
  <2>5. call' \in [Calls -> CallType]
    <3>1. At("persist") \in CallType /\ At("unlink") \in CallType
      BY Values DEF Pcs, Locked
    <3>2. [At("unlink") EXCEPT !.tokens = victims] \in CallType
      BY <2>1, <3>1 DEF CallType
    <3> QED
      BY <1>4, <3>1, <3>2, CallUpdate DEF Stat
  <2>6. index' \in [Processes -> Summaries]
    BY <1>4, <2>2 DEF Stat
  <2>7. cache' \in [Processes -> [Tokens -> [mtime : Versions, version : Versions]]]
    BY <1>4, <2>4 DEF Stat
  <2> QED
    BY <1>4, <2>5, <2>6, <2>7 DEF Stat
<1>5. CASE Unlink(c)
  <2>1. PICK t \in call[c].tokens :
          /\ files' = [files EXCEPT ![t] = 0]
          /\ history' = [history EXCEPT
                            !.removed = history.removed \cup {t},
                            !.cleared = IF t \in Expired THEN history.cleared \cup {t}
                                                         ELSE history.cleared]
          /\ call' = [call EXCEPT ![c].tokens = call[c].tokens \ {t},
                         ![c].pc = IF call[c].tokens = {t} THEN "persist" ELSE call[c].pc]
          /\ UNCHANGED <<temps, sidecar, memory, queue, reads, horizon, faults>>
    BY <1>5 DEF Unlink
  <2>2. t \in Tokens /\ call[c].tokens \ {t} \in SUBSET Tokens /\ call[c].pc \in Pcs
    BY <2>1, TokenType
  <2>3. call' \in [Calls -> CallType]
    BY <2>1, TokenLeft
  <2>4. (IF t \in Expired THEN history.cleared \cup {t} ELSE history.cleared) \in SUBSET Tokens
    BY <2>2 DEF HistoryType
  <2>5. history' \in HistoryType
    BY <2>1, <2>2, <2>4, HistoryUpdate
  <2>6. files' \in Summaries
    BY <2>1, <2>2 DEF Summaries
  <2> QED
    BY <2>1, <2>3, <2>5, <2>6
<1> QED
  BY <1>1, <1>2, <1>3, <1>4, <1>5

LEMMA PersistDomains ==
  ASSUME Domains, NEW c \in Calls, Persist(c)
  PROVE  Domains'
<1> USE Constants DEF Domains, vars, disk, memory
<1>1. index[ProcessOf[c]] \in Summaries
  OBVIOUS
<1>2. sidecar' \in Summaries /\ faults' \in Nat
  BY <1>1, Values DEF Persist
<1>3. /\ ready' \in SUBSET Processes /\ call' \in [Calls -> CallType] /\ reads' \in SUBSET ReadType
      /\ queue' \in [Processes -> Seq(Calls)] /\ history' \in HistoryType
  <2>1. CASE ProcessOf[c] \notin ready
    <3>1. call' = [call EXCEPT ![c] = At("start")]
      BY <2>1 DEF Persist, Continue
    <3>2. call' \in [Calls -> CallType]
      BY <3>1, Values, CallUpdate DEF Pcs
    <3> QED
      BY <2>1, <3>2 DEF Persist, Continue
  <2>2. CASE ProcessOf[c] \in ready /\ Kind[c] = "read"
    BY <1>1, <2>2, ListType DEF Persist, Continue, InLock
  <2>3. CASE ProcessOf[c] \in ready /\ Kind[c] = "save"
    <3>1. TokenOf[c] \in Tokens /\ VersionOf[c] \in Versions
      BY <2>3 DEF Saves
    <3>2. /\ Leave(c, "done") /\ UNCHANGED <<ready, reads>> /\ Holds(c)
          /\ history' = [history EXCEPT !.saved[TokenOf[c]] = VersionOf[c]]
      BY <2>3 DEF Persist, Continue, InLock
    <3>3. history' \in HistoryType
      BY <3>1, <3>2, HistoryUpdate
    <3>4. queue' \in [Processes -> Seq(Calls)]
      BY <3>2, ReleaseType DEF Leave
    <3>5. call' \in [Calls -> CallType]
      BY <3>2, Values, CallUpdate DEF Leave, Pcs
    <3> QED
      BY <3>2, <3>3, <3>4, <3>5
  <2> QED
    BY <2>1, <2>2, <2>3 DEF Persist, Continue
<1> QED
  BY <1>2, <1>3 DEF Persist

LEMMA ClearDomains ==
  ASSUME Domains, NEW c \in Calls, Wipe(c) \/ WipeOne(c) \/ Forget(c) \/ Unseed(c)
  PROVE  Domains'
<1> USE Constants DEF Domains, vars, disk, memory
<1>1. CASE Wipe(c)
  <2> DEFINE indexed == Indexed(ProcessOf[c])
  <2>1. At("wipe") \in CallType /\ indexed \in SUBSET Tokens
    BY Values DEF Pcs, Locked, Indexed
  <2>2. [At("wipe") EXCEPT !.tokens = indexed] \in CallType
    BY <2>1 DEF CallType
  <2>3. call' \in [Calls -> CallType]
    BY <1>1, <2>2, CallUpdate DEF Wipe
  <2> QED
    BY <1>1, <2>3 DEF Wipe
<1>2. CASE WipeOne(c)
  <2>1. PICK t \in call[c].tokens :
          /\ files' = [files EXCEPT ![t] = 0]
          /\ history' = [history EXCEPT !.removed = history.removed \cup {t},
                                        !.cleared = history.cleared \cup {t}]
          /\ call' = [call EXCEPT ![c].tokens = call[c].tokens \ {t}]
          /\ UNCHANGED <<temps, sidecar, memory, queue, reads, horizon, faults>>
    BY <1>2 DEF WipeOne
  <2>2. t \in Tokens /\ call[c].tokens \ {t} \in SUBSET Tokens
    BY <2>1, TokenType
  <2>3. call' \in [Calls -> CallType]
    BY <2>1, TokenLeft
  <2>4. history.cleared \cup {t} \in SUBSET Tokens
    BY <2>2 DEF HistoryType
  <2>5. history' \in HistoryType
    BY <2>1, <2>2, <2>4, HistoryUpdate
  <2>6. files' \in Summaries
    BY <2>1, <2>2 DEF Summaries
  <2> QED
    BY <2>1, <2>3, <2>5, <2>6
<1>3. CASE Forget(c)
  <2>1. call' \in [Calls -> CallType]
    BY <1>3, CallUpdate DEF Forget, Goto, Pcs, Locked
  <2> QED
    BY <1>3, <2>1, PruneType DEF Forget
<1>4. CASE Unseed(c)
  BY <1>4, Values, CallUpdate, ReleaseType DEF Unseed, Leave, InLock, Pcs
<1> QED
  BY <1>1, <1>2, <1>3, <1>4

(* One file of one call *)
LEMMA AnswerType ==
  ASSUME Domains, NEW r \in reads, NEW version \in Versions, Answer(r, version)
  PROVE  reads' \in SUBSET ReadType /\ call' \in [Calls -> CallType]
<1>1. r.call \in Calls /\ r.token \in Tokens
  BY DEF Domains, ReadType
<1> PICK d \in Calls, t \in Tokens : d = r.call /\ t = r.token
  BY <1>1
<1>2. call \in [Calls -> CallType]
  BY DEF Domains
<1>3. \E pc \in Pcs : call' = [call EXCEPT ![d].got[t] = version, ![d].pc = pc]
  <2> DEFINE pc == IF call[d].pc = "reading" /\ \A s \in reads \ {r} : s.call # d
                   THEN "done" ELSE call[d].pc
  <2>1. call' = [call EXCEPT ![d].got[t] = version, ![d].pc = pc]
    BY <1>2 DEF Answer, CallType
  <2>2. pc \in Pcs
    BY <1>2 DEF CallType, Pcs
  <2> QED
    BY <2>1, <2>2
<1>4. call' \in [Calls -> CallType]
  <2>1. [call[d].got EXCEPT ![t] = version] \in Summaries
    BY <1>2 DEF CallType, Summaries
  <2> QED
    BY <1>2, <1>3, <2>1, SMTT(30) DEF CallType
<1> QED
  BY <1>4 DEF Answer, Domains

LEMMA ReadDomains ==
  ASSUME Domains, NEW r \in reads, ReadProfile(r)
  PROVE  Domains'
<1> USE Constants DEF Domains, vars, disk, memory
<1>1. /\ r \in ReadType /\ r.call \in Calls /\ r.token \in Tokens /\ ProcessOf[r.call] \in Processes
      /\ r.mtime \in Versions /\ r.version \in Versions /\ files[r.token] \in Versions
  BY DEF ReadType, Summaries
<1>2. /\ cache' \in [Processes -> [Tokens -> [mtime : Versions, version : Versions]]]
      /\ reads' \in SUBSET ReadType /\ call' \in [Calls -> CallType]
  <2>1. CASE Missing(r)
    BY <1>1, <2>1, Values, AnswerType DEF Missing, Cache
  <2>2. CASE StatFile(r)
    <3>1. cache[ProcessOf[r.call]][r.token].version \in Versions
      BY <1>1
    <3>2. [r EXCEPT !.at = "read", !.mtime = files[r.token]] \in ReadType
      BY <1>1 DEF ReadType
    <3> QED
      BY <2>2, <3>1, <3>2, AnswerType DEF StatFile, Advance
  <2>3. CASE ReadFile(r)
    <3>1. [r EXCEPT !.at = "parse", !.version = files[r.token]] \in ReadType
      BY <1>1 DEF ReadType
    <3> QED
      BY <2>3, <3>1 DEF ReadFile, Advance
  <2>4. CASE Parse(r)
    <3>1. [mtime |-> r.mtime, version |-> r.version] \in [mtime : Versions, version : Versions]
      BY <1>1
    <3> QED
      BY <1>1, <2>4, <3>1, AnswerType DEF Parse, Cache
  <2> QED
    BY <2>1, <2>2, <2>3, <2>4 DEF ReadProfile
<1> QED
  BY <1>2 DEF ReadProfile

LEMMA OtherDomains ==
  ASSUME Domains, \/ \E c \in Calls : Begin(c)
                  \/ \E p \in Processes : Die(p)
                  \/ Tick \/ UNCHANGED vars
  PROVE  Domains'
<1> USE Constants DEF Domains, vars, disk, memory
<1>1. ASSUME NEW c \in Calls, Begin(c) PROVE Domains'
  <2>1. call' \in [Calls -> CallType]
    BY <1>1, CallUpdate DEF Begin, Goto, Pcs
  <2>2. queue' \in [Processes -> Seq(Calls)]
    BY <1>1 DEF Begin
  <2>3. history' \in HistoryType
    <3>1. \E f \in Summaries : history' = [history EXCEPT !.floor[c] = f]
      BY <1>1 DEF Begin, HistoryType
    <3>2. PICK f \in Summaries : history' = [history EXCEPT !.floor[c] = f]
      BY <3>1
    <3>3. [history.floor EXCEPT ![c] = f] \in [Calls -> Summaries]
      BY DEF HistoryType
    <3> QED
      BY <3>2, <3>3 DEF HistoryType
  <2> QED
    BY <1>1, <2>1, <2>2, <2>3 DEF Begin
<1>2. ASSUME NEW p \in Processes, Die(p) PROVE Domains'
  <2> DEFINE lost == {c \in Calls : ProcessOf[c] = p /\ InFlight(c)}
  <2>1. call' \in [Calls -> CallType]
    <3>1. call' = [c \in Calls |-> IF c \in lost THEN At("dead") ELSE call[c]]
      BY <1>2 DEF Die
    <3>2. At("dead") \in CallType
      BY Values DEF Pcs
    <3> HIDE DEF lost
    <3> QED
      BY <3>1, <3>2
  <2>2. reads' \in SUBSET ReadType
    BY <1>2 DEF Die
  <2>3. history' \in HistoryType
    <3>1. history' = [history EXCEPT !.own[p] = {}]
      BY <1>2 DEF Die
    <3>2. [history.own EXCEPT ![p] = {}] \in [Processes -> SUBSET Tokens]
      BY DEF HistoryType
    <3> QED
      BY <3>1, <3>2 DEF HistoryType
  <2>4. queue' \in [Processes -> Seq(Calls)]
    BY <1>2 DEF Die
  <2>5. /\ index' \in [Processes -> Summaries]
        /\ cache' \in [Processes -> [Tokens -> [mtime : Versions, version : Versions]]]
    BY <1>2, PruneType DEF Die
  <2>6. /\ UNCHANGED <<files, temps, sidecar, horizon>> /\ faults' = faults + 1
        /\ ready' = ready \ {p}
    BY <1>2 DEF Die
  <2> QED
    BY <2>1, <2>2, <2>3, <2>4, <2>5, <2>6
<1>3. CASE Tick \/ UNCHANGED vars
  BY <1>3 DEF Tick
<1> QED
  BY <1>1, <1>2, <1>3

LEMMA NextDomains == Domains /\ Paths /\ [Next]_vars => Domains'
  BY LoadDomains, SummarizeDomains, SaveDomains, PersistDomains, ClearDomains, ReadDomains,
     OtherDomains, FileAssumption DEF Next, Step

-----------------------------------------------------------------------------
(* The steps of a call under its lock *)

(* Only the step's call moves: it stays under the lock, or releases it. *)
Moves(c) ==
    /\ Holds(c) /\ call[c].pc \in Locked \cup {"start"}
    /\ \A d \in Calls \ {c} : call'[d] = call[d]
    /\ \/ queue' = queue /\ call'[c].pc \in Locked \cup {"start"}
       \/ Release(c) /\ call'[c].pc \in {"reading", "done", "failed"}

(* Files are read by the call that steps, which then waits for them. *)
StartsReads(c) ==
    /\ reads \subseteq reads'
    /\ \A r \in reads' \ reads : r.call = c /\ r.at = "stat"
    /\ reads' # reads => call'[c].pc \in {"summarize", "reading"}
    /\ call[c].pc = "summarize" => ~Reading(c)

LEMMA ListMoves ==
  ASSUME Domains, NEW c \in Calls, NEW summaries, List(c, summaries), Holds(c),
         call[c].pc \in {"summarize", "persist"}, call[c].pc = "summarize" => ~Reading(c)
  PROVE  Moves(c) /\ StartsReads(c)
<1> DEFINE valid == {t \in Tokens : summaries[t] > 0} \ Expired
<1>1. /\ call' = [call EXCEPT ![c] = At(IF valid = {} THEN "done" ELSE "reading")]
      /\ Release(c) /\ ReadAll(c, valid)
  BY DEF List
<1>2. Moves(c)
  BY <1>1 DEF Moves, At, Locked, Domains
<1>3. /\ reads \subseteq reads' /\ \A r \in reads' \ reads : r.call = c /\ r.at = "stat"
      /\ valid = {} => reads' = reads
  BY <1>1 DEF ReadAll
<1>4. valid # {} => call'[c].pc = "reading"
  BY <1>1 DEF At, Domains
<1> QED
  BY <1>2, <1>3, <1>4 DEF StartsReads

LEMMA LoadMoves ==
  ASSUME Domains, NEW c \in Calls,
         Seed(c) \/ Scan(c) \/ SweepTemps(c) \/ Readdir(c) \/ Reconcile(c)
  PROVE  Moves(c) /\ StartsReads(c)
<1> USE DEF InLock, Locked
<1>0. call \in [Calls -> CallType]
  BY DEF Domains
<1>1. CASE Seed(c)
  BY <1>0, <1>1 DEF Seed, Goto, CallType, Moves, StartsReads
<1>2. CASE Scan(c)
  BY <1>0, <1>2 DEF Scan, CallType, Moves, StartsReads
<1>3. CASE SweepTemps(c)
  BY <1>0, <1>3 DEF SweepTemps, CallType, Moves, StartsReads
<1>4. CASE Readdir(c)
  BY <1>0, <1>4 DEF Readdir, CallType, Moves, StartsReads
<1>5. CASE Reconcile(c)
  <2>1. Moves(c) /\ call'[c].pc = "summarize" /\ call[c].pc = "reconcile"
    BY <1>0, <1>5 DEF Reconcile, CallType, Moves
  <2>2. reads \subseteq reads' /\ \A r \in reads' \ reads : r.call = c /\ r.at = "stat"
    BY <1>5 DEF Reconcile, ReadAll
  <2> QED
    BY <2>1, <2>2 DEF StartsReads
<1> QED
  BY <1>1, <1>2, <1>3, <1>4, <1>5

LEMMA SummarizeMoves ==
  ASSUME Domains, NEW c \in Calls, SummarizeRead(c) \/ SummarizeLoad(c)
  PROVE  Moves(c) /\ StartsReads(c)
<1> USE DEF InLock, Locked
<1>0. call \in [Calls -> CallType]
  BY DEF Domains
<1>1. CASE SummarizeRead(c)
  <2>1. CASE call' = [call EXCEPT ![c] = At("persist")] /\ UNCHANGED <<queue, reads>>
    BY <1>0, <1>1, <2>1 DEF SummarizeRead, At, Moves, StartsReads
  <2>2. CASE List(c, Extended(c))
    BY <1>1, <2>2, ListMoves DEF SummarizeRead
  <2> QED
    BY <1>1, <2>1, <2>2 DEF SummarizeRead
<1>2. CASE SummarizeLoad(c)
  <2>1. /\ \E k \in CallType : call' = [call EXCEPT ![c] = k] /\ k.pc \in Locked \cup {"start"}
        /\ UNCHANGED <<queue, reads>>
    <3> DEFINE expired == {t \in Expired : Extended(c)[t] > 0}
    <3>1. expired \in SUBSET Tokens
      BY DEF Expired
    <3>2. /\ [At("unlink") EXCEPT !.tokens = expired] \in CallType
          /\ [At("unlink") EXCEPT !.tokens = expired].pc = "unlink"
      BY <3>1, Values DEF CallType, Pcs, At
    <3>3. \A pc \in {"persist", "start"} : At(pc) \in CallType /\ At(pc).pc = pc
      BY Values DEF Pcs, At
    <3> QED
      BY <1>2, <3>2, <3>3 DEF SummarizeLoad
  <2>2. /\ Holds(c) /\ call[c].pc = "summarize" /\ ~Reading(c)
    BY <1>2 DEF SummarizeLoad
  <2> QED
    BY <1>0, <2>1, <2>2 DEF Moves, StartsReads
<1> QED
  BY <1>1, <1>2

LEMMA SaveMoves ==
  ASSUME Domains, NEW c \in Calls,
         Write(c) \/ Rename(c) \/ RenameFails(c) \/ Stat(c) \/ Unlink(c)
  PROVE  Moves(c) /\ StartsReads(c)
<1> USE DEF InLock, Locked
<1>0. call \in [Calls -> CallType]
  BY DEF Domains
<1>1. CASE Write(c)
  BY <1>0, <1>1 DEF Write, Goto, CallType, Moves, StartsReads
<1>2. CASE Rename(c)
  BY <1>0, <1>2 DEF Rename, Goto, CallType, Moves, StartsReads
<1>3. CASE RenameFails(c)
  BY <1>0, <1>3 DEF RenameFails, Leave, At, Moves, StartsReads
<1>4. CASE Stat(c)
  <2>1. \E tokens \in SUBSET Tokens :
          call' = [call EXCEPT ![c] = IF tokens = {} THEN At("persist")
                                      ELSE [At("unlink") EXCEPT !.tokens = tokens]]
    <3>1. Victims(Indexed(ProcessOf[c])) \in SUBSET Tokens
      BY DEF Victims, Oldest, Indexed
    <3> QED
      BY <1>4, <3>1 DEF Stat
  <2>2. UNCHANGED <<queue, reads>> /\ Holds(c) /\ call[c].pc = "stat"
    BY <1>4 DEF Stat
  <2> QED
    BY <1>0, <2>1, <2>2 DEF At, Moves, StartsReads
<1>5. CASE Unlink(c)
  <2>1. PICK t \in call[c].tokens :
          call' = [call EXCEPT ![c].tokens = call[c].tokens \ {t},
                         ![c].pc = IF call[c].tokens = {t} THEN "persist" ELSE call[c].pc]
    BY <1>5 DEF Unlink
  <2>2. UNCHANGED <<queue, reads>> /\ Holds(c) /\ call[c].pc = "unlink"
    BY <1>5 DEF Unlink
  <2>3. call'[c].pc \in {"persist", "unlink"} /\ \A d \in Calls \ {c} : call'[d] = call[d]
    BY <1>0, <2>1, <2>2 DEF CallType
  <2> QED
    BY <2>2, <2>3 DEF Moves, StartsReads
<1> QED
  BY <1>1, <1>2, <1>3, <1>4, <1>5

LEMMA StepMoves ==
  ASSUME Domains, NEW c \in Calls, Step(c)
  PROVE  Moves(c) /\ StartsReads(c)
<1> USE DEF InLock, Locked
<1>0. call \in [Calls -> CallType]
  BY DEF Domains
<1>1. CASE Persist(c)
  <2>1. CASE ~Ready(c)
    BY <1>0, <1>1, <2>1 DEF Persist, Continue, Ready, At, Moves, StartsReads
  <2>2. CASE Ready(c) /\ Kind[c] = "read"
    BY <1>1, <2>2, ListMoves DEF Persist, Continue, Ready
  <2>3. CASE Ready(c) /\ Kind[c] = "save"
    BY <1>0, <1>1, <2>3 DEF Persist, Continue, Ready, Leave, At, Moves, StartsReads
  <2> QED
    BY <1>1, <2>1, <2>2, <2>3 DEF Persist, Continue, Ready
<1>2. CASE Wipe(c)
  BY <1>0, <1>2 DEF Wipe, At, Moves, StartsReads
<1>3. CASE WipeOne(c)
  <2>1. /\ \E tokens : call' = [call EXCEPT ![c].tokens = tokens]
        /\ UNCHANGED <<queue, reads>> /\ Holds(c) /\ call[c].pc = "wipe"
    BY <1>3 DEF WipeOne
  <2> QED
    BY <1>0, <2>1 DEF CallType, Moves, StartsReads
<1>4. CASE Forget(c)
  BY <1>0, <1>4 DEF Forget, Goto, CallType, Moves, StartsReads
<1>5. CASE Unseed(c)
  BY <1>0, <1>5 DEF Unseed, Leave, At, Moves, StartsReads
<1> QED
  BY <1>1, <1>2, <1>3, <1>4, <1>5, LoadMoves, SummarizeMoves, SaveMoves DEF Step

-----------------------------------------------------------------------------
(* The lock's discipline is kept *)

LEMMA HoldsIsFirst ==
  ASSUME Domains, NEW c \in Calls
  PROVE  Holds(c) <=> Len(queue[ProcessOf[c]]) > 0 /\ queue[ProcessOf[c]][1] = c
<1>1. queue[ProcessOf[c]] \in Seq(Calls)
  BY Constants DEF Domains
<1> QED
  BY <1>1 DEF Holds

LEMMA QueuePops ==
  ASSUME Domains, Queues, NEW c \in Calls, Holds(c), Release(c)
  PROVE  Queues' /\ \A d \in Calls : Queued(d)' <=> (Queued(d) /\ d # c)
<1> PICK p \in Processes : p = ProcessOf[c]
  BY Constants
<1> PICK q \in Seq(Calls) : q = queue[p]
  BY DEF Domains
<1>1. queue' = [queue EXCEPT ![p] = Tail(q)]
  BY DEF Release
<1>2. q # <<>> /\ q[1] = c
  BY HoldsIsFirst DEF Holds
<1>3. queue'[p] = Tail(q) /\ \A o \in Processes \ {p} : queue'[o] = queue[o]
  BY <1>1 DEF Domains
<1>3a. /\ DOMAIN Tail(q) = 1..(Len(q) - 1) /\ DOMAIN q = 1..Len(q) /\ Len(q) \in Nat \ {0}
      /\ \A i \in 1..(Len(q) - 1) : Tail(q)[i] = q[i + 1]
  BY <1>2
<1> PICK u : u = Tail(q)
  OBVIOUS
<1>4. /\ DOMAIN u = 1..(Len(q) - 1) /\ DOMAIN q = 1..Len(q) /\ Len(q) \in Nat \ {0}
      /\ \A i \in 1..(Len(q) - 1) : u[i] = q[i + 1]
      /\ queue'[p] = u
  BY <1>3, <1>3a
<1>5. \A i, j \in DOMAIN q : ProcessOf[q[i]] = p /\ (q[i] = q[j] => i = j)
  BY DEF Queues
<1>6. \A i, j \in DOMAIN u :
        ProcessOf[u[i]] = p /\ (u[i] = u[j] => i = j)
  <2> SUFFICES ASSUME NEW i \in 1..(Len(q) - 1), NEW j \in 1..(Len(q) - 1)
               PROVE  ProcessOf[u[i]] = p /\ (u[i] = u[j] => i = j)
    BY <1>4
  <2>1. i + 1 \in DOMAIN q /\ j + 1 \in DOMAIN q
    BY <1>4
  <2> QED
    BY <1>4, <1>5, <2>1
<1>7. Queues'
  <2> SUFFICES ASSUME NEW o \in Processes, NEW i \in DOMAIN queue'[o], NEW j \in DOMAIN queue'[o]
               PROVE  /\ ProcessOf[queue'[o][i]] = o
                      /\ queue'[o][i] = queue'[o][j] => i = j
    BY DEF Queues
  <2>1. CASE o = p
    BY <1>4, <1>6, <2>1
  <2>2. CASE o # p
    <3>1. queue'[o] = queue[o]
      BY <1>3, <2>2
    <3> QED
      BY <3>1 DEF Queues
  <2> QED
    BY <2>1, <2>2
<1>8. ASSUME NEW d \in Calls, ProcessOf[d] = p
      PROVE  Queued(d)' <=> (Queued(d) /\ d # c)
  <2>1. Queued(d)' <=> \E i \in 1..(Len(q) - 1) : q[i + 1] = d
    <3>1. Queued(d)' <=> \E i \in DOMAIN queue'[p] : queue'[p][i] = d
      BY <1>8 DEF Queued
    <3>2. Queued(d)' <=> \E i \in DOMAIN u : u[i] = d
      BY <1>4, <3>1, Zenon
    <3>3. \A i : i \in DOMAIN u <=> i \in 1..(Len(q) - 1)
      BY <1>4
    <3> QED
      BY <1>4, <3>2, <3>3, Zenon
  <2>2. (\E i \in 1..(Len(q) - 1) : q[i + 1] = d) => Queued(d) /\ d # c
    <3> SUFFICES ASSUME NEW i \in 1..(Len(q) - 1), q[i + 1] = d PROVE Queued(d) /\ d # c
      OBVIOUS
    <3>1. i + 1 \in DOMAIN q /\ 1 \in DOMAIN q /\ i + 1 # 1
      BY <1>4
    <3> QED
      BY <1>2, <1>5, <1>8, <3>1 DEF Queued
  <2>3. Queued(d) /\ d # c => \E i \in 1..(Len(q) - 1) : q[i + 1] = d
    <3> SUFFICES ASSUME NEW k \in DOMAIN q, q[k] = d, d # c
                 PROVE  \E i \in 1..(Len(q) - 1) : q[i + 1] = d
      BY <1>8 DEF Queued
    <3>1. k - 1 \in 1..(Len(q) - 1) /\ (k - 1) + 1 = k
      BY <1>2, <1>4
    <3> QED
      BY <3>1
  <2> QED
    BY <2>1, <2>2, <2>3
<1>9. ASSUME NEW d \in Calls, ProcessOf[d] # p
      PROVE  Queued(d)' <=> (Queued(d) /\ d # c)
  BY <1>3, <1>9, Constants DEF Queued
<1> QED
  BY <1>7, <1>8, <1>9

LEMMA QueueGrows ==
  ASSUME Domains, Queues, NEW c \in Calls, ~Queued(c),
         queue' = [queue EXCEPT ![ProcessOf[c]] = Append(queue[ProcessOf[c]], c)]
  PROVE  /\ Queues' /\ \A d \in Calls : Queued(d)' <=> (Queued(d) \/ d = c)
         /\ \A d \in Calls : Holds(d) => Holds(d)'
<1> PICK p \in Processes : p = ProcessOf[c]
  BY Constants
<1> PICK q \in Seq(Calls) : q = queue[p]
  BY DEF Domains
<1>1. queue'[p] = Append(q, c) /\ \A o \in Processes \ {p} : queue'[o] = queue[o]
  BY DEF Domains
<1>2. /\ DOMAIN Append(q, c) = 1..(Len(q) + 1) /\ DOMAIN q = 1..Len(q) /\ Len(q) \in Nat
      /\ \A i \in 1..Len(q) : Append(q, c)[i] = q[i]
      /\ Append(q, c)[Len(q) + 1] = c
  OBVIOUS
<1>3. \A i, j \in DOMAIN q : ProcessOf[q[i]] = p /\ (q[i] = q[j] => i = j) /\ q[i] # c
  BY DEF Queues, Queued
<1>4. \A i, j \in 1..(Len(q) + 1) :
        /\ ProcessOf[Append(q, c)[i]] = p
        /\ Append(q, c)[i] = Append(q, c)[j] => i = j
  <2> PICK u : u = Append(q, c)
    OBVIOUS
  <2>1. /\ \A i \in DOMAIN q : u[i] = q[i]
        /\ u[Len(q) + 1] = c /\ c \notin {q[i] : i \in DOMAIN q}
        /\ \A i \in 1..(Len(q) + 1) : i \in DOMAIN q \/ i = Len(q) + 1
    BY <1>2, <1>3
  <2>2. ASSUME NEW i \in 1..(Len(q) + 1), NEW j \in 1..(Len(q) + 1)
        PROVE  ProcessOf[u[i]] = p /\ (u[i] = u[j] => i = j)
    BY <1>3, <2>1
  <2> QED
    BY <2>2
<1>5. Queues'
  BY <1>1, <1>2, <1>4 DEF Queues
<1>6. ASSUME NEW d \in Calls PROVE Queued(d)' <=> (Queued(d) \/ d = c)
  <2>1. CASE ProcessOf[d] = p
    <3>1. Queued(d)' <=> \E i \in 1..(Len(q) + 1) : Append(q, c)[i] = d
      BY <1>1, <1>2, <2>1 DEF Queued
    <3>2. Queued(d) <=> \E i \in 1..Len(q) : q[i] = d
      BY <1>2, <2>1 DEF Queued
    <3>3. 1..(Len(q) + 1) = 1..Len(q) \cup {Len(q) + 1}
      BY <1>2
    <3> QED
      BY <1>2, <3>1, <3>2, <3>3
  <2>2. CASE ProcessOf[d] # p
    BY <1>1, <2>2, Constants DEF Queued
  <2> QED
    BY <2>1, <2>2
<1>7. ASSUME NEW d \in Calls, Holds(d) PROVE Holds(d)'
  <2>1. CASE ProcessOf[d] = p
    <3>1. q # <<>> /\ Head(q) = d
      BY <1>7, <2>1 DEF Holds
    <3>2. Append(q, c) # <<>> /\ Head(Append(q, c)) = d
      BY <3>1
    <3> QED
      BY <1>1, <2>1, <3>2 DEF Holds
  <2>2. CASE ProcessOf[d] # p
    BY <1>1, <1>7, <2>2, Constants DEF Holds
  <2> QED
    BY <2>1, <2>2
<1> QED
  BY <1>5, <1>6, <1>7

LEMMA InitDiscipline == Init => Queues /\ Discipline
  BY Constants DEF Init, Queues, Discipline, Queued, InFlight, At, Locked

LEMMA StepDiscipline ==
  ASSUME Domains, Queues, Discipline, NEW c \in Calls, Step(c)
  PROVE  Queues' /\ Discipline'
<1>1. Moves(c) /\ StartsReads(c)
  BY StepMoves
<1>2. /\ Holds(c) /\ call[c].pc \in Locked \cup {"start"}
      /\ \A d \in Calls \ {c} : call'[d] = call[d]
  BY <1>1 DEF Moves
<1>3. \A r \in reads' : call'[r.call].pc \in {"summarize", "reading"}
  <2> SUFFICES ASSUME NEW r \in reads' PROVE call'[r.call].pc \in {"summarize", "reading"}
    OBVIOUS
  <2>1. CASE r \notin reads
    BY <1>1, <2>1 DEF StartsReads
  <2>2. CASE r \in reads
    <3>1. call[r.call].pc \in {"summarize", "reading"} /\ r.call \in Calls
      BY <2>2 DEF Discipline, Domains, ReadType
    <3>2. r.call # c
      BY <1>1, <1>2, <2>2, <3>1 DEF StartsReads, Reading, Locked
    <3> QED
      BY <1>2, <3>1, <3>2
  <2> QED
    BY <2>1, <2>2
<1>4. \A d \in Calls \ {c} : call[d].pc \in Locked => ProcessOf[d] # ProcessOf[c]
  BY <1>2 DEF Discipline, Holds
<1>5. CASE queue' = queue /\ call'[c].pc \in Locked \cup {"start"}
  <2>1. Queues' /\ \A d \in Calls : (Queued(d)' <=> Queued(d)) /\ (Holds(d)' <=> Holds(d))
    BY <1>5 DEF Queues, Queued, Holds
  <2>2. Queued(c)
    BY <1>2 DEF Discipline, InFlight, Locked
  <2> QED
    BY <1>2, <1>3, <1>5, <2>1, <2>2 DEF Discipline, InFlight, Locked
<1>6. CASE Release(c) /\ call'[c].pc \in {"reading", "done", "failed"}
  <2>1. Queues' /\ \A d \in Calls : Queued(d)' <=> (Queued(d) /\ d # c)
    BY <1>2, <1>6, QueuePops
  <2>2. \A d \in Calls : ProcessOf[d] # ProcessOf[c] => (Holds(d)' <=> Holds(d))
    BY <1>6, Constants DEF Release, Holds, Domains
  <2>3. \A d \in Calls : (InFlight(d)' /\ call'[d].pc # "reading") <=> Queued(d)'
    BY <1>2, <1>6, <2>1 DEF Discipline, InFlight
  <2>4. \A d \in Calls : call'[d].pc \in Locked => Holds(d)'
    BY <1>2, <1>4, <1>6, <2>2 DEF Discipline, Locked
  <2> QED
    BY <1>3, <2>1, <2>3, <2>4 DEF Discipline
<1> QED
  BY <1>1, <1>5, <1>6 DEF Moves

(* A read of one file moves its call at most from "reading" to "done". *)
LEMMA ReadMoves ==
  ASSUME Domains, NEW r \in reads, ReadProfile(r)
  PROVE  /\ \A d \in Calls \ {r.call} : call'[d] = call[d]
         /\ \/ call'[r.call].pc = call[r.call].pc
            \/ /\ call[r.call].pc = "reading" /\ call'[r.call].pc = "done"
               /\ \A s \in reads' : s.call # r.call
         /\ \A s \in reads' : \E o \in reads : s.call = o.call /\ s.token = o.token
         /\ queue' = queue
<1>1. r.call \in Calls /\ r.token \in Tokens /\ call \in [Calls -> CallType]
  BY DEF Domains, ReadType
<1> PICK d \in Calls, t \in Tokens : d = r.call /\ t = r.token
  BY <1>1
<1>2. queue' = queue
  BY DEF ReadProfile
<1>3. ASSUME NEW version, Answer(r, version)
      PROVE  /\ \A o \in Calls \ {d} : call'[o] = call[o]
             /\ \/ call'[d].pc = call[d].pc
                \/ /\ call[d].pc = "reading" /\ call'[d].pc = "done"
                   /\ \A s \in reads' : s.call # d
             /\ reads' \subseteq reads
  <2> DEFINE last == \A s \in reads \ {r} : s.call # d
             pc == IF call[d].pc = "reading" /\ last THEN "done" ELSE call[d].pc
  <2>1. call' = [call EXCEPT ![d].got[t] = version, ![d].pc = pc] /\ reads' = reads \ {r}
    BY <1>1, <1>3 DEF Answer, CallType
  <2>2. last <=> \A s \in reads' : s.call # d
    BY <2>1
  <2> HIDE DEF last
  <2> QED
    BY <1>1, <2>1, <2>2 DEF CallType
<1>4. CASE Missing(r) \/ Parse(r)
  BY <1>2, <1>3, <1>4 DEF Missing, Parse
<1>5. ASSUME NEW s, s.call = d, s.token = t, Advance(r, s)
      PROVE  call' = call /\ \A o \in reads' : \E u \in reads : o.call = u.call /\ o.token = u.token
  BY <1>5 DEF Advance
<1>6. CASE StatFile(r)
  <2>1. CASE \E version : Answer(r, version)
    BY <1>2, <1>3, <2>1
  <2>2. CASE Advance(r, [r EXCEPT !.at = "read", !.mtime = files[r.token]])
    BY <1>2, <1>5, <2>2 DEF Domains, ReadType
  <2> QED
    BY <1>6, <2>1, <2>2 DEF StatFile
<1>7. CASE ReadFile(r)
  BY <1>2, <1>5, <1>7 DEF ReadFile, Domains, ReadType
<1> QED
  BY <1>4, <1>6, <1>7 DEF ReadProfile

LEMMA ReadDiscipline ==
  ASSUME Domains, Queues, Discipline, NEW r \in reads, ReadProfile(r)
  PROVE  Queues' /\ Discipline'
<1>1. r.call \in Calls /\ call[r.call].pc \in {"summarize", "reading"}
  BY DEF Domains, ReadType, Discipline
<1>2. Queues' /\ \A d \in Calls : (Queued(d)' <=> Queued(d)) /\ (Holds(d)' <=> Holds(d))
  BY ReadMoves DEF Queues, Queued, Holds
<1>3. \A d \in Calls : \/ call'[d].pc = call[d].pc
                       \/ call[d].pc = "reading" /\ call'[d].pc = "done"
  BY ReadMoves
<1>4. \A s \in reads' : call'[s.call].pc \in {"summarize", "reading"}
  <2> SUFFICES ASSUME NEW s \in reads' PROVE call'[s.call].pc \in {"summarize", "reading"}
    OBVIOUS
  <2>1. s.call \in Calls /\ call[s.call].pc \in {"summarize", "reading"}
    BY ReadMoves DEF Domains, ReadType, Discipline
  <2> QED
    BY <2>1, ReadMoves
<1>5. \A d \in Calls : (InFlight(d)' /\ call'[d].pc # "reading") <=> Queued(d)'
  BY <1>2, <1>3 DEF Discipline, InFlight
<1>6. \A d \in Calls : call'[d].pc \in Locked => Holds(d)'
  BY <1>2, <1>3 DEF Discipline, Locked
<1> QED
  BY <1>2, <1>4, <1>5, <1>6 DEF Discipline

LEMMA OtherDiscipline ==
  ASSUME Domains, Queues, Discipline, \/ \E c \in Calls : Begin(c)
                                      \/ \E p \in Processes : Die(p)
                                      \/ Tick \/ UNCHANGED vars
  PROVE  Queues' /\ Discipline'
<1>1. ASSUME NEW c \in Calls, Begin(c) PROVE Queues' /\ Discipline'
  <2>1. /\ call[c].pc = "none" /\ call' = [call EXCEPT ![c].pc = "start"]
        /\ queue' = [queue EXCEPT ![ProcessOf[c]] = Append(queue[ProcessOf[c]], c)]
        /\ reads' = reads
    BY <1>1 DEF Begin, Goto
  <2>2. call'[c].pc = "start" /\ \A d \in Calls \ {c} : call'[d] = call[d]
    BY <2>1 DEF Domains, CallType
  <2>3. ~Queued(c)
    BY <2>1 DEF Discipline, InFlight
  <2>4. Queues' /\ (\A d \in Calls : Queued(d)' <=> (Queued(d) \/ d = c))
        /\ \A d \in Calls : Holds(d) => Holds(d)'
    BY <2>1, <2>3, QueueGrows
  <2>5. \A r \in reads : r.call \in Calls \ {c}
    BY <2>1 DEF Discipline, Domains, ReadType
  <2> QED
    BY <2>1, <2>2, <2>4, <2>5 DEF Discipline, InFlight, Locked
<1>2. ASSUME NEW p \in Processes, Die(p) PROVE Queues' /\ Discipline'
  <2> DEFINE lost == {c \in Calls : ProcessOf[c] = p /\ InFlight(c)}
  <2>1. /\ call' = [c \in Calls |-> IF c \in lost THEN At("dead") ELSE call[c]]
        /\ reads' = {r \in reads : r.call \notin lost}
        /\ queue' = [queue EXCEPT ![p] = <<>>]
    BY <1>2 DEF Die
  <2>2. queue'[p] = <<>> /\ \A o \in Processes \ {p} : queue'[o] = queue[o]
    BY <2>1 DEF Domains
  <2>3. Queues'
    BY <2>2 DEF Queues
  <2>4. \A d \in Calls : ProcessOf[d] # p => /\ (Queued(d)' <=> Queued(d))
                                              /\ (Holds(d)' <=> Holds(d)) /\ call'[d] = call[d]
    BY <2>1, <2>2, Constants DEF Queued, Holds
  <2>5. \A d \in Calls : ProcessOf[d] = p => /\ ~Queued(d)' /\ ~InFlight(d)'
                                              /\ call'[d].pc \notin Locked
    BY <2>1, <2>2 DEF Queued, InFlight, At, Locked
  <2>6. \A r \in reads' : r.call \in Calls \ lost /\ call'[r.call] = call[r.call] /\ r \in reads
    BY <2>1 DEF Domains, ReadType
  <2> HIDE DEF lost
  <2>7. \A d \in Calls : (InFlight(d)' /\ call'[d].pc # "reading") <=> Queued(d)'
    BY <2>4, <2>5 DEF Discipline, InFlight
  <2>8. \A d \in Calls : call'[d].pc \in Locked => Holds(d)'
    BY <2>4, <2>5 DEF Discipline
  <2> QED
    BY <2>3, <2>6, <2>7, <2>8 DEF Discipline
<1>3. CASE Tick \/ UNCHANGED vars
  <2>1. UNCHANGED <<queue, call, reads>>
    BY <1>3 DEF Tick, vars
  <2> QED
    BY <2>1 DEF Queues, Discipline, Queued, Holds, InFlight
<1> QED
  BY <1>1, <1>2, <1>3

LEMMA NextDiscipline ==
  Domains /\ Queues /\ Discipline /\ [Next]_vars => Queues' /\ Discipline'
  BY StepDiscipline, ReadDiscipline, OtherDiscipline, FileAssumption DEF Next

-----------------------------------------------------------------------------
(* The paths of a call *)

(* A step leaves the memory of other processes alone. *)
Local(c) ==
    /\ \A p \in Processes \ {ProcessOf[c]} :
         /\ index'[p] = index[p] /\ cache'[p] = cache[p]
         /\ p \in ready' <=> p \in ready
         /\ history'.own[p] = history.own[p]
    /\ ready \subseteq ready'
    /\ horizon' = horizon /\ history'.floor = history.floor

(* Only rename() adds to what the process saved. *)
SavesNothing(c) == history'.own[ProcessOf[c]] = history.own[ProcessOf[c]]

LEMMA PruneLocal ==
  ASSUME Domains, NEW p \in Processes, NEW gone, Prune(p, gone)
  PROVE  \A q \in Processes \ {p} : index'[q] = index[q] /\ cache'[q] = cache[q]
  BY DEF Prune, Domains

LEMMA LoadPlaces ==
  ASSUME Domains, Paths, NEW c \in Calls,
         Seed(c) \/ Scan(c) \/ SweepTemps(c) \/ Readdir(c) \/ Reconcile(c)
  PROVE  Local(c) /\ Place(c)' /\ SavesNothing(c)
<1> USE DEF InLock, Place, Ready, Local, SavesNothing, memory
<1>0. call \in [Calls -> CallType] /\ Place(c)
  BY DEF Domains, Paths
<1>1. CASE Seed(c)
  <2>1. \A p \in Processes \ {ProcessOf[c]} : index'[p] = index[p]
    BY <1>1 DEF Seed, Domains
  <2> QED
    BY <1>0, <1>1, <2>1 DEF Seed, Goto, CallType
<1>2. CASE Scan(c)
  BY <1>0, <1>2 DEF Scan, CallType
<1>3. CASE SweepTemps(c)
  BY <1>0, <1>3 DEF SweepTemps, CallType
<1>4. CASE Readdir(c)
  BY <1>0, <1>4 DEF Readdir, CallType
<1>5. CASE Reconcile(c)
  <2>1. \A p \in Processes \ {ProcessOf[c]} : index'[p] = index[p] /\ cache'[p] = cache[p]
    BY <1>5, PruneLocal, Constants DEF Reconcile
  <2> QED
    BY <1>0, <1>5, <2>1 DEF Reconcile, CallType
<1> QED
  BY <1>1, <1>2, <1>3, <1>4, <1>5

LEMMA SummarizePlaces ==
  ASSUME Domains, Paths, NEW c \in Calls, SummarizeRead(c) \/ SummarizeLoad(c)
  PROVE  Local(c) /\ Place(c)' /\ SavesNothing(c)
<1> USE DEF InLock, Place, Ready, Local, SavesNothing, memory
<1>0. call \in [Calls -> CallType] /\ Place(c)
  BY DEF Domains, Paths
<1>1. CASE SummarizeRead(c)
  <2>1. \A p \in Processes \ {ProcessOf[c]} : index'[p] = index[p]
    BY <1>1 DEF SummarizeRead, Domains
  <2>2. call'[c].pc \in {"persist", "done", "reading"}
    BY <1>0, <1>1 DEF SummarizeRead, List, At
  <2> QED
    BY <1>1, <2>1, <2>2 DEF SummarizeRead
<1>2. CASE SummarizeLoad(c)
  <2>1. \A p \in Processes \ {ProcessOf[c]} : index'[p] = index[p] /\ cache'[p] = cache[p]
    BY <1>2 DEF SummarizeLoad, Domains
  <2>2. \/ call'[c].pc \in {"unlink", "persist"} /\ ready' = ready
        \/ call'[c] = At("start") /\ ready' = ready \cup {ProcessOf[c]}
    BY <1>0, <1>2 DEF SummarizeLoad, At
  <2>3. /\ ProcessOf[c] \notin ready
        /\ UNCHANGED <<horizon, history>>
    BY <1>2 DEF SummarizeLoad
  <2> QED
    BY <2>1, <2>2, <2>3 DEF At
<1> QED
  BY <1>1, <1>2

LEMMA SavePlaces ==
  ASSUME Domains, Paths, NEW c \in Calls,
         Write(c) \/ Rename(c) \/ RenameFails(c) \/ Stat(c) \/ Unlink(c)
  PROVE  Local(c) /\ Place(c)' /\ (SavesNothing(c) \/ Ready(c)')
<1> USE DEF InLock, Place, Ready, Local, SavesNothing, memory
<1>0. call \in [Calls -> CallType] /\ Place(c) /\ history \in HistoryType
  BY DEF Domains, Paths
<1>1. CASE Write(c)
  BY <1>0, <1>1 DEF Write, Goto, CallType
<1>2. CASE Rename(c)
  <2>1. /\ \A p \in Processes \ {ProcessOf[c]} : index'[p] = index[p]
        /\ UNCHANGED <<cache, ready, horizon>>
    BY <1>2 DEF Rename, Domains
  <2>2. /\ \A p \in Processes \ {ProcessOf[c]} : history'.own[p] = history.own[p]
        /\ history'.floor = history.floor
    BY <1>0, <1>2 DEF Rename, HistoryType
  <2>3. Kind[c] = "save" /\ ProcessOf[c] \in ready /\ call'[c].pc = "stat"
    BY <1>0, <1>2 DEF Rename, Goto, CallType
  <2> QED
    BY <2>1, <2>2, <2>3
<1>3. CASE RenameFails(c)
  BY <1>0, <1>3 DEF RenameFails, Leave, At
<1>4. CASE Stat(c)
  <2>1. \A p \in Processes \ {ProcessOf[c]} : index'[p] = index[p] /\ cache'[p] = cache[p]
    BY <1>4 DEF Stat, Domains
  <2>2. call'[c].pc \in {"unlink", "persist"}
    BY <1>0, <1>4 DEF Stat, At
  <2>3. /\ Kind[c] = "save" /\ ProcessOf[c] \in ready
        /\ UNCHANGED <<ready, horizon, history>>
    BY <1>0, <1>4 DEF Stat
  <2> QED
    BY <2>1, <2>2, <2>3
<1>5. CASE Unlink(c)
  <2>0. UNCHANGED <<index, cache, ready, horizon>> /\ call[c].pc = "unlink"
    BY <1>5 DEF Unlink
  <2>1a. call'[c].pc \in {"unlink", "persist"}
    <3>1. \E tokens : \E pc \in {"persist", call[c].pc} :
            call' = [call EXCEPT ![c].tokens = tokens, ![c].pc = pc]
      BY <1>5 DEF Unlink
    <3> QED
      BY <1>0, <2>0, <3>1 DEF CallType
  <2>1. /\ UNCHANGED <<index, cache, ready, horizon>> /\ call[c].pc = "unlink"
        /\ call'[c].pc \in {"unlink", "persist"}
    BY <2>0, <2>1a
  <2>2. \E removed, cleared :
          history' = [history EXCEPT !.removed = removed, !.cleared = cleared]
    BY <1>5 DEF Unlink
  <2>3. history'.own = history.own /\ history'.floor = history.floor
    BY <1>0, <2>2 DEF HistoryType
  <2> QED
    BY <1>0, <2>1, <2>3
<1> QED
  BY <1>1, <1>2, <1>3, <1>4, <1>5

LEMMA StepPlaces ==
  ASSUME Domains, Paths, NEW c \in Calls, Step(c)
  PROVE  Local(c) /\ Place(c)' /\ (SavesNothing(c) \/ Ready(c)')
<1> USE DEF InLock, Place, Ready, Local, SavesNothing, memory
<1>0. call \in [Calls -> CallType] /\ Place(c) /\ history \in HistoryType
  BY DEF Domains, Paths
<1>1. CASE Persist(c)
  <2>1. UNCHANGED <<index, cache, horizon>>
    BY <1>1 DEF Persist
  <2>2. \/ history' = history
        \/ \E t, v : history' = [history EXCEPT !.saved[t] = v]
    BY <1>1 DEF Persist, Continue
  <2>3. history'.own = history.own /\ history'.floor = history.floor
    BY <1>0, <2>2 DEF HistoryType
  <2>4. ready' = ready \/ ready' = ready \cup {ProcessOf[c]}
    BY <1>1 DEF Persist, Continue
  <2>5. \E pc \in {"start", "done", "reading"} : call'[c] = At(pc)
    BY <1>0, <1>1 DEF Persist, Continue, List, Leave
  <2> QED
    BY <2>1, <2>3, <2>4, <2>5 DEF At
<1>2. CASE Wipe(c)
  BY <1>0, <1>2 DEF Wipe, At
<1>3. CASE WipeOne(c)
  <2>1. /\ UNCHANGED <<index, cache, ready, horizon>> /\ call'[c].pc = "wipe" /\ call[c].pc = "wipe"
    BY <1>0, <1>3 DEF WipeOne, CallType
  <2>2. \E removed, cleared :
          history' = [history EXCEPT !.removed = removed, !.cleared = cleared]
    BY <1>3 DEF WipeOne
  <2>3. history'.own = history.own /\ history'.floor = history.floor
    BY <1>0, <2>2 DEF HistoryType
  <2> QED
    BY <1>0, <2>1, <2>3
<1>4. CASE Forget(c)
  <2>1. \A p \in Processes \ {ProcessOf[c]} : index'[p] = index[p] /\ cache'[p] = cache[p]
    BY <1>4, PruneLocal, Constants DEF Forget
  <2> QED
    BY <1>0, <1>4, <2>1 DEF Forget, Goto, CallType
<1>5. CASE Unseed(c)
  BY <1>0, <1>5 DEF Unseed, Leave, At
<1> QED
  BY <1>1, <1>2, <1>3, <1>4, <1>5, LoadPlaces, SummarizePlaces, SavePlaces DEF Step

LEMMA NextPaths == Lock /\ [Next]_vars => Paths'
<1> SUFFICES ASSUME Lock, [Next]_vars PROVE Paths'
  OBVIOUS
<1>0. call \in [Calls -> CallType] /\ history \in HistoryType
  BY DEF Lock, Domains
<1>1. ASSUME NEW c \in Calls, Step(c) PROVE Paths'
  <2>1. Local(c) /\ Place(c)' /\ (SavesNothing(c) \/ Ready(c)') /\ Moves(c)
    BY <1>1, StepPlaces, StepMoves DEF Lock
  <2>2. ASSUME NEW d \in Calls \ {c} PROVE Place(d)'
    <3>1. call'[d] = call[d] /\ Place(d)
      BY <2>1 DEF Moves, Lock, Paths
    <3>2. CASE ProcessOf[d] = ProcessOf[c]
      <4>1. call[d].pc \notin Locked
        BY <2>1, <3>2 DEF Lock, Discipline, Holds, Moves
      <4> QED
        BY <3>1, <4>1 DEF Place, Locked
    <3>3. CASE ProcessOf[d] # ProcessOf[c]
      <4>1. Ready(d)' <=> Ready(d)
        BY <2>1, <3>3, Constants DEF Local, Ready
      <4> QED
        BY <3>1, <4>1 DEF Place
    <3> QED
      BY <3>2, <3>3
  <2>3. \A p \in Processes \ ready' : history'.own[p] = {}
    BY <2>1 DEF Local, SavesNothing, Ready, Lock, Paths
  <2> QED
    BY <2>1, <2>2, <2>3 DEF Paths
<1>2. ASSUME NEW c \in Calls, Begin(c) PROVE Paths'
  <2>1. /\ call' = [call EXCEPT ![c].pc = "start"] /\ ready' = ready
        /\ \E f : history' = [history EXCEPT !.floor[c] = f]
    BY <1>2 DEF Begin, Goto, memory
  <2>2. history'.own = history.own
    BY <1>0, <2>1 DEF HistoryType
  <2>3. call[c].pc = "none" /\ call'[c].pc = "start" /\ call'[c].got = call[c].got
        /\ \A d \in Calls \ {c} : call'[d] = call[d]
    BY <1>0, <1>2, <2>1 DEF Begin, CallType
  <2>4. \A d \in Calls : Place(d)'
    BY <2>1, <2>3 DEF Lock, Paths, Place, Ready
  <2> QED
    BY <2>1, <2>2, <2>4 DEF Lock, Paths
<1>3. ASSUME NEW r \in reads, ReadProfile(r) PROVE Paths'
  <2>1. ready' = ready /\ history' = history
    BY <1>3 DEF ReadProfile
  <2>2. \A d \in Calls :
          \/ call'[d] = call[d]
          \/ /\ call'[d].pc = call[d].pc \/ call'[d].pc = "done"
             /\ call[d].pc \in {"summarize", "reading"}
    BY <1>3, ReadMoves DEF Lock, Discipline
  <2>3. \A d \in Calls : Place(d)'
    BY <2>1, <2>2 DEF Lock, Paths, Place, Ready
  <2> QED
    BY <2>1, <2>3 DEF Lock, Paths
<1>4. ASSUME NEW p \in Processes, Die(p) PROVE Paths'
  <2>1. /\ call' = [c \in Calls |-> IF ProcessOf[c] = p /\ InFlight(c) THEN At("dead")
                                                                     ELSE call[c]]
        /\ ready' = ready \ {p} /\ history' = [history EXCEPT !.own[p] = {}]
    BY <1>4 DEF Die
  <2>2. history'.own[p] = {} /\ \A q \in Processes \ {p} : history'.own[q] = history.own[q]
    BY <1>0, <2>1 DEF HistoryType
  <2>3. ASSUME NEW d \in Calls PROVE Place(d)'
    <3>1. CASE ProcessOf[d] = p
      <4>1. \/ call'[d] = At("dead")
            \/ call'[d] = call[d] /\ call[d].pc \in {"dead", "none", "done", "failed"}
        BY <2>1, <3>1 DEF InFlight
      <4> QED
        BY <4>1 DEF Lock, Paths, Place, At
    <3>2. CASE ProcessOf[d] # p
      BY <2>1, <3>2 DEF Lock, Paths, Place, Ready
    <3> QED
      BY <3>1, <3>2
  <2> QED
    BY <2>1, <2>2, <2>3 DEF Lock, Paths
<1>5. CASE Tick \/ UNCHANGED vars
  BY <1>5 DEF Tick, vars, memory, Lock, Paths, Place, Ready
<1> QED
  BY <1>1, <1>2, <1>3, <1>4, <1>5, FileAssumption DEF Next

LEMMA InitLock == Init => Lock
  BY InitDomains, InitDiscipline DEF Init, Lock, Paths, Place, At

(* In every reachable state a process's queue holds each of its calls that is past *)
(* its start and not over, once, and only its head is at work on index and files.  *)
THEOREM LockHeld == Spec => []Lock
<1>1. Lock /\ [Next]_vars => Lock'
  BY NextDomains, NextDiscipline, NextPaths DEF Lock
<1> QED
  BY <1>1, InitLock, PTL DEF Spec

(* Whatever the processes do, every variable stays in its domain, a call is in its *)
(* process's queue exactly while it may touch the index, and no file is read for a *)
(* call that is over.                                                              *)
THEOREM TypeCorrect == Spec => []TypeOK
<1>1. Lock => TypeOK
  <2> SUFFICES ASSUME Lock PROVE TypeOK
    OBVIOUS
  <2>1. \A r \in reads : InFlight(r.call)
    BY DEF Lock, Discipline, InFlight
  <2>2. \A c \in Calls : (InFlight(c) /\ call[c].pc # "reading")
          <=> \E i \in DOMAIN queue[ProcessOf[c]] : queue[ProcessOf[c]][i] = c
    BY DEF Lock, Discipline, Queued
  <2> QED
    BY <2>1, <2>2 DEF Lock, Domains, TypeOK, Summaries
<1> QED
  BY <1>1, LockHeld, PTL

-----------------------------------------------------------------------------
(* A process's own saves *)

Savers(t) == {ProcessOf[c] : c \in {d \in Saves : TokenOf[d] = t}}
Pending(c, t) == \E r \in reads : r.call = c /\ r.token = t

(* A profile the process saved, while its file is there, is in its index as the    *)
(* file describes it, or about to be evicted; no listing of the lock's holder      *)
(* misses it, and no read of the holder is about to replace it.                    *)
ToldBy(c, t) ==
    /\ call[c].pc \in {"reconcile", "wipe"} => t \in call[c].tokens
    /\ call[c].pc = "summarize" => call[c].got[t] = 0 /\ ~Pending(c, t)
Evicts(c, t) == call[c].pc = "unlink" /\ t \in call[c].tokens

Told(p, t) ==
    /\ p \in Savers(t)
    /\ files[t] > 0 =>
        /\ index[p][t] = files[t] \/ \E c \in Calls : ProcessOf[c] = p /\ Evicts(c, t)
        /\ \A c \in Calls : ProcessOf[c] = p => ToldBy(c, t)

OwnTold == \A p \in Processes : \A t \in history.own[p] : Told(p, t)

LEMMA OneSaver ==
  ASSUME NEW c \in Saves, NEW p \in Processes, p \in Savers(TokenOf[c])
  PROVE  ProcessOf[c] = p
  BY FileAssumption DEF Savers

(* The files a step writes: only rename() brings one back. *)
LEMMA FilesShrink ==
  ASSUME Lock, NEW c \in Calls, Step(c), NEW t \in Tokens
  PROVE  \/ files'[t] = files[t] \/ files'[t] = 0
         \/ Rename(c) /\ c \in Saves /\ t = TokenOf[c]
<1> USE DEF disk, Lock, Domains, Summaries
<1>1. CASE Rename(c)
  BY <1>1 DEF Rename, InLock, Paths, Place, Saves
<1>2. CASE Unlink(c)
  BY <1>2 DEF Unlink
<1>3. CASE WipeOne(c)
  BY <1>3 DEF WipeOne
<1>4. CASE files' = files
  BY <1>4
<1>5. CASE Seed(c) \/ Scan(c) \/ SweepTemps(c) \/ Readdir(c) \/ Reconcile(c)
           \/ SummarizeRead(c) \/ SummarizeLoad(c)
  BY <1>4, <1>5 DEF Seed, Scan, SweepTemps, Readdir, Reconcile, SummarizeRead, SummarizeLoad
<1>6. CASE Write(c) \/ RenameFails(c) \/ Stat(c) \/ Persist(c) \/ Wipe(c) \/ Forget(c) \/ Unseed(c)
  BY <1>4, <1>6 DEF Write, RenameFails, Stat, Persist, Wipe, Forget, Unseed
<1> QED
  BY <1>1, <1>2, <1>3, <1>5, <1>6 DEF Step

(* While a call holds the lock, only it can evict, list or read for its process. *)
LEMMA OthersWait ==
  ASSUME Lock, NEW c \in Calls, Moves(c), NEW d \in Calls \ {c}, ProcessOf[d] = ProcessOf[c]
  PROVE  call[d].pc \notin Locked /\ call'[d] = call[d]
  BY DEF Lock, Discipline, Holds, Moves

LEMMA OwnElsewhere ==
  ASSUME Lock, OwnTold, NEW c \in Calls, Step(c), NEW p \in Processes \ {ProcessOf[c]},
         NEW t \in history'.own[p]
  PROVE  Told(p, t)'
<1>1. Moves(c) /\ StartsReads(c) /\ Local(c)
  BY StepMoves, StepPlaces DEF Lock
<1>2. t \in history.own[p] /\ index'[p] = index[p]
  BY <1>1 DEF Local
<1>3. Told(p, t) /\ t \in Tokens
  BY <1>2 DEF OwnTold, Lock, Domains, HistoryType
<1>4. files'[t] > 0 => files'[t] = files[t]
  BY <1>3, FilesShrink, OneSaver DEF Told
<1>5. \A d \in Calls : ProcessOf[d] = p => call'[d] = call[d] /\ d # c
  BY <1>1 DEF Moves
<1>6. \A d \in Calls : ProcessOf[d] = p /\ Pending(d, t)' => Pending(d, t)
  BY <1>1, <1>5 DEF Pending, StartsReads
<1> QED
  BY <1>2, <1>3, <1>4, <1>5, <1>6 DEF Told, ToldBy, Evicts, Savers

(* What has to hold of the holder of the lock after its step *)
LEMMA OwnHolder ==
  ASSUME Lock, OwnTold, NEW c \in Calls, Step(c), NEW t \in history'.own[ProcessOf[c]],
         ProcessOf[c] \in Savers(t),
         files'[t] > 0 => /\ index'[ProcessOf[c]][t] = files'[t] \/ Evicts(c, t)'
                          /\ ToldBy(c, t)'
  PROVE  Told(ProcessOf[c], t)'
<1>1. Moves(c)
  BY StepMoves DEF Lock
<1>2. \A d \in Calls \ {c} : ProcessOf[d] = ProcessOf[c] => call'[d].pc \notin Locked
  BY <1>1, OthersWait
<1>3. \A d \in Calls \ {c} : ProcessOf[d] = ProcessOf[c] => ToldBy(d, t)'
  BY <1>2 DEF ToldBy, Locked
<1> QED
  BY <1>3 DEF Told, Savers

(* What holds of it before *)
LEMMA OwnBefore ==
  ASSUME Lock, OwnTold, NEW c \in Calls, Step(c), NEW t \in history.own[ProcessOf[c]]
  PROVE  /\ ProcessOf[c] \in Savers(t) /\ t \in Tokens /\ Ready(c)
         /\ files[t] > 0 => /\ index[ProcessOf[c]][t] = files[t] \/ Evicts(c, t)
                            /\ ToldBy(c, t)
<1>1. Moves(c)
  BY StepMoves DEF Lock
<1>2. Told(ProcessOf[c], t) /\ t \in Tokens
  BY Constants DEF OwnTold, Lock, Domains, HistoryType
<1>3. \A d \in Calls \ {c} : ProcessOf[d] = ProcessOf[c] => ~Evicts(d, t)
  BY <1>1, OthersWait DEF Evicts, Locked
<1>4. Ready(c)
  BY Constants DEF Lock, Paths, Ready
<1> QED
  BY <1>2, <1>3, <1>4 DEF Told

(* A listing, and what it makes of the index *)
LEMMA OwnListed ==
  ASSUME Lock, OwnTold, NEW c \in Calls, Step(c), NEW t \in history.own[ProcessOf[c]],
         Readdir(c) \/ Reconcile(c) \/ SummarizeRead(c), files'[t] > 0
  PROVE  /\ index'[ProcessOf[c]][t] = files'[t] \/ Evicts(c, t)'
         /\ ToldBy(c, t)'
<1> USE DEF InLock, disk, memory
<1>0. /\ call \in [Calls -> CallType] /\ index \in [Processes -> Summaries]
      /\ files \in Summaries /\ Versions \subseteq Nat
  BY Constants DEF Lock, Domains
<1> PICK p \in Processes : p = ProcessOf[c]
  BY Constants
<1>1. files' = files /\ t \in Tokens
  BY OwnBefore DEF Readdir, Reconcile, SummarizeRead
<1>2. /\ index[p][t] = files[t] \/ Evicts(c, t)
      /\ ToldBy(c, t)
  BY <1>1, OwnBefore
<1>3. call[c].pc \in {"start", "reconcile", "summarize"} /\ index[p][t] = files[t]
  BY <1>2 DEF Readdir, Reconcile, SummarizeRead, Evicts
<1>4. CASE Readdir(c)
  <2>1. call'[c].pc = "reconcile" /\ call'[c].tokens = OnDisk /\ index' = index
    BY <1>0, <1>4 DEF Readdir, CallType
  <2> QED
    BY <1>1, <1>3, <2>1 DEF ToldBy, OnDisk
<1>5. CASE Reconcile(c)
  <2>1. t \in call[c].tokens /\ t \in Indexed(p) /\ call[c].pc = "reconcile"
    BY <1>0, <1>1, <1>2, <1>3, <1>5 DEF Reconcile, ToldBy, Indexed
  <2>2. index'[p][t] = index[p][t]
    BY <1>0, <1>1, <1>5, <2>1 DEF Reconcile, Prune
  <2>3. call'[c].pc = "summarize" /\ call'[c].got = call[c].got
    BY <1>0, <1>5 DEF Reconcile, CallType
  <2>4. call[c].got[t] = 0
    BY <1>1, <2>1 DEF Lock, Paths, Place, Nothing
  <2>5. ~Pending(c, t)'
    <3>1. \A r \in reads : r.call # c
      BY <2>1 DEF Lock, Discipline
    <3>2. \A r \in reads' : r \in reads \/ (r.token \in call[c].tokens \ Indexed(p))
      BY <1>5 DEF Reconcile, ReadAll
    <3> QED
      BY <2>1, <3>1, <3>2 DEF Pending
  <2> QED
    BY <1>1, <1>3, <2>2, <2>3, <2>4, <2>5 DEF ToldBy
<1>6. CASE SummarizeRead(c)
  <2>1. t \notin Found(c)
    BY <1>2, <1>6 DEF SummarizeRead, ToldBy, Found
  <2>2. index'[p] = Extended(c)
    BY <1>0, <1>6 DEF SummarizeRead
  <2>3. index'[p][t] = index[p][t]
    BY <1>1, <2>1, <2>2 DEF Extended
  <2>4. call'[c].pc \in {"persist", "done", "reading"}
    BY <1>0, <1>6 DEF SummarizeRead, List, At
  <2> QED
    BY <1>1, <1>3, <2>3, <2>4 DEF ToldBy
<1> QED
  BY <1>4, <1>5, <1>6

(* A save, and its eviction *)
LEMMA OwnSaved ==
  ASSUME Lock, OwnTold, NEW c \in Calls, Step(c), NEW t \in history.own[ProcessOf[c]],
         Write(c) \/ (Rename(c) /\ t # TokenOf[c]) \/ RenameFails(c) \/ Stat(c) \/ Unlink(c),
         files'[t] > 0
  PROVE  /\ index'[ProcessOf[c]][t] = files'[t] \/ Evicts(c, t)'
         /\ ToldBy(c, t)'
<1> USE DEF InLock, disk, memory
<1>0. /\ call \in [Calls -> CallType] /\ index \in [Processes -> Summaries]
      /\ files \in Summaries
  BY DEF Lock, Domains
<1> PICK p \in Processes : p = ProcessOf[c]
  BY Constants
<1>1. t \in Tokens
  BY OwnBefore
<1>2. files'[t] = files[t]
  <2>1. Rename(c) => t # TokenOf[c]
    BY DEF Rename, Write, RenameFails, Stat, Unlink
  <2> QED
    BY <1>1, <2>1, FilesShrink
<1>3. /\ index[p][t] = files[t] \/ Evicts(c, t)
      /\ ToldBy(c, t)
  BY <1>2, OwnBefore
<1>4. CASE Write(c)
  BY <1>0, <1>2, <1>3, <1>4 DEF Write, Goto, CallType, ToldBy, Evicts
<1>5. CASE Rename(c) /\ t # TokenOf[c]
  <2>1. index'[p][t] = index[p][t] /\ call'[c].pc = "stat" /\ call[c].pc = "rename"
    BY <1>0, <1>1, <1>5 DEF Rename, Goto, CallType
  <2> QED
    BY <1>2, <1>3, <2>1 DEF ToldBy, Evicts
<1>6. CASE RenameFails(c)
  BY <1>0, <1>2, <1>3, <1>6 DEF RenameFails, Leave, At, ToldBy, Evicts
<1>7. CASE Stat(c)
  <2> DEFINE victims == Victims(Indexed(p))
  <2>1. index[p][t] = files[t]
    BY <1>3, <1>7 DEF Stat, Evicts
  <2>2. index'[p][t] = IF t \in victims THEN 0 ELSE index[p][t]
    BY <1>0, <1>1, <1>7 DEF Stat
  <2>3. call'[c] = IF victims = {} THEN At("persist") ELSE [At("unlink") EXCEPT !.tokens = victims]
    BY <1>0, <1>7 DEF Stat
  <2> HIDE DEF victims
  <2>4. call'[c].pc = (IF victims = {} THEN "persist" ELSE "unlink")
        /\ (victims # {} => call'[c].tokens = victims)
    BY <2>3 DEF At
  <2> QED
    BY <1>2, <2>1, <2>2, <2>4 DEF ToldBy, Evicts
<1>8. CASE Unlink(c)
  <2>1. PICK u \in call[c].tokens :
          /\ files' = [files EXCEPT ![u] = 0]
          /\ call' = [call EXCEPT ![c].tokens = call[c].tokens \ {u},
                         ![c].pc = IF call[c].tokens = {u} THEN "persist" ELSE call[c].pc]
          /\ index' = index /\ call[c].pc = "unlink"
    BY <1>8 DEF Unlink
  <2>2. t # u
    BY <1>0, <1>1, <2>1 DEF Summaries
  <2>3. /\ call'[c].tokens = call[c].tokens \ {u}
        /\ call'[c].pc = IF call[c].tokens = {u} THEN "persist" ELSE "unlink"
    BY <1>0, <2>1 DEF CallType
  <2>4. ToldBy(c, t)'
    BY <2>3 DEF ToldBy
  <2>5. Evicts(c, t) => Evicts(c, t)'
    BY <2>2, <2>3 DEF Evicts
  <2> QED
    BY <1>2, <1>3, <2>1, <2>4, <2>5
<1> QED
  BY <1>4, <1>5, <1>6, <1>7, <1>8

(* The index is written, or cleared *)
LEMMA OwnCleared ==
  ASSUME Lock, OwnTold, NEW c \in Calls, Step(c), NEW t \in history.own[ProcessOf[c]],
         Persist(c) \/ Wipe(c) \/ WipeOne(c) \/ Forget(c) \/ Unseed(c), files'[t] > 0
  PROVE  /\ index'[ProcessOf[c]][t] = files'[t] \/ Evicts(c, t)'
         /\ ToldBy(c, t)'
<1> USE DEF InLock, disk, memory
<1>0. /\ call \in [Calls -> CallType] /\ index \in [Processes -> Summaries]
      /\ files \in Summaries
  BY DEF Lock, Domains
<1> PICK p \in Processes : p = ProcessOf[c]
  BY Constants
<1>1. t \in Tokens
  BY OwnBefore
<1>2. files'[t] = files[t]
  <2>1. ~Rename(c)
    BY DEF Rename, Persist, Wipe, WipeOne, Forget, Unseed
  <2> QED
    BY <1>1, <2>1, FilesShrink
<1>3. index[p][t] = files[t] /\ ToldBy(c, t)
  BY <1>2, OwnBefore DEF Evicts, Persist, Wipe, WipeOne, Forget, Unseed
<1>4. CASE Persist(c)
  <2>1. call'[c].pc \in {"start", "done", "reading"} /\ index' = index
    BY <1>0, <1>4 DEF Persist, Continue, List, Leave, At
  <2> QED
    BY <1>2, <1>3, <2>1 DEF ToldBy
<1>5. CASE Wipe(c)
  <2>1. call'[c] = [At("wipe") EXCEPT !.tokens = Indexed(p)] /\ index' = index
    BY <1>0, <1>5 DEF Wipe
  <2>2. call'[c].pc = "wipe" /\ call'[c].tokens = Indexed(p)
    BY <2>1 DEF At
  <2> QED
    BY <1>1, <1>2, <1>3, <2>1, <2>2 DEF ToldBy, Indexed
<1>6. CASE WipeOne(c)
  <2>1. PICK u \in call[c].tokens :
          /\ files' = [files EXCEPT ![u] = 0]
          /\ call' = [call EXCEPT ![c].tokens = call[c].tokens \ {u}]
          /\ index' = index /\ call[c].pc = "wipe"
    BY <1>6 DEF WipeOne
  <2>2. t # u
    BY <1>0, <1>1, <2>1 DEF Summaries
  <2>3. call'[c].tokens = call[c].tokens \ {u} /\ call'[c].pc = "wipe"
    BY <1>0, <2>1 DEF CallType
  <2> QED
    BY <1>2, <1>3, <2>1, <2>2, <2>3 DEF ToldBy
<1>7. CASE Forget(c)
  BY <1>3, <1>7 DEF Forget, ToldBy
<1>8. CASE Unseed(c)
  BY <1>0, <1>2, <1>3, <1>8 DEF Unseed, Leave, At, ToldBy
<1> QED
  BY <1>4, <1>5, <1>6, <1>7, <1>8

LEMMA StepOwn ==
  ASSUME Lock, Lock', OwnTold, NEW c \in Calls, Step(c)
  PROVE  OwnTold'
<1> SUFFICES ASSUME NEW p \in Processes, NEW t \in history'.own[p] PROVE Told(p, t)'
  BY DEF OwnTold
<1>0. history \in HistoryType
  BY DEF Lock, Domains
<1>1. CASE p # ProcessOf[c]
  BY <1>1, OwnElsewhere
<1>2. CASE p = ProcessOf[c] /\ t \notin history.own[p]
  <2>1. CASE Rename(c)
    <3>1. c \in Saves /\ history'.own[p] = history.own[p] \cup {TokenOf[c]}
      BY <1>0, <1>2, <2>1 DEF Rename, InLock, Lock, Paths, Place, Saves, HistoryType
    <3>2. t = TokenOf[c] /\ t \in Tokens /\ p \in Savers(t)
      BY <1>2, <3>1, Constants DEF Savers
    <3>3. index'[p][t] = files'[t]
      BY <1>2, <2>1, <3>2 DEF Rename, Lock, Domains, Summaries
    <3>4. call'[c].pc = "stat"
      BY <2>1 DEF Rename, Goto, Lock, Domains, CallType
    <3> QED
      BY <1>2, <3>2, <3>3, <3>4, OwnHolder DEF ToldBy
  <2>2. CASE SavesNothing(c)
    BY <1>2, <2>2 DEF SavesNothing
  <2>3. Rename(c) \/ SavesNothing(c)
    <3>1. CASE Seed(c) \/ Scan(c) \/ SweepTemps(c) \/ Readdir(c) \/ Reconcile(c)
               \/ SummarizeRead(c) \/ SummarizeLoad(c)
      BY <3>1, LoadPlaces, SummarizePlaces DEF Lock
    <3>2. CASE Write(c) \/ RenameFails(c) \/ Stat(c) \/ Wipe(c) \/ Forget(c) \/ Unseed(c)
      BY <3>2 DEF Write, RenameFails, Stat, Wipe, Forget, Unseed, SavesNothing
    <3>3. CASE Persist(c) \/ Unlink(c) \/ WipeOne(c)
      <4>1. \E a, b, u : \/ history' = history
                         \/ history' = [history EXCEPT !.saved[u] = a]
                         \/ history' = [history EXCEPT !.removed = a, !.cleared = b]
        BY <3>3 DEF Persist, Continue, Unlink, WipeOne
      <4> QED
        BY <1>0, <4>1 DEF HistoryType, SavesNothing
    <3> QED
      BY <3>1, <3>2, <3>3 DEF Step
  <2> QED
    BY <2>1, <2>2, <2>3
<1>3. CASE p = ProcessOf[c] /\ t \in history.own[p]
  <2>1. p \in Savers(t) /\ Ready(c)
    BY <1>3, OwnBefore
  <2>2. CASE Seed(c) \/ Scan(c) \/ SweepTemps(c) \/ SummarizeLoad(c)
    BY <2>1, <2>2 DEF Seed, Scan, SweepTemps, SummarizeLoad, InLock, Ready, Lock, Paths, Place
  <2>3. CASE Readdir(c) \/ Reconcile(c) \/ SummarizeRead(c)
    BY <1>3, <2>1, <2>3, OwnListed, OwnHolder
  <2>4. CASE Write(c) \/ (Rename(c) /\ t # TokenOf[c]) \/ RenameFails(c) \/ Stat(c) \/ Unlink(c)
    BY <1>3, <2>1, <2>4, OwnSaved, OwnHolder
  <2>5. CASE Rename(c) /\ t = TokenOf[c]
    <3>1. index'[p][t] = files'[t]
      BY <1>3, <2>5, OwnBefore DEF Rename, Lock, Domains, Summaries
    <3>2. call'[c].pc = "stat"
      BY <2>5 DEF Rename, Goto, Lock, Domains, CallType
    <3> QED
      BY <1>3, <2>1, <3>1, <3>2, OwnHolder DEF ToldBy
  <2>6. CASE Persist(c) \/ Wipe(c) \/ WipeOne(c) \/ Forget(c) \/ Unseed(c)
    BY <1>3, <2>1, <2>6, OwnCleared, OwnHolder
  <2> QED
    BY <2>2, <2>3, <2>4, <2>5, <2>6 DEF Step
<1> QED
  BY <1>1, <1>2, <1>3

LEMMA NextOwn == Lock /\ Lock' /\ OwnTold /\ [Next]_vars => OwnTold'
<1> SUFFICES ASSUME Lock, Lock', OwnTold, [Next]_vars PROVE OwnTold'
  OBVIOUS
<1>0. history \in HistoryType /\ call \in [Calls -> CallType]
  BY DEF Lock, Domains
<1>1. ASSUME NEW p \in Processes, NEW t \in history.own[p],
             files'[t] = files[t], index'[p] = index[p],
             \A c \in Calls : ProcessOf[c] = p =>
               /\ Evicts(c, t) => Evicts(c, t)'
               /\ files[t] > 0 /\ ToldBy(c, t) => ToldBy(c, t)'
      PROVE  Told(p, t)'
  BY <1>1 DEF OwnTold, Told, Savers
<1>2. ASSUME NEW c \in Calls, Begin(c) PROVE OwnTold'
  <2>1. /\ call[c].pc = "none" /\ call'[c].pc = "start"
        /\ \A d \in Calls \ {c} : call'[d] = call[d]
        /\ UNCHANGED <<files, index, reads>>
    BY <1>0, <1>2 DEF Begin, Goto, CallType, disk, memory
  <2>2. history'.own = history.own
    <3>1. \E f : history' = [history EXCEPT !.floor[c] = f]
      BY <1>2 DEF Begin
    <3> QED
      BY <1>0, <3>1 DEF HistoryType
  <2>3. \A t, d : d \in Calls => /\ Evicts(d, t) => Evicts(d, t)'
                                 /\ ToldBy(d, t) => ToldBy(d, t)'
    BY <2>1 DEF Evicts, ToldBy, Pending
  <2> QED
    BY <1>1, <2>1, <2>2, <2>3 DEF OwnTold
<1>3. ASSUME NEW r \in reads, ReadProfile(r) PROVE OwnTold'
  <2>1. UNCHANGED <<files, index, history>>
    BY <1>3 DEF ReadProfile, disk
  <2> SUFFICES ASSUME NEW p \in Processes, NEW t \in history.own[p] PROVE Told(p, t)'
    BY <2>1 DEF OwnTold
  <2>2. ASSUME NEW d \in Calls, ProcessOf[d] = p, Evicts(d, t) PROVE Evicts(d, t)'
    <3>1. d # r.call
      BY <2>2 DEF Lock, Discipline, Evicts
    <3> QED
      BY <1>3, <2>2, <3>1, ReadMoves DEF Lock, Evicts
  <2>3. ASSUME NEW d \in Calls, ProcessOf[d] = p, ToldBy(d, t) PROVE ToldBy(d, t)'
    <3>1. Pending(d, t)' => Pending(d, t)
      BY <1>3, ReadMoves DEF Lock, Pending
    <3>2. CASE d # r.call
      BY <1>3, <2>3, <3>1, <3>2, ReadMoves DEF Lock, ToldBy
    <3>3. CASE d = r.call /\ call[d].pc # "summarize"
      <4>1. call'[d].pc \in {"reading", "done"}
        BY <1>3, <3>3, ReadMoves DEF Lock, Discipline
      <4> QED
        BY <4>1 DEF ToldBy
    <3>4. CASE d = r.call /\ call[d].pc = "summarize"
      <4>1. r.token # t /\ call[d].got[t] = 0 /\ r.token \in Tokens
        BY <2>3, <3>4 DEF ToldBy, Pending, Lock, Domains, ReadType
      <4>2. call'[d].pc = "summarize"
        BY <1>3, <3>4, ReadMoves DEF Lock
      <4>3. call'[d].got[t] = call[d].got[t]
        <5>1. call' = call \/ \E v : Answer(r, v)
          BY <1>3 DEF ReadProfile, Missing, StatFile, ReadFile, Parse, Advance
        <5>2. ASSUME NEW v, Answer(r, v) PROVE call'[d].got[t] = call[d].got[t]
          BY <1>0, <3>4, <4>1, <5>2 DEF Answer, CallType, Summaries
        <5> QED
          BY <5>1, <5>2
      <4> QED
        BY <3>1, <2>3, <3>4, <4>1, <4>2, <4>3 DEF ToldBy
    <3> QED
      BY <3>2, <3>3, <3>4
  <2> QED
    BY <1>1, <2>1, <2>2, <2>3
<1>4. ASSUME NEW q \in Processes, Die(q) PROVE OwnTold'
  <2>1. /\ call' = [c \in Calls |-> IF ProcessOf[c] = q /\ InFlight(c) THEN At("dead")
                                                                     ELSE call[c]]
        /\ reads' \subseteq reads /\ files' = files
        /\ history' = [history EXCEPT !.own[q] = {}]
        /\ \A p \in Processes \ {q} : index'[p] = index[p]
    BY <1>4, PruneLocal DEF Die, disk, Lock
  <2>2. history'.own[q] = {} /\ \A p \in Processes \ {q} : history'.own[p] = history.own[p]
    BY <1>0, <2>1 DEF HistoryType
  <2>3. \A d \in Calls : ProcessOf[d] # q => call'[d] = call[d]
    BY <2>1
  <2>4. \A t, d : d \in Calls /\ ProcessOf[d] # q => /\ Evicts(d, t) => Evicts(d, t)'
                                                     /\ ToldBy(d, t) => ToldBy(d, t)'
    BY <2>1, <2>3 DEF Evicts, ToldBy, Pending
  <2> QED
    BY <1>1, <2>1, <2>2, <2>4 DEF OwnTold
<1>5. CASE Tick \/ UNCHANGED vars
  <2>1. UNCHANGED <<files, index, call, reads, history>>
    BY <1>5 DEF Tick, vars, disk, memory
  <2>2. \A t, d : d \in Calls => /\ Evicts(d, t) => Evicts(d, t)'
                                 /\ ToldBy(d, t) => ToldBy(d, t)'
    BY <2>1 DEF Evicts, ToldBy, Pending
  <2> QED
    BY <1>1, <2>1, <2>2 DEF OwnTold
<1> QED
  BY <1>2, <1>3, <1>4, <1>5, StepOwn, FileAssumption DEF Next

(* Between two calls a process's index describes each profile it saved since it    *)
(* started as its file does: the listings, reads, saves, evictions and deaths of   *)
(* any number of processes never make it forget or mistake one.                    *)
THEOREM OwnIndexed == Spec => []OwnSavesIndexed
<1>1. Init => OwnTold
  BY DEF Init, OwnTold
<1>2. Lock /\ OwnTold => OwnSavesIndexed
  <2> SUFFICES ASSUME Lock, OwnTold, NEW p \in Processes, Idle(p), NEW t \in history.own[p],
                      files[t] > 0
               PROVE  index[p][t] = files[t]
    BY DEF OwnSavesIndexed
  <2>1. \A c \in Calls : ProcessOf[c] = p => call[c].pc # "unlink"
    BY DEF Lock, Discipline, Holds, Idle, Locked
  <2> QED
    BY <2>1 DEF OwnTold, Told, Evicts
<1> QED
  BY <1>1, <1>2, LockHeld, NextOwn, PTL DEF Spec

-----------------------------------------------------------------------------
(* What is removed *)

(* Nothing is known of a profile that never reached the directory. *)
Known ==
    /\ \A t \in Tokens \ history.written :
         /\ files[t] = 0 /\ sidecar[t] = 0 /\ history.saved[t] = 0
         /\ \A p \in Processes : index[p][t] = 0
         /\ \A c \in Calls : call[c].got[t] = 0
         /\ \A r \in reads : r.token = t => r.at # "parse"
    /\ IsFiniteSet(history.written)

(* The save is past its rename(). *)
Renamed(c) ==
    c \in Saves /\ (call[c].pc = "stat" \/ (call[c].pc \in {"unlink", "persist"} /\ Ready(c)))

Over(t) == MaxProfiles > 0 /\ Cardinality({u \in history.written : u > t}) >= MaxProfiles

Evictions ==
    /\ \A t \in history.written : files[t] = 0 => t \in history.cleared \/ Over(t)
    /\ \A c \in Calls : call[c].pc = "unlink" =>
         \A t \in call[c].tokens : t \in Expired \/ Over(t)
    /\ \A c \in Calls : Renamed(c) => TokenOf[c] \in history.written

(* What a step records: a rename, a removal, the return of a save, or nothing. *)
Records(c) == UNCHANGED <<history, files>>
RecordsRename(c) ==
    /\ Rename(c) /\ c \in Saves
    /\ files' = [files EXCEPT ![TokenOf[c]] = VersionOf[c]]
    /\ history'.written = history.written \cup {TokenOf[c]}
    /\ UNCHANGED <<history.removed, history.cleared, history.saved, history.floor>>
RecordsRemoval(c, t) ==
    /\ t \in call[c].tokens /\ (Unlink(c) \/ WipeOne(c))
    /\ files' = [files EXCEPT ![t] = 0]
    /\ history'.removed = history.removed \cup {t}
    /\ history.cleared \subseteq history'.cleared
    /\ WipeOne(c) \/ t \in Expired => t \in history'.cleared
    /\ UNCHANGED <<history.written, history.saved, history.floor>>
    /\ call'[c].tokens = call[c].tokens \ {t}
RecordsSave(c) ==
    /\ Persist(c) /\ Renamed(c) /\ files' = files /\ call'[c].pc = "done"
    /\ history'.saved = [history.saved EXCEPT ![TokenOf[c]] = VersionOf[c]]
    /\ UNCHANGED <<history.written, history.removed, history.cleared, history.floor>>

LEMMA StepRecords ==
  ASSUME Lock, NEW c \in Calls, Step(c)
  PROVE  \/ Records(c) \/ RecordsRename(c) \/ RecordsSave(c)
         \/ \E t \in Tokens : RecordsRemoval(c, t)
<1> USE DEF InLock, disk
<1>0. call \in [Calls -> CallType] /\ history \in HistoryType
  BY DEF Lock, Domains
<1>1. CASE Seed(c) \/ Scan(c) \/ SweepTemps(c) \/ Readdir(c) \/ Reconcile(c)
           \/ SummarizeRead(c) \/ SummarizeLoad(c)
  BY <1>1 DEF Seed, Scan, SweepTemps, Readdir, Reconcile, SummarizeRead, SummarizeLoad, Records
<1>2. CASE Write(c) \/ RenameFails(c) \/ Stat(c) \/ Wipe(c) \/ Forget(c) \/ Unseed(c)
  BY <1>2 DEF Write, RenameFails, Stat, Wipe, Forget, Unseed, Records
<1>3. CASE Rename(c)
  <2>1. c \in Saves /\ files' = [files EXCEPT ![TokenOf[c]] = VersionOf[c]]
    BY <1>3 DEF Rename, Lock, Paths, Place, Saves
  <2>2. /\ history'.written = history.written \cup {TokenOf[c]}
        /\ UNCHANGED <<history.removed, history.cleared, history.saved, history.floor>>
    BY <1>0, <1>3 DEF Rename, HistoryType
  <2> QED
    BY <1>3, <2>1, <2>2 DEF RecordsRename
<1>4. CASE Unlink(c)
  <2>1. PICK t \in call[c].tokens :
          /\ files' = [files EXCEPT ![t] = 0]
          /\ history' = [history EXCEPT
                            !.removed = history.removed \cup {t},
                            !.cleared = IF t \in Expired THEN history.cleared \cup {t}
                                                         ELSE history.cleared]
          /\ call' = [call EXCEPT ![c].tokens = call[c].tokens \ {t},
                         ![c].pc = IF call[c].tokens = {t} THEN "persist" ELSE call[c].pc]
    BY <1>4 DEF Unlink
  <2>2. /\ history'.removed = history.removed \cup {t}
        /\ history'.cleared = IF t \in Expired THEN history.cleared \cup {t} ELSE history.cleared
        /\ UNCHANGED <<history.written, history.saved, history.floor>>
    BY <1>0, <2>1 DEF HistoryType
  <2>3. t \in Tokens /\ call'[c].tokens = call[c].tokens \ {t} /\ call[c].pc = "unlink"
    BY <1>0, <1>4, <2>1 DEF CallType, Unlink
  <2>4. ~WipeOne(c)
    BY <2>3 DEF WipeOne
  <2>5. history.cleared \subseteq history'.cleared /\ (t \in Expired => t \in history'.cleared)
    BY <2>2
  <2>6. RecordsRemoval(c, t)
    BY <1>4, <2>1, <2>2, <2>3, <2>4, <2>5 DEF RecordsRemoval
  <2> QED
    BY <2>3, <2>6
<1>5. CASE WipeOne(c)
  <2>1. PICK t \in call[c].tokens :
          /\ files' = [files EXCEPT ![t] = 0]
          /\ history' = [history EXCEPT !.removed = history.removed \cup {t},
                                        !.cleared = history.cleared \cup {t}]
          /\ call' = [call EXCEPT ![c].tokens = call[c].tokens \ {t}]
    BY <1>5 DEF WipeOne
  <2>2. /\ history'.removed = history.removed \cup {t}
        /\ history'.cleared = history.cleared \cup {t}
        /\ UNCHANGED <<history.written, history.saved, history.floor>>
    BY <1>0, <2>1 DEF HistoryType
  <2>3. t \in Tokens /\ call'[c].tokens = call[c].tokens \ {t}
    BY <1>0, <2>1 DEF CallType
  <2> QED
    BY <1>5, <2>1, <2>2, <2>3 DEF RecordsRemoval
<1>6. CASE Persist(c)
  <2>1. CASE history' = history
    BY <1>6, <2>1 DEF Persist, Records
  <2>2. CASE history' # history
    <3>1. /\ Ready(c) /\ Kind[c] = "save" /\ Leave(c, "done")
          /\ history' = [history EXCEPT !.saved[TokenOf[c]] = VersionOf[c]]
      BY <1>6, <2>2 DEF Persist, Continue, Ready
    <3>2. /\ history'.saved = [history.saved EXCEPT ![TokenOf[c]] = VersionOf[c]]
          /\ UNCHANGED <<history.written, history.removed, history.cleared, history.floor>>
      BY <1>0, <3>1 DEF HistoryType
    <3>3. call'[c].pc = "done"
      BY <1>0, <3>1 DEF Leave, At
    <3> QED
      BY <1>6, <3>1, <3>2, <3>3 DEF Persist, RecordsSave, Renamed, Saves
  <2> QED
    BY <2>1, <2>2
<1> QED
  BY <1>1, <1>2, <1>3, <1>4, <1>5, <1>6 DEF Step

(* A save is past its rename() only after it. *)
LEMMA RenamedFrom ==
  ASSUME Lock, NEW c \in Calls, Step(c), NEW d \in Calls, Renamed(d)'
  PROVE  Renamed(d) \/ (d = c /\ Rename(c))
<1> USE DEF InLock
<1>0. call \in [Calls -> CallType] /\ Moves(c) /\ Local(c)
  BY StepMoves, StepPlaces DEF Lock, Domains
<1>1. CASE d # c
  <2>1. call'[d] = call[d]
    BY <1>0, <1>1 DEF Moves
  <2>2. ProcessOf[d] # ProcessOf[c] => (Ready(d)' <=> Ready(d))
    BY <1>0, Constants DEF Local, Ready
  <2>3. ProcessOf[d] = ProcessOf[c] => call[d].pc \notin Locked
    BY <1>0, <1>1, OthersWait
  <2> QED
    BY <2>1, <2>2, <2>3 DEF Renamed, Locked
<1>2. CASE d = c
  <2>0. Kind[c] = "save" /\ c \in Saves
    BY <1>2 DEF Renamed, Saves
  <2>1. CASE Seed(c) \/ Scan(c) \/ SweepTemps(c) \/ Readdir(c) \/ Reconcile(c)
    <3>1. call'[c].pc \in {"scan", "sweep", "reconcile", "summarize"}
      BY <1>0, <2>1 DEF Seed, Goto, Scan, SweepTemps, Readdir, Reconcile, CallType
    <3> QED
      BY <1>2, <3>1 DEF Renamed
  <2>2. CASE SummarizeRead(c)
    BY <2>0, <2>2 DEF SummarizeRead, Lock, Paths, Place, Ready
  <2>3. CASE SummarizeLoad(c)
    <3>1. ready' = ready \/ call'[c] = At("start")
      BY <1>0, <2>3 DEF SummarizeLoad
    <3> QED
      BY <1>2, <2>3, <3>1 DEF SummarizeLoad, Renamed, Ready, At
  <2>4. CASE Write(c) \/ RenameFails(c)
    <3>1. call'[c].pc \in {"rename", "failed"}
      BY <1>0, <2>4 DEF Write, RenameFails, Goto, Leave, At, CallType
    <3> QED
      BY <1>2, <3>1 DEF Renamed
  <2>5. CASE Stat(c)
    BY <2>0, <1>2, <2>5 DEF Stat, Renamed
  <2>6. CASE Unlink(c)
    <3>1. call[c].pc = "unlink" /\ ready' = ready
      BY <2>6 DEF Unlink, memory
    <3>2. Ready(c)' => Ready(c)
      BY <3>1 DEF Ready
    <3>3. call'[c].pc \in {"unlink", "persist"}
      BY <1>0, <2>6 DEF Unlink, CallType
    <3> QED
      BY <1>2, <2>0, <3>1, <3>2, <3>3 DEF Renamed
  <2>7. CASE Persist(c)
    <3>1. call'[c].pc \in {"start", "done", "reading"}
      BY <1>0, <2>7 DEF Persist, Continue, List, Leave, At
    <3> QED
      BY <1>2, <3>1 DEF Renamed
  <2>8. CASE Wipe(c) \/ WipeOne(c) \/ Forget(c) \/ Unseed(c)
    BY <2>0, <2>8 DEF Wipe, WipeOne, Forget, Unseed, Lock, Paths, Place
  <2> QED
    BY <1>2, <2>1, <2>2, <2>3, <2>4, <2>5, <2>6, <2>7, <2>8 DEF Step
<1> QED
  BY <1>1, <1>2

LEMMA Grows ==
  ASSUME Lock, NEW c \in Calls, Step(c)
  PROVE  /\ history.written \subseteq history'.written
         /\ history.removed \subseteq history'.removed
         /\ history.cleared \subseteq history'.cleared
         /\ \E t : history'.written \subseteq history.written \cup {t}
<1>1. CASE Records(c)
  BY <1>1 DEF Records
<1>2. CASE RecordsRename(c)
  BY <1>2 DEF RecordsRename
<1>3. CASE RecordsSave(c)
  BY <1>3 DEF RecordsSave
<1>4. ASSUME NEW t \in Tokens, RecordsRemoval(c, t)
      PROVE  /\ history.written = history'.written
             /\ history.removed \subseteq history'.removed
             /\ history.cleared \subseteq history'.cleared
  BY <1>4 DEF RecordsRemoval
<1> QED
  BY <1>1, <1>2, <1>3, <1>4, StepRecords

(* Where a summary comes from: the index, the sidecar, a file, or the save itself. *)
LEMMA IndexFrom ==
  ASSUME Lock, NEW c \in Calls, Step(c), NEW t \in Tokens
  PROVE  LET p == ProcessOf[c] IN
         \/ index'[p][t] \in {0, index[p][t], call[c].got[t]}
         \/ index'[p][t] = sidecar[t]
         \/ Rename(c) /\ t = TokenOf[c]
<1> USE DEF memory
<1> PICK p \in Processes : p = ProcessOf[c]
  BY Constants
<1>0. index \in [Processes -> Summaries] /\ Extended(c) \in Summaries
  BY ExtendedType DEF Lock, Domains
<1>1. Extended(c)[t] \in {index[p][t], call[c].got[t]}
  BY DEF Extended
<1>2. CASE Seed(c)
  BY <1>0, <1>2 DEF Seed
<1>3. CASE Reconcile(c) \/ Forget(c)
  <2>1. \E gone : index' = [index EXCEPT ![p] = [u \in Tokens |-> IF u \in gone THEN 0
                                                                 ELSE index[p][u]]]
    <3>1. \E gone : Prune(p, gone)
      BY <1>3, Zenon DEF Reconcile, Forget
    <3> QED
      BY <3>1 DEF Prune
  <2> QED
    BY <1>0, <2>1
<1>4. CASE SummarizeRead(c)
  <2>1. index'[p][t] = Extended(c)[t]
    BY <1>0, <1>4 DEF SummarizeRead
  <2> QED
    BY <1>1, <2>1
<1>5. CASE SummarizeLoad(c)
  <2>1. \E gone : index' = [index EXCEPT ![p] = [u \in Tokens |-> IF u \in gone THEN 0
                                                                 ELSE Extended(c)[u]]]
    BY <1>5 DEF SummarizeLoad
  <2>2. index'[p][t] \in {0, Extended(c)[t]}
    BY <1>0, <2>1
  <2> QED
    BY <1>1, <2>2
<1>6. CASE Rename(c)
  BY <1>0, <1>6 DEF Rename, Summaries
<1>7. CASE Stat(c)
  <2>1. \E gone : index' = [index EXCEPT ![p] = [u \in Tokens |-> IF u \in gone THEN 0
                                                                 ELSE index[p][u]]]
    BY <1>7 DEF Stat
  <2> QED
    BY <1>0, <2>1
<1>8. CASE index' = index
  BY <1>8
<1>9. CASE Scan(c) \/ SweepTemps(c) \/ Readdir(c) \/ Write(c) \/ RenameFails(c) \/ Unlink(c)
           \/ Persist(c) \/ Wipe(c) \/ WipeOne(c) \/ Unseed(c)
  BY <1>8, <1>9 DEF Scan, SweepTemps, Readdir, Write, RenameFails, Unlink, Persist, Wipe, WipeOne,
                    Unseed
<1> QED
  BY <1>2, <1>3, <1>4, <1>5, <1>6, <1>7, <1>9 DEF Step

(* A step of a call keeps what the call's reads got, or forgets it. *)
LEMMA GotFrom ==
  ASSUME Lock, NEW c \in Calls, Step(c)
  PROVE  call'[c].got \in {call[c].got, Nothing}
<1>0. call \in [Calls -> CallType]
  BY DEF Lock, Domains
<1>1. CASE Seed(c) \/ Scan(c) \/ SweepTemps(c) \/ Readdir(c) \/ Reconcile(c)
  BY <1>0, <1>1 DEF Seed, Goto, Scan, SweepTemps, Readdir, Reconcile, CallType
<1>2. CASE SummarizeRead(c)
  BY <1>0, <1>2 DEF SummarizeRead, List, At
<1>3. CASE SummarizeLoad(c)
  <2>1. \E pc, tokens : call'[c] \in {At(pc), [At(pc) EXCEPT !.tokens = tokens]}
    BY <1>0, <1>3 DEF SummarizeLoad
  <2> QED
    BY <2>1 DEF At
<1>4. CASE Write(c) \/ Rename(c) \/ RenameFails(c)
  BY <1>0, <1>4 DEF Write, Rename, RenameFails, Goto, Leave, At, CallType
<1>5. CASE Stat(c)
  <2>1. \E pc, tokens : call'[c] \in {At(pc), [At(pc) EXCEPT !.tokens = tokens]}
    BY <1>0, <1>5 DEF Stat
  <2> QED
    BY <2>1 DEF At
<1>6. CASE Unlink(c)
  BY <1>0, <1>6 DEF Unlink, CallType
<1>7. CASE Persist(c)
  BY <1>0, <1>7 DEF Persist, Continue, List, Leave, At
<1>8. CASE Wipe(c) \/ WipeOne(c)
  <2>1. CASE Wipe(c)
    BY <1>0, <2>1 DEF Wipe, At
  <2>2. CASE WipeOne(c)
    <3>1. \E tokens : call' = [call EXCEPT ![c].tokens = tokens]
      BY <2>2 DEF WipeOne
    <3> QED
      BY <1>0, <3>1 DEF CallType
  <2> QED
    BY <1>8, <2>1, <2>2
<1>9. CASE Forget(c) \/ Unseed(c)
  BY <1>0, <1>9 DEF Forget, Unseed, Goto, Leave, At, CallType
<1> QED
  BY <1>1, <1>2, <1>3, <1>4, <1>5, <1>6, <1>7, <1>8, <1>9 DEF Step

LEMMA SidecarFrom ==
  ASSUME NEW c \in Calls, Step(c)
  PROVE  sidecar' \in {sidecar, Nothing, index[ProcessOf[c]]}
<1> USE DEF disk
<1>1. CASE Seed(c) \/ Scan(c) \/ SweepTemps(c) \/ Readdir(c) \/ Reconcile(c)
           \/ SummarizeRead(c) \/ SummarizeLoad(c)
  BY <1>1 DEF Seed, Scan, SweepTemps, Readdir, Reconcile, SummarizeRead, SummarizeLoad
<1>2. CASE Write(c) \/ Rename(c) \/ RenameFails(c) \/ Stat(c) \/ Unlink(c)
  BY <1>2 DEF Write, Rename, RenameFails, Stat, Unlink
<1>3. CASE Persist(c)
  BY <1>3 DEF Persist
<1>4. CASE Wipe(c) \/ WipeOne(c) \/ Forget(c) \/ Unseed(c)
  BY <1>4 DEF Wipe, WipeOne, Forget, Unseed
<1> QED
  BY <1>1, <1>2, <1>3, <1>4 DEF Step

LEMMA StepKnown ==
  ASSUME Lock, Known, Evictions, NEW c \in Calls, Step(c)
  PROVE  Known'
<1>1. Moves(c) /\ StartsReads(c) /\ Local(c)
  BY StepMoves, StepPlaces DEF Lock
<1>2. IsFiniteSet(history'.written)
  BY Grows, FS_AddElement, FS_Subset DEF Known
<1> SUFFICES ASSUME NEW t \in Tokens \ history'.written
             PROVE  /\ files'[t] = 0 /\ sidecar'[t] = 0 /\ history'.saved[t] = 0
                    /\ \A p \in Processes : index'[p][t] = 0
                    /\ \A d \in Calls : call'[d].got[t] = 0
                    /\ \A r \in reads' : r.token = t => r.at # "parse"
  BY <1>2 DEF Known
<1>3. t \in Tokens \ history.written
  BY Grows
<1>4. /\ files[t] = 0 /\ sidecar[t] = 0 /\ history.saved[t] = 0
      /\ \A p \in Processes : index[p][t] = 0
      /\ \A d \in Calls : call[d].got[t] = 0
      /\ \A r \in reads : r.token = t => r.at # "parse"
  BY <1>3 DEF Known
<1>5. Rename(c) => t # TokenOf[c]
  <2>1. Rename(c) => TokenOf[c] \in history'.written
    BY DEF Rename, Lock, Domains, HistoryType
  <2> QED
    BY <2>1
<1>6. files'[t] = 0
  BY <1>4, <1>5, FilesShrink
<1>7. sidecar'[t] = 0
  BY <1>4, SidecarFrom, Constants DEF Nothing
<1>8. history'.saved[t] = 0
  <2>1. CASE RecordsSave(c)
    <3>1. TokenOf[c] # t
      BY <1>3, <2>1 DEF RecordsSave, Evictions
    <3> QED
      BY <1>4, <2>1, <3>1 DEF RecordsSave, Lock, Domains, HistoryType, Summaries
  <2>2. CASE ~RecordsSave(c)
    <3>1. history'.saved = history.saved
      BY <2>2, StepRecords DEF Records, RecordsRename, RecordsRemoval
    <3> QED
      BY <1>4, <3>1
  <2> QED
    BY <2>1, <2>2
<1>9. \A p \in Processes : index'[p][t] = 0
  <2>1. index'[ProcessOf[c]][t] = 0
    BY <1>4, <1>5, IndexFrom, Constants
  <2> QED
    BY <1>1, <1>4, <2>1 DEF Local
<1>10. \A d \in Calls : call'[d].got[t] = 0
  <2>1. call'[c].got[t] = 0
    BY <1>4, GotFrom DEF Nothing
  <2> QED
    BY <1>1, <1>4, <2>1 DEF Moves
<1>11. \A r \in reads' : r.token = t => r.at # "parse"
  BY <1>1, <1>4 DEF StartsReads
<1> QED
  BY <1>6, <1>7, <1>8, <1>9, <1>10, <1>11

(* The cap is exceeded by the profiles that reached the directory, and more and    *)
(* more of them do.                                                                *)
LEMMA OverLasts ==
  ASSUME NEW t \in Tokens, history.written \subseteq history'.written,
         history'.written \in SUBSET Tokens, IsFiniteSet(history'.written), Over(t)
  PROVE  Over(t)'
<1> DEFINE above == {u \in history.written : u > t}
           later == {u \in history'.written : u > t}
<1>1. above \subseteq later /\ IsFiniteSet(later)
  BY FS_Subset
<1>2. Cardinality(above) <= Cardinality(later) /\ Cardinality(above) \in Nat
      /\ Cardinality(later) \in Nat
  BY <1>1, FS_Subset, FS_CardinalityType
<1> HIDE DEF above, later
<1>3. MaxProfiles > 0 /\ Cardinality(above) >= MaxProfiles /\ MaxProfiles \in Nat
  BY FileAssumption DEF Over, above
<1>4. Cardinality(later) >= MaxProfiles
  BY <1>2, <1>3
<1> QED
  BY <1>3, <1>4 DEF Over, later

(* An overflow leaves MaxProfiles newer ones than any of its victims. *)
LEMMA VictimsOver ==
  ASSUME NEW indexed \in SUBSET Tokens, indexed \subseteq history.written,
         history.written \subseteq Tokens, IsFiniteSet(history.written),
         NEW t \in Victims(indexed)
  PROVE  t \in Expired \/ Over(t)
<1> SUFFICES ASSUME t \notin Expired PROVE Over(t)
  OBVIOUS
<1> DEFINE live == indexed \ Expired
           over == IF MaxProfiles = 0 THEN 0 ELSE Cardinality(live) - MaxProfiles
           upto == {u \in live : u <= t}
           newer == {u \in live : u > t}
           above == {u \in history.written : u > t}
<1>1. t \in Oldest(live, over)
  BY DEF Victims
<1>2. t \in live /\ Cardinality(upto) <= over /\ t \in upto /\ t \in Nat
  BY <1>1, FileAssumption DEF Oldest
<1>3. IsFiniteSet(live) /\ IsFiniteSet(upto) /\ IsFiniteSet(newer) /\ IsFiniteSet(above)
  BY FS_Subset
<1>4. live = upto \cup newer /\ upto \cap newer = {}
  <2>1. \A u \in live : u \in Nat
    BY FileAssumption
  <2>2. \A u \in live : (u <= t \/ u > t) /\ ~(u <= t /\ u > t)
    BY <1>2, <2>1
  <2> HIDE DEF live
  <2> QED
    BY <2>2
<1>5. newer \subseteq above
  OBVIOUS
<1>6. upto # {}
  BY <1>2
<1> HIDE DEF live, upto, newer, above
<1>7. Cardinality(live) = Cardinality(upto) + Cardinality(newer)
  <2>1. Cardinality(upto \cup newer)
          = Cardinality(upto) + Cardinality(newer) - Cardinality(upto \cap newer)
    BY <1>3, FS_Union
  <2>2. Cardinality(upto \cap newer) = 0
    BY <1>4, FS_EmptySet
  <2>3. Cardinality(upto) \in Nat /\ Cardinality(newer) \in Nat
    BY <1>3, FS_CardinalityType
  <2> QED
    BY <1>4, <2>1, <2>2, <2>3
<1>8. Cardinality(newer) <= Cardinality(above)
  BY <1>3, <1>5, FS_Subset
<1>9. /\ Cardinality(upto) \in Nat /\ Cardinality(newer) \in Nat /\ Cardinality(above) \in Nat
      /\ Cardinality(upto) # 0
  BY <1>3, <1>6, FS_CardinalityType, FS_EmptySet
<1>10. MaxProfiles > 0 /\ Cardinality(above) >= MaxProfiles
  BY <1>2, <1>7, <1>8, <1>9, FileAssumption
<1> QED
  BY <1>10 DEF Over, above

(* What is to be unlinked has expired, or exceeds the cap. *)
LEMMA UnlinksWhat ==
  ASSUME Lock, Known, Evictions, NEW c \in Calls, Step(c), call'[c].pc = "unlink",
         NEW t \in call'[c].tokens
  PROVE  t \in Expired \/ Over(t)
<1>0. call \in [Calls -> CallType] /\ ProcessOf[c] \in Processes
  BY Constants DEF Lock, Domains
<1>1. CASE SummarizeLoad(c)
  <2> DEFINE expired == {u \in Expired : Extended(c)[u] > 0}
  <2>1. call'[c] = [At("unlink") EXCEPT !.tokens = expired] \/ \E pc : call'[c] = At(pc)
    BY <1>0, <1>1 DEF SummarizeLoad
  <2> HIDE DEF expired
  <2>2. call'[c].tokens \in {expired, {}}
    <3>1. ASSUME NEW pc, call'[c] = At(pc) PROVE call'[c].tokens = {}
      BY <3>1 DEF At
    <3>2. ASSUME call'[c] = [At("unlink") EXCEPT !.tokens = expired] PROVE call'[c].tokens = expired
      BY <3>2 DEF At
    <3> QED
      BY <2>1, <3>1, <3>2
  <2> QED
    BY <2>2 DEF expired
<1>2. CASE Stat(c)
  <2> DEFINE victims == Victims(Indexed(ProcessOf[c]))
  <2>1. call'[c] = [At("unlink") EXCEPT !.tokens = victims] \/ \E pc : call'[c] = At(pc)
    BY <1>0, <1>2 DEF Stat
  <2> HIDE DEF victims
  <2>2. call'[c].tokens \in {victims, {}}
    <3>1. ASSUME NEW pc, call'[c] = At(pc) PROVE call'[c].tokens = {}
      BY <3>1 DEF At
    <3>2. ASSUME call'[c] = [At("unlink") EXCEPT !.tokens = victims] PROVE call'[c].tokens = victims
      BY <3>2 DEF At
    <3> QED
      BY <2>1, <3>1, <3>2
  <2>3. Indexed(ProcessOf[c]) \subseteq history.written
    BY <1>0 DEF Indexed, Known
  <2>4. history.written \subseteq Tokens /\ IsFiniteSet(history.written)
    BY DEF Lock, Domains, HistoryType, Known
  <2> QED
    BY <2>2, <2>3, <2>4, VictimsOver DEF victims
<1>3. CASE Unlink(c)
  <2>1. call[c].pc = "unlink" /\ call'[c].tokens \subseteq call[c].tokens
    BY <1>0, <1>3 DEF Unlink, InLock, CallType
  <2> QED
    BY <2>1 DEF Evictions
<1>4. CASE Seed(c) \/ Scan(c) \/ SweepTemps(c) \/ Readdir(c) \/ Reconcile(c)
  BY <1>0, <1>4 DEF Seed, Goto, Scan, SweepTemps, Readdir, Reconcile, CallType
<1>5. CASE SummarizeRead(c) \/ Persist(c)
  BY <1>0, <1>5 DEF SummarizeRead, Persist, Continue, List, Leave, At
<1>6. CASE Write(c) \/ Rename(c) \/ RenameFails(c)
  BY <1>0, <1>6 DEF Write, Rename, RenameFails, Goto, Leave, At, CallType
<1>7. CASE Wipe(c) \/ WipeOne(c)
  <2>1. CASE Wipe(c)
    BY <1>0, <2>1 DEF Wipe, At
  <2>2. CASE WipeOne(c)
    <3>1. \E tokens : call' = [call EXCEPT ![c].tokens = tokens]
      BY <2>2 DEF WipeOne
    <3>2. call[c].pc = "wipe"
      BY <2>2 DEF WipeOne, InLock
    <3> QED
      BY <1>0, <3>1, <3>2 DEF CallType
  <2> QED
    BY <1>7, <2>1, <2>2
<1>8. CASE Forget(c) \/ Unseed(c)
  BY <1>0, <1>8 DEF Forget, Unseed, Goto, Leave, At, CallType
<1> QED
  BY <1>1, <1>2, <1>3, <1>4, <1>5, <1>6, <1>7, <1>8 DEF Step

LEMMA StepEvictions ==
  ASSUME Lock, Lock', Known, Known', Evictions, NEW c \in Calls, Step(c)
  PROVE  Evictions'
<1>1. Moves(c) /\ Local(c) /\ call \in [Calls -> CallType]
  BY StepMoves, StepPlaces DEF Lock, Domains
<1>2. Expired' = Expired
  BY <1>1 DEF Local, Expired
<1>3. \A t \in Tokens : Over(t) => Over(t)'
  <2>1. history'.written \in SUBSET Tokens /\ IsFiniteSet(history'.written)
    BY DEF Lock, Domains, HistoryType, Known
  <2> QED
    BY <2>1, Grows, OverLasts
<1>4. ASSUME NEW t \in history'.written, files'[t] = 0
      PROVE  t \in history'.cleared \/ Over(t)'
  <2>0. t \in Tokens
    BY DEF Lock, Domains, HistoryType
  <2>1. CASE files' = files /\ history'.written = history.written
    BY <1>3, <1>4, <2>0, <2>1, Grows DEF Evictions
  <2>2. CASE RecordsRename(c)
    <3>1. t # TokenOf[c]
      BY <1>4, <2>0, <2>2, Constants DEF RecordsRename, Lock, Domains, Summaries
    <3>2. files'[t] = files[t] /\ t \in history.written
      BY <2>0, <2>2, <3>1 DEF RecordsRename, Lock, Domains, Summaries
    <3> QED
      BY <1>3, <1>4, <2>0, <3>2, Grows DEF Evictions
  <2>3. ASSUME NEW u \in Tokens, RecordsRemoval(c, u)
        PROVE  t \in history'.cleared \/ Over(t)'
    <3>1. CASE t # u
      <4>1. files'[t] = files[t]
        BY <2>0, <2>3, <3>1 DEF RecordsRemoval, Lock, Domains, Summaries
      <4>2. t \in history.written
        BY <2>3 DEF RecordsRemoval
      <4> QED
        BY <1>3, <1>4, <2>0, <4>1, <4>2, Grows DEF Evictions
    <3>2. CASE t = u /\ WipeOne(c)
      BY <2>3, <3>2 DEF RecordsRemoval
    <3>3. CASE t = u /\ Unlink(c)
      <4>1. t \in Expired \/ Over(t)
        BY <2>3, <3>3 DEF RecordsRemoval, Unlink, InLock, Evictions
      <4> QED
        BY <1>3, <2>0, <2>3, <3>3, <4>1 DEF RecordsRemoval
    <3> QED
      BY <2>3, <3>1, <3>2, <3>3 DEF RecordsRemoval
  <2> QED
    BY <2>1, <2>2, <2>3, StepRecords DEF Records, RecordsSave
<1>5. ASSUME NEW d \in Calls, call'[d].pc = "unlink", NEW t \in call'[d].tokens
      PROVE  t \in Expired' \/ Over(t)'
  <2>0. t \in Tokens
    BY <1>5 DEF Lock, Domains, CallType
  <2>1. CASE d # c
    <3>1. call'[d] = call[d]
      BY <1>1, <2>1 DEF Moves
    <3> QED
      BY <1>2, <1>3, <1>5, <2>0, <3>1 DEF Evictions
  <2>2. CASE d = c
    BY <1>2, <1>3, <1>5, <2>0, <2>2, UnlinksWhat
  <2> QED
    BY <2>1, <2>2
<1>6. ASSUME NEW d \in Calls, Renamed(d)' PROVE TokenOf[d] \in history'.written
  <2>1. CASE Renamed(d)
    BY <2>1, Grows DEF Evictions
  <2>2. CASE Rename(c) /\ d = c
    BY <2>2 DEF Rename, Lock, Domains, HistoryType
  <2> QED
    BY <1>6, <2>1, <2>2, RenamedFrom
<1> QED
  BY <1>4, <1>5, <1>6 DEF Evictions

(* A file's answer is of a profile that reached the directory. *)
LEMMA ReadKnown ==
  ASSUME Lock, Known, NEW r \in reads, ReadProfile(r)
  PROVE  Known'
<1>0. call \in [Calls -> CallType] /\ r.call \in Calls /\ r.token \in Tokens
  BY DEF Lock, Domains, ReadType
<1>1. UNCHANGED <<files, sidecar, index, history>>
  BY DEF ReadProfile, disk
<1> SUFFICES ASSUME NEW t \in Tokens \ history.written
             PROVE  /\ \A d \in Calls : call'[d].got[t] = 0
                    /\ \A s \in reads' : s.token = t => s.at # "parse"
  BY <1>1 DEF Known
<1>2. /\ files[t] = 0 /\ \A d \in Calls : call[d].got[t] = 0
      /\ \A s \in reads : s.token = t => s.at # "parse"
  BY DEF Known
<1>3. ASSUME NEW version, Answer(r, version), r.token = t => version = 0
      PROVE  /\ \A d \in Calls : call'[d].got[t] = 0
             /\ \A s \in reads' : s.token = t => s.at # "parse"
  <2>1. \E pc : call' = [call EXCEPT ![r.call].got[r.token] = version, ![r.call].pc = pc]
    BY <1>0, <1>3 DEF Answer, CallType
  <2>2. \A d \in Calls : call'[d].got[t] = 0
    BY <1>0, <1>2, <1>3, <2>1 DEF CallType, Summaries
  <2> QED
    BY <1>2, <1>3, <2>2 DEF Answer
<1>4. CASE Missing(r)
  BY <1>3, <1>4 DEF Missing
<1>5. CASE StatFile(r)
  <2>1. r.token # t
    BY <1>2, <1>5 DEF StatFile
  <2>2. CASE \E version : Answer(r, version)
    BY <1>3, <2>1, <2>2
  <2>3. CASE Advance(r, [r EXCEPT !.at = "read", !.mtime = files[r.token]])
    <3>1. [r EXCEPT !.at = "read", !.mtime = files[r.token]].token # t
      BY <2>1 DEF Lock, Domains, ReadType
    <3> QED
      BY <1>2, <2>3, <3>1 DEF Advance
  <2> QED
    BY <1>5, <2>2, <2>3 DEF StatFile
<1>6. CASE ReadFile(r)
  <2>1. r.token # t
    BY <1>2, <1>6 DEF ReadFile
  <2>2. [r EXCEPT !.at = "parse", !.version = files[r.token]].token # t
    BY <2>1 DEF Lock, Domains, ReadType
  <2> QED
    BY <1>2, <1>6, <2>2 DEF ReadFile, Advance
<1>7. CASE Parse(r)
  BY <1>2, <1>3, <1>7 DEF Parse
<1> QED
  BY <1>4, <1>5, <1>6, <1>7 DEF ReadProfile

LEMMA EvictionsStay ==
  ASSUME Lock, Evictions, UNCHANGED <<files, history.written, history.cleared>>,
         horizon' \in Nat, horizon' >= horizon,
         \A c \in Calls : /\ call'[c].pc = "unlink" =>
                                call[c].pc = "unlink" /\ call'[c].tokens = call[c].tokens
                          /\ Renamed(c)' => Renamed(c)
  PROVE  Evictions'
<1>1. \A t \in Tokens : t \in Expired => t \in Expired'
  BY FileAssumption DEF Expired, Lock, Domains
<1>2. \A t \in Tokens : Over(t)' <=> Over(t)
  BY DEF Over
<1>3. \A c \in Calls : call[c].tokens \subseteq Tokens
  BY DEF Lock, Domains, CallType
<1>4. history.written \subseteq Tokens
  BY DEF Lock, Domains, HistoryType
<1>5. \A t \in history'.written : files'[t] = 0 => t \in history'.cleared \/ Over(t)'
  BY <1>2, <1>4 DEF Evictions
<1>6. \A c \in Calls : call'[c].pc = "unlink" =>
        \A t \in call'[c].tokens : t \in Expired' \/ Over(t)'
  <2> SUFFICES ASSUME NEW c \in Calls, call'[c].pc = "unlink", NEW t \in call'[c].tokens
               PROVE  t \in Expired' \/ Over(t)'
    OBVIOUS
  <2>1. call[c].pc = "unlink" /\ t \in call[c].tokens /\ t \in Tokens
    BY <1>3
  <2>2. t \in Expired \/ Over(t)
    BY <2>1 DEF Evictions
  <2> QED
    BY <1>1, <1>2, <2>1, <2>2
<1>7. \A c \in Calls : Renamed(c)' => TokenOf[c] \in history'.written
  <2> SUFFICES ASSUME NEW c \in Calls, Renamed(c)' PROVE TokenOf[c] \in history'.written
    OBVIOUS
  <2>1. Renamed(c)
    OBVIOUS
  <2> QED
    BY <2>1 DEF Evictions
<1> QED
  BY <1>5, <1>6, <1>7 DEF Evictions

LEMMA NextEvictions ==
  Lock /\ Lock' /\ Known /\ Evictions /\ [Next]_vars => Known' /\ Evictions'
<1> SUFFICES ASSUME Lock, Lock', Known, Evictions, [Next]_vars PROVE Known' /\ Evictions'
  OBVIOUS
<1>0. call \in [Calls -> CallType] /\ history \in HistoryType /\ horizon' \in Nat
  BY DEF Lock, Domains
<1>2. ASSUME NEW c \in Calls, Begin(c) PROVE Known' /\ Evictions'
  <2>1. /\ call'[c].pc = "start" /\ call'[c].got = call[c].got
        /\ \A d \in Calls \ {c} : call'[d] = call[d]
        /\ UNCHANGED <<files, sidecar, index, reads, horizon, ready>>
    BY <1>0, <1>2 DEF Begin, Goto, CallType, disk, memory
  <2>2. UNCHANGED <<history.written, history.cleared, history.saved>>
    <3>1. \E f : history' = [history EXCEPT !.floor[c] = f]
      BY <1>2 DEF Begin
    <3> QED
      BY <1>0, <3>1 DEF HistoryType
  <2>3. Known'
    BY <2>1, <2>2 DEF Known
  <2>4. \A d \in Calls : Renamed(d)' => Renamed(d)
    BY <2>1 DEF Renamed, Ready
  <2>5. horizon' >= horizon
    BY <2>1 DEF Lock, Domains
  <2>6. \A d \in Calls : call'[d].pc = "unlink" =>
                              call[d].pc = "unlink" /\ call'[d].tokens = call[d].tokens
    BY <2>1
  <2>7. Evictions'
    BY EvictionsStay, <1>0, <2>1, <2>2, <2>4, <2>5, <2>6
  <2> QED
    BY <2>3, <2>7
<1>3. ASSUME NEW r \in reads, ReadProfile(r) PROVE Known' /\ Evictions'
  <2>1. UNCHANGED <<files, history, horizon, ready>>
    BY <1>3 DEF ReadProfile, disk
  <2>2. r.call \in Calls /\ call[r.call].pc \in {"summarize", "reading"}
    BY DEF Lock, Domains, ReadType, Discipline
  <2>3. \A d \in Calls : \/ call'[d] = call[d]
                         \/ call'[d].pc \in {"summarize", "reading", "done"}
    BY <1>3, <2>2, ReadMoves DEF Lock
  <2>4. \A d \in Calls : Renamed(d)' => Renamed(d)
    BY <2>1, <2>3 DEF Renamed, Ready
  <2>5. horizon' >= horizon
    BY <2>1 DEF Lock, Domains
  <2>6. \A d \in Calls : call'[d].pc = "unlink" =>
                              call[d].pc = "unlink" /\ call'[d].tokens = call[d].tokens
    BY <2>3
  <2>7. Evictions'
    BY EvictionsStay, <1>0, <2>1, <2>4, <2>5, <2>6
  <2> QED
    BY <1>3, <2>7, ReadKnown
<1>4. ASSUME NEW p \in Processes, Die(p) PROVE Known' /\ Evictions'
  <2>1. /\ call' = [c \in Calls |-> IF ProcessOf[c] = p /\ InFlight(c) THEN At("dead")
                                                                     ELSE call[c]]
        /\ reads' \subseteq reads /\ UNCHANGED <<files, sidecar, horizon>>
        /\ history' = [history EXCEPT !.own[p] = {}]
        /\ ready' \subseteq ready
        /\ \A q \in Processes \ {p} : index'[q] = index[q]
    BY <1>4, PruneLocal DEF Die, disk, Lock
  <2>2. UNCHANGED <<history.written, history.cleared, history.saved>>
    BY <1>0, <2>1 DEF HistoryType
  <2>3. \A d \in Calls : call'[d] = call[d] \/ (call'[d].pc = "dead" /\ call'[d].got = Nothing)
    BY <2>1 DEF At
  <2>4. \A t \in Tokens : index'[p][t] = 0
    <3>1. index'[p] = [t \in Tokens |-> IF t \in Tokens THEN 0 ELSE index[p][t]]
      BY <1>4 DEF Die, Prune, Lock, Domains
    <3> QED
      BY <3>1
  <2>5. Known'
    BY <2>1, <2>2, <2>3, <2>4 DEF Known, Nothing
  <2>6. \A d \in Calls : Renamed(d)' => Renamed(d)
    BY <2>1, <2>3 DEF Renamed, Ready
  <2>7. horizon' >= horizon
    BY <2>1 DEF Lock, Domains
  <2>8. \A d \in Calls : call'[d].pc = "unlink" =>
                              call[d].pc = "unlink" /\ call'[d].tokens = call[d].tokens
    BY <2>3
  <2>9. Evictions'
    BY EvictionsStay, <1>0, <2>1, <2>2, <2>6, <2>7, <2>8
  <2> QED
    BY <2>5, <2>9
<1>5. CASE Tick \/ UNCHANGED vars
  <2>1. UNCHANGED <<files, sidecar, index, call, reads, history, ready>>
    BY <1>5 DEF Tick, vars, disk, memory
  <2>2. horizon' >= horizon
    BY <1>5 DEF Tick, vars, Lock, Domains
  <2>3. Known'
    BY <2>1 DEF Known
  <2>4. \A d \in Calls : Renamed(d)' => Renamed(d)
    BY <2>1 DEF Renamed, Ready
  <2>5. \A d \in Calls : call'[d].pc = "unlink" =>
                              call[d].pc = "unlink" /\ call'[d].tokens = call[d].tokens
    BY <2>1
  <2>6. Evictions'
    BY EvictionsStay, <1>0, <2>1, <2>2, <2>4, <2>5
  <2> QED
    BY <2>3, <2>6
<1>6. ASSUME NEW c \in Calls, Step(c) PROVE Known' /\ Evictions'
  BY <1>6, StepKnown, StepEvictions
<1> QED
  BY <1>2, <1>3, <1>4, <1>5, <1>6, FileAssumption DEF Next

(* A saved profile leaves the directory only when it has expired, when it is       *)
(* cleared, or when MaxProfiles newer ones have been written: whatever processes   *)
(* evict, from indexes that may be stale, and whoever dies.                        *)
THEOREM SavesSurvive == Spec => []SavedSurvives
<1>1. Init => Known /\ Evictions
  <2> SUFFICES ASSUME Init PROVE Known /\ Evictions
    OBVIOUS
  <2>1. history.written = {} /\ history.saved = Nothing /\ reads = {}
        /\ files = Nothing /\ sidecar = Nothing /\ index = [p \in Processes |-> Nothing]
        /\ call = [c \in Calls |-> At("none")]
    BY DEF Init
  <2>2. Known
    BY <2>1, FS_EmptySet DEF Known, Nothing, At
  <2>3. Evictions
    BY <2>1 DEF Evictions, Renamed, At
  <2> QED
    BY <2>2, <2>3
<1>2. Lock /\ Known /\ Evictions => SavedSurvives
  <2> SUFFICES ASSUME Lock, Known, Evictions, NEW t \in Tokens,
                      history.saved[t] > 0, files[t] = 0, t \notin history.cleared
               PROVE  Over(t)
    BY DEF SavedSurvives, Over
  <2>1. t \in history.written
    BY DEF Known
  <2> QED
    BY <2>1 DEF Evictions
<1> QED
  BY <1>1, <1>2, LockHeld, NextEvictions, PTL DEF Spec

-----------------------------------------------------------------------------
(* What a read returns *)

Earlier(d, c) == TokenOf[d] = TokenOf[c] /\ VersionOf[d] < VersionOf[c]

(* The states of a profile are saved in the order of its process's queue. *)
InOrder ==
    \A c, d \in Saves : Earlier(d, c) =>
        /\ call[c].pc # "none" => call[d].pc # "none"
        /\ \A p \in Processes : \A i, j \in DOMAIN queue[p] :
             queue[p][i] = c /\ queue[p][j] = d => j < i

ToRename(c) == c \in Saves /\ (call[c].pc = "none" \/ (Queued(c) /\ ~Renamed(c)))

Kept == Tokens \ history.removed

(* A file that was never removed only moves on to later states. *)
Monotone ==
    /\ \A c \in Calls : ToRename(c) => files[TokenOf[c]] <= VersionOf[c]
    /\ \A c \in Calls : Renamed(c) /\ TokenOf[c] \in Kept => files[TokenOf[c]] = VersionOf[c]
    /\ \A t \in Kept : history.saved[t] <= files[t]
    /\ \A c \in Calls, t \in Kept : history.floor[c][t] <= files[t]

(* The mtime was read before the content. *)
MtimesFirst ==
    /\ \A p \in Processes, t \in Kept : cache[p][t].mtime <= cache[p][t].version
    /\ \A r \in reads : r.token \in Kept =>
         /\ r.at = "read" => r.mtime <= files[r.token]
         /\ r.at = "parse" => r.mtime <= r.version
                              /\ history.floor[r.call][r.token] <= r.version

Wanted(c, t) == Kind[c] = "read" /\ t \in Kept \ Expired /\ history.floor[c][t] > 0

(* What a read will return is listed, then indexed or being read, then read. *)
Sought(c, t) ==
    /\ call[c].pc = "reconcile" /\ Ready(c) => t \in call[c].tokens
    /\ call[c].pc = "summarize" /\ Ready(c) =>
         index[ProcessOf[c]][t] > 0 \/ call[c].got[t] > 0 \/ Pending(c, t)
    /\ call[c].pc = "persist" /\ Ready(c) => index[ProcessOf[c]][t] > 0
    /\ call[c].pc = "reading" => call[c].got[t] >= history.floor[c][t] \/ Pending(c, t)
    /\ call[c].pc = "done" => call[c].got[t] >= history.floor[c][t]

ReadsSought == \A c \in Calls, t \in Tokens : Wanted(c, t) => Sought(c, t)

LEMMA Numbers ==
  /\ \A c \in Saves : VersionOf[c] \in Nat
  /\ \A f \in Summaries, t \in Tokens : f[t] \in Nat
<1>1. \A v \in Versions : v \in Nat
  BY Constants
<1> QED
  BY <1>1, Constants DEF Summaries

(* The order of the queue lasts. *)
LEMMA OrderPops ==
  ASSUME Lock, InOrder, NEW c \in Calls, Holds(c), Release(c),
         \A d \in Calls : call'[d].pc # "none" <=> call[d].pc # "none"
  PROVE  InOrder'
<1> PICK p \in Processes : p = ProcessOf[c]
  BY Constants
<1> PICK q \in Seq(Calls) : q = queue[p]
  BY DEF Lock, Domains
<1>1. queue'[p] = Tail(q) /\ \A o \in Processes \ {p} : queue'[o] = queue[o]
  BY DEF Release, Lock, Domains
<1>2. q # <<>>
  BY DEF Holds
<1>3. /\ DOMAIN Tail(q) = 1..(Len(q) - 1) /\ DOMAIN q = 1..Len(q) /\ Len(q) \in Nat \ {0}
      /\ \A i \in 1..(Len(q) - 1) : Tail(q)[i] = q[i + 1]
  BY <1>2
<1> PICK u : u = Tail(q)
  OBVIOUS
<1>4. /\ DOMAIN u = 1..(Len(q) - 1) /\ DOMAIN q = 1..Len(q) /\ Len(q) \in Nat \ {0}
      /\ \A i \in 1..(Len(q) - 1) : u[i] = q[i + 1]
      /\ queue'[p] = u
  BY <1>1, <1>3
<1> SUFFICES ASSUME NEW a \in Saves, NEW b \in Saves, Earlier(b, a)
             PROVE  /\ call'[a].pc # "none" => call'[b].pc # "none"
                    /\ \A o \in Processes : \A i, j \in DOMAIN queue'[o] :
                         queue'[o][i] = a /\ queue'[o][j] = b => j < i
  BY DEF InOrder, Earlier
<1>5. call'[a].pc # "none" => call'[b].pc # "none"
  BY Constants DEF InOrder
<1>6. ASSUME NEW i \in 1..(Len(q) - 1), NEW j \in 1..(Len(q) - 1), u[i] = a, u[j] = b
      PROVE  j < i
  <2>1. i + 1 \in DOMAIN q /\ j + 1 \in DOMAIN q /\ q[i + 1] = a /\ q[j + 1] = b
    BY <1>4, <1>6
  <2>2. j + 1 < i + 1
    BY <2>1 DEF InOrder
  <2> QED
    BY <2>2
<1>7. ASSUME NEW o \in Processes, NEW i \in DOMAIN queue'[o], NEW j \in DOMAIN queue'[o],
             queue'[o][i] = a, queue'[o][j] = b
      PROVE  j < i
  <2>1. CASE o = p
    BY <1>4, <1>6, <1>7, <2>1
  <2>2. CASE o # p
    <3>1. queue'[o] = queue[o]
      BY <1>1, <2>2
    <3> QED
      BY <1>7, <3>1 DEF InOrder
  <2> QED
    BY <2>1, <2>2
<1> QED
  BY <1>5, <1>7

LEMMA OrderGrows ==
  ASSUME Lock, InOrder, NEW c \in Calls, Begin(c)
  PROVE  InOrder'
<1> PICK p \in Processes : p = ProcessOf[c]
  BY Constants
<1> PICK q \in Seq(Calls) : q = queue[p]
  BY DEF Lock, Domains
<1> PICK u : u = Append(q, c)
  OBVIOUS
<1>1. queue'[p] = u /\ \A o \in Processes \ {p} : queue'[o] = queue[o]
  BY DEF Begin, Lock, Domains
<1>2. /\ DOMAIN u = 1..(Len(q) + 1) /\ DOMAIN q = 1..Len(q) /\ Len(q) \in Nat
      /\ \A i \in 1..Len(q) : u[i] = q[i]
      /\ u[Len(q) + 1] = c
  OBVIOUS
<1>3. /\ call[c].pc = "none" /\ call'[c].pc # "none"
      /\ \A d \in Calls \ {c} : call'[d] = call[d]
  BY DEF Begin, Goto, Lock, Domains, CallType
<1> SUFFICES ASSUME NEW a \in Saves, NEW b \in Saves, Earlier(b, a)
             PROVE  /\ call'[a].pc # "none" => call'[b].pc # "none"
                    /\ \A o \in Processes : \A i, j \in DOMAIN queue'[o] :
                         queue'[o][i] = a /\ queue'[o][j] = b => j < i
  BY DEF InOrder, Earlier
<1>4. a # b
  BY Numbers DEF Earlier
<1>5. call'[a].pc # "none" => call'[b].pc # "none"
  <2>1. CASE a = c
    BY <1>3, <1>4, <2>1, Constants DEF Begin, Earlier
  <2>2. CASE a # c
    BY <1>3, <2>2, Constants DEF InOrder
  <2> QED
    BY <2>1, <2>2
<1>6. ASSUME NEW i \in 1..(Len(q) + 1), NEW j \in 1..(Len(q) + 1), u[i] = a, u[j] = b
      PROVE  j < i
  <2>1. CASE i = Len(q) + 1
    BY <1>2, <1>4, <1>6, <2>1
  <2>2. CASE i # Len(q) + 1 /\ j = Len(q) + 1
    <3>1. i \in DOMAIN q /\ q[i] = a /\ b = c
      BY <1>2, <1>6, <2>2
    <3>2. Queued(a)
      BY <3>1 DEF Queued, Lock, Queues
    <3>3. call[a].pc # "none"
      BY <3>2, Constants DEF Lock, Discipline, InFlight
    <3> QED
      BY <1>3, <3>1, <3>3 DEF InOrder
  <2>3. CASE i # Len(q) + 1 /\ j # Len(q) + 1
    <3>1. i \in DOMAIN q /\ j \in DOMAIN q /\ q[i] = a /\ q[j] = b
      BY <1>2, <1>6, <2>3
    <3> QED
      BY <3>1 DEF InOrder
  <2> QED
    BY <2>1, <2>2, <2>3
<1>7. ASSUME NEW o \in Processes, NEW i \in DOMAIN queue'[o], NEW j \in DOMAIN queue'[o],
             queue'[o][i] = a, queue'[o][j] = b
      PROVE  j < i
  <2>1. CASE o = p
    BY <1>1, <1>2, <1>6, <1>7, <2>1
  <2>2. CASE o # p
    <3>1. queue'[o] = queue[o]
      BY <1>1, <2>2
    <3> QED
      BY <1>7, <3>1 DEF InOrder
  <2> QED
    BY <2>1, <2>2
<1> QED
  BY <1>5, <1>7

LEMMA OrderStays ==
  ASSUME InOrder, \A d \in Calls : call'[d].pc # "none" <=> call[d].pc # "none",
         \A p \in Processes : queue'[p] \in {queue[p], <<>>}
  PROVE  InOrder'
<1> SUFFICES ASSUME NEW a \in Saves, NEW b \in Saves, Earlier(b, a)
             PROVE  /\ call'[a].pc # "none" => call'[b].pc # "none"
                    /\ \A o \in Processes : \A i, j \in DOMAIN queue'[o] :
                         queue'[o][i] = a /\ queue'[o][j] = b => j < i
  BY DEF InOrder, Earlier
<1>1. call'[a].pc # "none" => call'[b].pc # "none"
  BY Constants DEF InOrder
<1>2. ASSUME NEW o \in Processes, NEW i \in DOMAIN queue'[o], NEW j \in DOMAIN queue'[o],
             queue'[o][i] = a, queue'[o][j] = b
      PROVE  j < i
  <2>1. queue'[o] # <<>>
    BY <1>2
  <2>2. queue'[o] = queue[o]
    BY <2>1
  <2> QED
    BY <1>2, <2>2 DEF InOrder
<1> QED
  BY <1>1, <1>2

LEMMA NextOrder == Lock /\ InOrder /\ [Next]_vars => InOrder'
<1> SUFFICES ASSUME Lock, InOrder, [Next]_vars PROVE InOrder'
  OBVIOUS
<1>1. ASSUME NEW c \in Calls, Step(c) PROVE InOrder'
  <2>1. Moves(c)
    BY <1>1, StepMoves DEF Lock
  <2>2. \A d \in Calls : call'[d].pc # "none" <=> call[d].pc # "none"
    BY <2>1 DEF Moves, Locked
  <2> QED
    BY <2>1, <2>2, OrderPops, OrderStays DEF Moves
<1>2. ASSUME NEW r \in reads, ReadProfile(r) PROVE InOrder'
  <2>1. \A d \in Calls : call'[d].pc # "none" <=> call[d].pc # "none"
    BY <1>2, ReadMoves DEF Lock
  <2> QED
    BY <1>2, <2>1, ReadMoves, OrderStays DEF Lock
<1>3. ASSUME NEW p \in Processes, Die(p) PROVE InOrder'
  <2>1. \A d \in Calls : call'[d].pc # "none" <=> call[d].pc # "none"
    BY <1>3 DEF Die, InFlight, At
  <2>2. \A o \in Processes : queue'[o] \in {queue[o], <<>>}
    BY <1>3 DEF Die, Lock, Domains
  <2> QED
    BY <2>1, <2>2, OrderStays
<1>4. CASE Tick \/ UNCHANGED vars
  <2>1. UNCHANGED <<call, queue>>
    BY <1>4 DEF Tick, vars
  <2> QED
    BY <2>1, OrderStays
<1> QED
  BY <1>1, <1>2, <1>3, <1>4, OrderGrows, FileAssumption DEF Next

(* A save that is past its rename() stays so until it has left. *)
LEMMA RenamedUntil ==
  ASSUME Lock, Lock', NEW c \in Calls, Step(c), NEW d \in Calls, Renamed(d)
  PROVE  Renamed(d)' \/ ~Queued(d)'
<1> USE DEF InLock
<1>0. call \in [Calls -> CallType] /\ Moves(c) /\ Local(c)
  BY StepMoves, StepPlaces DEF Lock, Domains
<1>1. Ready(d) /\ Ready(d)' /\ Kind[d] = "save"
  <2>1. Ready(d) /\ Kind[d] = "save"
    BY DEF Renamed, Lock, Paths, Place, Saves
  <2> QED
    BY <1>0, <2>1 DEF Local, Ready
<1>2. CASE d # c
  BY <1>0, <1>1, <1>2 DEF Renamed, Moves
<1>3. CASE d = c
  <2>1. call[c].pc \in {"stat", "unlink", "persist"}
    BY <1>3 DEF Renamed
  <2>2. CASE Seed(c) \/ Scan(c) \/ SweepTemps(c) \/ Readdir(c) \/ Reconcile(c)
             \/ SummarizeRead(c) \/ SummarizeLoad(c)
    BY <2>1, <2>2 DEF Seed, Scan, SweepTemps, Readdir, Reconcile, SummarizeRead, SummarizeLoad
  <2>3. CASE Write(c) \/ Rename(c) \/ RenameFails(c) \/ Wipe(c) \/ WipeOne(c) \/ Forget(c)
             \/ Unseed(c)
    BY <2>1, <2>3 DEF Write, Rename, RenameFails, Wipe, WipeOne, Forget, Unseed
  <2>4. CASE Stat(c)
    <3>1. call'[c].pc \in {"unlink", "persist"}
      BY <1>0, <2>4 DEF Stat, At
    <3> QED
      BY <1>1, <1>3, <3>1 DEF Renamed, Saves
  <2>5. CASE Unlink(c)
    <3>1. call'[c].pc \in {"unlink", "persist"}
      BY <1>0, <2>5 DEF Unlink, CallType
    <3> QED
      BY <1>1, <1>3, <3>1 DEF Renamed, Saves
  <2>6. CASE Persist(c)
    <3>1. call'[c].pc = "done"
      BY <1>0, <1>1, <1>3, <2>6 DEF Persist, Continue, Ready, Leave, At
    <3>2. ~Queued(c)'
      BY <3>1 DEF Lock, Discipline, InFlight
    <3> QED
      BY <1>3, <3>2
  <2> QED
    BY <2>2, <2>3, <2>4, <2>5, <2>6 DEF Step
<1> QED
  BY <1>2, <1>3

(* The save that is renamed is the oldest that is left of its profile. *)
LEMMA RenamesOldest ==
  ASSUME Lock, InOrder, NEW c \in Calls, Rename(c), NEW d \in Calls \ {c}, ToRename(d),
         TokenOf[d] = TokenOf[c]
  PROVE  VersionOf[c] <= VersionOf[d]
<1>1. c \in Saves /\ d \in Saves /\ ProcessOf[d] = ProcessOf[c]
  BY FileAssumption DEF Rename, InLock, Lock, Paths, Place, Saves, ToRename
<1> PICK p \in Processes : p = ProcessOf[c]
  BY Constants
<1>2. call[c].pc # "none" /\ Holds(c)
  BY DEF Rename, InLock
<1>3. queue[p] \in Seq(Calls) /\ Len(queue[p]) > 0 /\ queue[p][1] = c
  BY <1>2, HoldsIsFirst DEF Lock, Domains
<1> SUFFICES ASSUME VersionOf[d] < VersionOf[c] PROVE FALSE
  BY <1>1, Numbers
<1>4. Earlier(d, c)
  BY DEF Earlier
<1>5. Queued(d)
  BY <1>1, <1>2, <1>4 DEF InOrder, ToRename
<1>6. PICK j \in DOMAIN queue[p] : queue[p][j] = d
  BY <1>1, <1>5 DEF Queued
<1>7. 1 \in DOMAIN queue[p] /\ j \in Nat /\ j >= 1
  BY <1>3
<1>8. j < 1
  BY <1>1, <1>3, <1>4, <1>6, <1>7 DEF InOrder
<1> QED
  BY <1>7, <1>8

(* A file that is there to stay only moves on. *)
LEMMA FilesGrow ==
  ASSUME Lock, Monotone, NEW c \in Calls, Step(c), NEW t \in Kept'
  PROVE  t \in Kept /\ files[t] <= files'[t]
<1>0. files \in Summaries /\ history \in HistoryType
  BY DEF Lock, Domains
<1>1. t \in Kept /\ t \in Tokens /\ files[t] \in Nat
  <2>1. t \in Kept /\ t \in Tokens
    BY Grows DEF Kept
  <2> QED
    BY <1>0, <2>1, Numbers
<1>2. CASE files' = files
  BY <1>1, <1>2
<1>3. CASE RecordsRename(c)
  <2>1. ToRename(c)
    <3>1. call[c].pc = "rename" /\ Holds(c) /\ c \in Saves
      BY <1>3 DEF RecordsRename, Rename, InLock
    <3>2. InFlight(c) /\ call[c].pc # "reading" /\ ~Renamed(c)
      BY <3>1 DEF InFlight, Renamed
    <3> QED
      BY <3>1, <3>2 DEF ToRename, Lock, Discipline
  <2>2. files[TokenOf[c]] <= VersionOf[c]
    BY <2>1 DEF Monotone
  <2>3. files'[t] = IF t = TokenOf[c] THEN VersionOf[c] ELSE files[t]
    BY <1>0, <1>1, <1>3 DEF RecordsRename, Summaries
  <2> QED
    BY <1>1, <2>2, <2>3
<1>4. ASSUME NEW u \in Tokens, RecordsRemoval(c, u)
      PROVE  t \in Kept /\ files[t] <= files'[t]
  <2>1. t # u /\ files'[t] = files[t]
    BY <1>0, <1>1, <1>4 DEF RecordsRemoval, Kept, Summaries
  <2> QED
    BY <1>1, <2>1
<1> QED
  BY <1>2, <1>3, <1>4, StepRecords DEF Records, RecordsSave

(* A save that is to rename its file was to do so before. *)
LEMMA ToRenameFrom ==
  ASSUME Lock, Lock', NEW c \in Calls, Step(c), NEW d \in Calls, ToRename(d)'
  PROVE  ToRename(d)
<1>1. Moves(c)
  BY StepMoves DEF Lock
<1>2. CASE call'[d].pc = "none"
  <2>1. call[d].pc = "none"
    BY <1>1, <1>2 DEF Moves, Locked
  <2> QED
    BY <2>1 DEF ToRename
<1>3. CASE Queued(d)' /\ ~Renamed(d)'
  <2>1. Queued(d)
    <3>1. CASE queue' = queue
      BY <1>3, <3>1 DEF Queued
    <3>2. CASE Release(c)
      BY <1>1, <1>3, <3>2, QueuePops DEF Moves, Lock
    <3> QED
      BY <1>1, <3>1, <3>2 DEF Moves
  <2>2. ~Renamed(d)
    BY <1>3, RenamedUntil
  <2> QED
    BY <2>1, <2>2 DEF ToRename
<1> QED
  BY <1>2, <1>3 DEF ToRename

LEMMA StepMonotone ==
  ASSUME Lock, Lock', InOrder, Monotone, NEW c \in Calls, Step(c)
  PROVE  Monotone'
<1>0. /\ files \in Summaries /\ files' \in Summaries /\ history \in HistoryType
      /\ history.saved \in Summaries /\ history.floor \in [Calls -> Summaries]
  BY DEF Lock, Domains, HistoryType
<1>1. Moves(c) /\ Local(c)
  BY StepMoves, StepPlaces DEF Lock
<1>2. ASSUME NEW d \in Calls, ToRename(d)' PROVE files'[TokenOf[d]] <= VersionOf[d]
  <2>1. ToRename(d) /\ d \in Saves
    BY <1>2, ToRenameFrom DEF ToRename
  <2>2. files[TokenOf[d]] <= VersionOf[d] /\ VersionOf[d] \in Nat /\ TokenOf[d] \in Tokens
    BY <2>1, Numbers, Constants DEF Monotone
  <2>3. CASE files'[TokenOf[d]] = files[TokenOf[d]] \/ files'[TokenOf[d]] = 0
    BY <2>2, <2>3
  <2>4. CASE Rename(c) /\ c \in Saves /\ TokenOf[d] = TokenOf[c]
    <3>1. files'[TokenOf[d]] = VersionOf[c]
      BY <1>0, <2>2, <2>4 DEF Rename, Summaries
    <3>2. CASE d = c
      BY <2>2, <3>1, <3>2
    <3>3. CASE d # c
      BY <2>1, <2>4, <3>1, <3>3, RenamesOldest
    <3> QED
      BY <3>2, <3>3
  <2> QED
    BY <2>2, <2>3, <2>4, FilesShrink
<1>3. ASSUME NEW d \in Calls, Renamed(d)', TokenOf[d] \in Kept'
      PROVE  files'[TokenOf[d]] = VersionOf[d]
  <2>1. d \in Saves /\ TokenOf[d] \in Tokens /\ VersionOf[d] > 0 /\ TokenOf[d] \in Kept
    BY <1>3, FilesGrow, Constants DEF Renamed
  <2>2. CASE d = c /\ Rename(c)
    BY <1>0, <2>1, <2>2 DEF Rename, Summaries
  <2>3. CASE Renamed(d) /\ ~Rename(c)
    <3>1. files[TokenOf[d]] = VersionOf[d]
      BY <2>1, <2>3 DEF Monotone
    <3>2. files'[TokenOf[d]] = files[TokenOf[d]] \/ files'[TokenOf[d]] = 0
      BY <2>1, <2>3, FilesShrink
    <3>3. files[TokenOf[d]] <= files'[TokenOf[d]]
      BY <1>3, FilesGrow
    <3> QED
      BY <2>1, <3>1, <3>2, <3>3, Numbers
  <2>4. CASE Renamed(d) /\ Rename(c)
    <3>1. Holds(d)
      BY <2>4 DEF Renamed, Lock, Discipline, Locked
    <3>2. c \in Saves /\ Holds(c) /\ call[c].pc = "rename"
      BY <2>4 DEF Rename, InLock, Lock, Paths, Place, Saves
    <3>3. TokenOf[d] # TokenOf[c]
      <4>1. d # c
        BY <2>4, <3>2 DEF Renamed
      <4> QED
        BY <2>1, <3>1, <3>2, <4>1, FileAssumption DEF Holds
    <3>4. files'[TokenOf[d]] = files[TokenOf[d]]
      BY <1>0, <2>1, <2>4, <3>3 DEF Rename, Summaries
    <3> QED
      BY <2>1, <2>4, <3>4 DEF Monotone
  <2> QED
    BY <1>3, <2>2, <2>3, <2>4, RenamedFrom
<1>4. ASSUME NEW t \in Kept' PROVE history'.saved[t] <= files'[t]
  <2>1. t \in Kept /\ t \in Tokens /\ files[t] <= files'[t]
    BY <1>4, FilesGrow DEF Kept
  <2>2. files[t] \in Nat /\ files'[t] \in Nat /\ history.saved[t] \in Nat
    BY <1>0, <2>1, Numbers
  <2>3. CASE history'.saved[t] = history.saved[t]
    BY <2>1, <2>2, <2>3 DEF Monotone
  <2>4. CASE RecordsSave(c)
    <3>1. history'.saved[t] = IF t = TokenOf[c] THEN VersionOf[c] ELSE history.saved[t]
      BY <1>0, <2>1, <2>4 DEF RecordsSave, Summaries
    <3>2. t = TokenOf[c] => files[t] = VersionOf[c]
      BY <2>1, <2>4 DEF RecordsSave, Monotone
    <3> QED
      BY <2>1, <2>2, <3>1, <3>2 DEF Monotone
  <2> QED
    BY <2>3, <2>4, StepRecords DEF Records, RecordsRename, RecordsRemoval
<1>5. ASSUME NEW d \in Calls, NEW t \in Kept' PROVE history'.floor[d][t] <= files'[t]
  <2>1. t \in Kept /\ t \in Tokens /\ files[t] <= files'[t] /\ history'.floor = history.floor
    BY <1>1, <1>5, FilesGrow DEF Kept, Local
  <2>2. files[t] \in Nat /\ files'[t] \in Nat /\ history.floor[d][t] \in Nat
    BY <1>0, <2>1, Numbers
  <2> QED
    BY <2>1, <2>2 DEF Monotone
<1> QED
  BY <1>2, <1>3, <1>4, <1>5 DEF Monotone

LEMMA MonotoneStays ==
  ASSUME Monotone, UNCHANGED <<files, history.removed, history.saved>>,
         \A d \in Calls : (ToRename(d)' => ToRename(d)) /\ (Renamed(d)' => Renamed(d)),
         \A d \in Calls, t \in Kept : history'.floor[d][t] <= files[t]
  PROVE  Monotone'
<1>1. Kept' = Kept
  BY DEF Kept
<1>2. ASSUME NEW d \in Calls, ToRename(d)' PROVE files'[TokenOf[d]] <= VersionOf[d]
  BY <1>2 DEF Monotone
<1>3. ASSUME NEW d \in Calls, Renamed(d)', TokenOf[d] \in Kept'
      PROVE  files'[TokenOf[d]] = VersionOf[d]
  BY <1>1, <1>3 DEF Monotone
<1>4. \A t \in Kept' : history'.saved[t] <= files'[t]
  BY <1>1 DEF Monotone
<1>5. \A d \in Calls, t \in Kept' : history'.floor[d][t] <= files'[t]
  BY <1>1
<1> QED
  BY <1>2, <1>3, <1>4, <1>5 DEF Monotone

LEMMA NextMonotone == Lock /\ Lock' /\ InOrder /\ Monotone /\ [Next]_vars => Monotone'
<1> SUFFICES ASSUME Lock, Lock', InOrder, Monotone, [Next]_vars PROVE Monotone'
  OBVIOUS
<1>0. /\ call \in [Calls -> CallType] /\ history \in HistoryType
      /\ history.floor \in [Calls -> Summaries]
  BY DEF Lock, Domains, HistoryType
<1>1. ASSUME NEW c \in Calls, Begin(c) PROVE Monotone'
  <2>1. /\ call[c].pc = "none" /\ call'[c].pc = "start"
        /\ \A d \in Calls \ {c} : call'[d] = call[d]
        /\ UNCHANGED <<files, ready>>
    BY <1>0, <1>1 DEF Begin, Goto, CallType, disk, memory
  <2>2. /\ UNCHANGED <<history.removed, history.saved>>
        /\ \E f \in {history.saved, history.floor[c]} :
             history'.floor = [history.floor EXCEPT ![c] = f]
    <3>1. \E f \in {history.saved, history.floor[c]} : history' = [history EXCEPT !.floor[c] = f]
      BY <1>1 DEF Begin
    <3> QED
      BY <1>0, <3>1 DEF HistoryType
  <2>3. \A d \in Calls, t \in Kept : history'.floor[d][t] <= files[t]
    BY <1>0, <2>2 DEF Monotone
  <2>4. ~Queued(c)
    BY <2>1 DEF Lock, Discipline, InFlight
  <2>5. \A d \in Calls : Queued(d)' => Queued(d) \/ d = c
    BY <1>1, <2>4, QueueGrows DEF Begin, Lock
  <2>6. \A d \in Calls \ {c} : Renamed(d)' <=> Renamed(d)
    BY <2>1 DEF Renamed, Ready
  <2>7. ~Renamed(c)' /\ ~Renamed(c) /\ \A d \in Calls : ToRename(d)' => ToRename(d)
    BY <2>1, <2>5, <2>6 DEF ToRename, Renamed
  <2> QED
    BY <2>1, <2>2, <2>3, <2>6, <2>7, MonotoneStays
<1>2. ASSUME NEW c \in Calls, Step(c) PROVE Monotone'
  BY <1>2, StepMonotone
<1>3. ASSUME NEW r \in reads, ReadProfile(r) PROVE Monotone'
  <2>1. UNCHANGED <<files, history, ready, queue>>
    BY <1>3 DEF ReadProfile, disk
  <2>2. \A d \in Calls : \/ call'[d].pc = call[d].pc
                         \/ call[d].pc = "reading" /\ call'[d].pc = "done"
    BY <1>3, ReadMoves DEF Lock
  <2>3. \A d \in Calls : Renamed(d)' <=> Renamed(d)
    BY <2>1, <2>2 DEF Renamed, Ready
  <2>4. \A d \in Calls : ToRename(d)' => ToRename(d)
    BY <2>1, <2>2, <2>3 DEF ToRename, Queued
  <2> QED
    BY <2>1, <2>3, <2>4, MonotoneStays DEF Monotone
<1>4. ASSUME NEW p \in Processes, Die(p) PROVE Monotone'
  <2>1. /\ call' = [c \in Calls |-> IF ProcessOf[c] = p /\ InFlight(c) THEN At("dead")
                                                                     ELSE call[c]]
        /\ files' = files /\ queue' = [queue EXCEPT ![p] = <<>>]
        /\ history' = [history EXCEPT !.own[p] = {}] /\ ready' = ready \ {p}
    BY <1>4 DEF Die, disk
  <2>2. UNCHANGED <<history.removed, history.saved, history.floor>>
    BY <1>0, <2>1 DEF HistoryType
  <2>3. \A d \in Calls : call'[d] = call[d] \/ call'[d].pc = "dead"
    BY <2>1 DEF At
  <2>4. \A d \in Calls : Renamed(d)' => Renamed(d)
    BY <2>1, <2>3 DEF Renamed, Ready
  <2>5. ASSUME NEW d \in Calls, ToRename(d)' PROVE ToRename(d)
    <3>1. CASE ProcessOf[d] = p
      <4>1. ~Queued(d)'
        BY <2>1, <3>1 DEF Queued, Lock, Domains
      <4> QED
        BY <2>3, <2>5, <4>1 DEF ToRename
    <3>2. CASE ProcessOf[d] # p
      <4>1. call'[d] = call[d] /\ (Queued(d)' <=> Queued(d)) /\ (Ready(d)' <=> Ready(d))
        BY <2>1, <3>2, Constants DEF Queued, Ready, Lock, Domains
      <4> QED
        BY <2>5, <4>1 DEF ToRename, Renamed
    <3> QED
      BY <3>1, <3>2
  <2> QED
    BY <2>1, <2>2, <2>4, <2>5, MonotoneStays DEF Monotone
<1>5. CASE Tick \/ UNCHANGED vars
  <2>1. UNCHANGED <<files, history, ready, queue, call>>
    BY <1>5 DEF Tick, vars, disk, memory
  <2>2. \A d \in Calls : (Renamed(d)' <=> Renamed(d)) /\ (Queued(d)' <=> Queued(d))
    BY <2>1 DEF Renamed, Ready, Queued
  <2>3. \A d \in Calls : ToRename(d)' => ToRename(d)
    BY <2>1, <2>2 DEF ToRename
  <2> QED
    BY <2>1, <2>2, <2>3, MonotoneStays DEF Monotone
<1> QED
  BY <1>1, <1>2, <1>3, <1>4, <1>5, FileAssumption DEF Next

(* A step of a call caches what it saved, with the mtime of the file it renamed. *)
LEMMA CacheFrom ==
  ASSUME Lock, NEW c \in Calls, Step(c), NEW p \in Processes, NEW t \in Tokens
  PROVE  \/ cache'[p][t] \in {cache[p][t], NotCached}
         \/ /\ Stat(c) /\ t = TokenOf[c] /\ files[t] > 0
            /\ cache'[p][t] = [mtime |-> files[t], version |-> VersionOf[c]]
<1> USE DEF memory
<1>0. cache \in [Processes -> [Tokens -> [mtime : Versions, version : Versions]]]
      /\ Local(c)
  BY StepPlaces DEF Lock, Domains
<1> SUFFICES ASSUME p = ProcessOf[c]
             PROVE  \/ cache'[p][t] \in {cache[p][t], NotCached}
                    \/ /\ Stat(c) /\ t = TokenOf[c] /\ files[t] > 0
                       /\ cache'[p][t] = [mtime |-> files[t], version |-> VersionOf[c]]
  BY <1>0 DEF Local
<1>1. CASE \E gone : cache' = [cache EXCEPT ![p] = [u \in Tokens |->
                         IF u \in gone THEN NotCached ELSE cache[p][u]]]
  BY <1>0, <1>1
<1>2. CASE Reconcile(c) \/ Forget(c)
  <2>1. \E gone : Prune(p, gone)
    BY <1>2, Zenon DEF Reconcile, Forget
  <2> QED
    BY <1>1, <2>1 DEF Prune
<1>3. CASE SummarizeLoad(c)
  BY <1>1, <1>3 DEF SummarizeLoad
<1>4. CASE Stat(c)
  <2> DEFINE gone == Victims(Indexed(p))
             cached == IF files[TokenOf[c]] > 0
                       THEN [mtime |-> files[TokenOf[c]], version |-> VersionOf[c]]
                       ELSE cache[p][TokenOf[c]]
  <2>1. cache' = [cache EXCEPT ![p] = [u \in Tokens |->
                    IF u \in gone THEN NotCached ELSE IF u = TokenOf[c] THEN cached
                                                      ELSE cache[p][u]]]
    BY <1>4 DEF Stat
  <2>2. cache'[p][t] = IF t \in gone THEN NotCached ELSE IF t = TokenOf[c] THEN cached
                                                      ELSE cache[p][t]
    BY <1>0, <2>1
  <2> HIDE DEF gone
  <2> QED
    BY <1>4, <2>2
<1>5. CASE Seed(c) \/ Scan(c) \/ SweepTemps(c) \/ Readdir(c) \/ SummarizeRead(c)
  BY <1>5 DEF Seed, Scan, SweepTemps, Readdir, SummarizeRead
<1>6. CASE Write(c) \/ Rename(c) \/ RenameFails(c) \/ Unlink(c) \/ Persist(c)
  BY <1>6 DEF Write, Rename, RenameFails, Unlink, Persist
<1>7. CASE Wipe(c) \/ WipeOne(c) \/ Unseed(c)
  BY <1>7 DEF Wipe, WipeOne, Unseed
<1> QED
  BY <1>2, <1>3, <1>4, <1>5, <1>6, <1>7 DEF Step

LEMMA StepMtimes ==
  ASSUME Lock, Lock', Monotone, MtimesFirst, NEW c \in Calls, Step(c)
  PROVE  MtimesFirst'
<1>0. files \in Summaries /\ files' \in Summaries /\ reads \in SUBSET ReadType
  BY DEF Lock, Domains
<1>1. StartsReads(c) /\ Local(c)
  BY StepMoves, StepPlaces DEF Lock
<1>2. ASSUME NEW p \in Processes, NEW t \in Kept'
      PROVE  cache'[p][t].mtime <= cache'[p][t].version
  <2>1. t \in Kept /\ t \in Tokens
    BY <1>2, FilesGrow DEF Kept
  <2>2. CASE cache'[p][t] = cache[p][t]
    BY <2>1, <2>2 DEF MtimesFirst
  <2>3. CASE cache'[p][t] = NotCached
    BY <2>3 DEF NotCached
  <2>4. CASE /\ Stat(c) /\ t = TokenOf[c]
             /\ cache'[p][t] = [mtime |-> files[t], version |-> VersionOf[c]]
    <3>1. Renamed(c)
      BY <2>4 DEF Stat, InLock, Renamed, Lock, Paths, Place, Saves
    <3>2. files[t] = VersionOf[c] /\ files[t] \in Nat
      BY <1>0, <2>1, <2>4, <3>1, Numbers DEF Monotone
    <3> QED
      BY <2>4, <3>2
  <2> QED
    BY <2>1, <2>2, <2>3, <2>4, CacheFrom
<1>3. ASSUME NEW r \in reads', r.token \in Kept'
      PROVE  /\ r.at = "read" => r.mtime <= files'[r.token]
             /\ r.at = "parse" => /\ r.mtime <= r.version
                                  /\ history'.floor[r.call][r.token] <= r.version
  <2>1. CASE r \notin reads
    BY <1>1, <2>1 DEF StartsReads
  <2>2. CASE r \in reads
    <3>1. /\ r.token \in Kept /\ r.token \in Tokens /\ files[r.token] <= files'[r.token]
          /\ r.mtime \in Versions
      BY <1>0, <1>3, <2>2, FilesGrow DEF Kept, ReadType
    <3>2. files[r.token] \in Nat /\ files'[r.token] \in Nat /\ r.mtime \in Nat
      BY <1>0, <3>1, Numbers, Constants
    <3>3. /\ r.at = "read" => r.mtime <= files[r.token]
          /\ r.at = "parse" => r.mtime <= r.version
                               /\ history.floor[r.call][r.token] <= r.version
      BY <2>2, <3>1 DEF MtimesFirst
    <3> QED
      BY <1>1, <3>1, <3>2, <3>3 DEF Local
  <2> QED
    BY <2>1, <2>2
<1> QED
  BY <1>2, <1>3 DEF MtimesFirst

(* The version of a file that a read has of it: its content is read after its mtime. *)
LEMMA ReadMtimes ==
  ASSUME Lock, Monotone, MtimesFirst, NEW r \in reads, ReadProfile(r)
  PROVE  MtimesFirst'
<1>0. /\ files \in Summaries /\ r \in ReadType /\ r.call \in Calls /\ r.token \in Tokens
      /\ cache \in [Processes -> [Tokens -> [mtime : Versions, version : Versions]]]
      /\ ProcessOf[r.call] \in Processes
  BY Constants DEF Lock, Domains, ReadType
<1>1. UNCHANGED <<files, history>> /\ Kept' = Kept
  BY DEF ReadProfile, disk, Kept
<1>2. ASSUME NEW entry, cache' = [cache EXCEPT ![ProcessOf[r.call]][r.token] = entry],
             r.token \in Kept => entry.mtime <= entry.version
      PROVE  \A p \in Processes, t \in Kept : cache'[p][t].mtime <= cache'[p][t].version
  <2> SUFFICES ASSUME NEW p \in Processes, NEW t \in Kept
               PROVE  cache'[p][t].mtime <= cache'[p][t].version
    OBVIOUS
  <2>1. cache'[p][t] = IF p = ProcessOf[r.call] /\ t = r.token THEN entry ELSE cache[p][t]
    BY <1>0, <1>2 DEF Kept
  <2> QED
    BY <1>2, <2>1 DEF MtimesFirst
<1>3. ASSUME NEW s, reads' \subseteq reads \cup {s},
             s.token \in Kept =>
               /\ s.at = "read" => s.mtime <= files[s.token]
               /\ s.at = "parse" => s.mtime <= s.version
                                    /\ history.floor[s.call][s.token] <= s.version,
             \A p \in Processes, t \in Kept : cache'[p][t].mtime <= cache'[p][t].version
      PROVE  MtimesFirst'
  BY <1>1, <1>3 DEF MtimesFirst
<1>4. CASE Missing(r)
  <2>1. /\ cache' = [cache EXCEPT ![ProcessOf[r.call]][r.token] = NotCached]
        /\ reads' = reads \ {r}
    BY <1>4 DEF Missing, Cache, Answer
  <2>2. NotCached.mtime <= NotCached.version
    BY DEF NotCached
  <2>3. \A p \in Processes, t \in Kept : cache'[p][t].mtime <= cache'[p][t].version
    BY <1>2, <2>1, <2>2
  <2> QED
    BY <1>3, <2>1, <2>3 DEF MtimesFirst
<1>5. CASE StatFile(r)
  <2>1. PICK s : s = [r EXCEPT !.at = "read", !.mtime = files[r.token]]
    OBVIOUS
  <2>2. s.at = "read" /\ s.mtime = files[s.token] /\ files[s.token] \in Nat
    BY <1>0, <2>1, Numbers DEF ReadType
  <2>3. reads' \subseteq reads \cup {s} /\ cache' = cache
    BY <1>5, <2>1 DEF StatFile, Answer, Advance
  <2>4. \A p \in Processes, t \in Kept : cache'[p][t].mtime <= cache'[p][t].version
    BY <2>3 DEF MtimesFirst
  <2> QED
    BY <1>3, <2>2, <2>3, <2>4
<1>6. CASE ReadFile(r)
  <2>1. PICK s : s = [r EXCEPT !.at = "parse", !.version = files[r.token]]
    OBVIOUS
  <2>2. /\ s.at = "parse" /\ s.version = files[s.token] /\ s.mtime = r.mtime
        /\ s.token = r.token /\ s.call = r.call
    BY <1>0, <2>1 DEF ReadType
  <2>3. reads' \subseteq reads \cup {s} /\ cache' = cache /\ r.at = "read"
    BY <1>6, <2>1 DEF ReadFile, Advance
  <2>4. \A p \in Processes, t \in Kept : cache'[p][t].mtime <= cache'[p][t].version
    BY <2>3 DEF MtimesFirst
  <2>5. r.token \in Kept => /\ r.mtime <= files[r.token]
                            /\ history.floor[r.call][r.token] <= files[r.token]
    BY <1>0, <2>3 DEF MtimesFirst, Monotone
  <2> QED
    BY <1>3, <2>2, <2>3, <2>4, <2>5
<1>7. CASE Parse(r)
  <2>1. PICK entry : entry = [mtime |-> r.mtime, version |-> r.version]
    OBVIOUS
  <2>2. cache' = [cache EXCEPT ![ProcessOf[r.call]][r.token] = entry] /\ r.at = "parse"
        /\ reads' \subseteq reads
    BY <1>7, <2>1 DEF Parse, Cache, Answer
  <2>3. r.token \in Kept => entry.mtime <= entry.version
    BY <2>1, <2>2 DEF MtimesFirst
  <2> QED
    BY <1>2, <1>3, <2>2, <2>3 DEF MtimesFirst
<1> QED
  BY <1>4, <1>5, <1>6, <1>7 DEF ReadProfile

LEMMA NextMtimes ==
  Lock /\ Lock' /\ Monotone /\ MtimesFirst /\ [Next]_vars => MtimesFirst'
<1> SUFFICES ASSUME Lock, Lock', Monotone, MtimesFirst, [Next]_vars PROVE MtimesFirst'
  OBVIOUS
<1>0. /\ history \in HistoryType /\ history.floor \in [Calls -> Summaries]
      /\ call \in [Calls -> CallType]
  BY DEF Lock, Domains, HistoryType
<1>1. ASSUME NEW c \in Calls, Begin(c) PROVE MtimesFirst'
  <2>1. /\ UNCHANGED <<files, reads, cache, history.removed>>
        /\ \A d \in Calls \ {c} : history'.floor[d] = history.floor[d]
    <3>1. \E f : history' = [history EXCEPT !.floor[c] = f]
      BY <1>1 DEF Begin
    <3>2. UNCHANGED <<files, reads, cache>>
      BY <1>1 DEF Begin, disk, memory
    <3> QED
      BY <1>0, <3>1, <3>2 DEF HistoryType
  <2>2. \A r \in reads : r.call \in Calls \ {c}
    BY <1>1 DEF Begin, Lock, Discipline, Domains, ReadType
  <2> QED
    BY <2>1, <2>2 DEF MtimesFirst, Kept
<1>2. ASSUME NEW p \in Processes, Die(p) PROVE MtimesFirst'
  <2>1. /\ reads' \subseteq reads /\ files' = files
        /\ history' = [history EXCEPT !.own[p] = {}]
        /\ \A q \in Processes \ {p} : cache'[q] = cache[q]
        /\ cache' = [cache EXCEPT ![p] = [t \in Tokens |-> IF t \in Tokens THEN NotCached
                                                                           ELSE cache[p][t]]]
    BY <1>2, PruneLocal DEF Die, disk, Prune, Lock
  <2>2. UNCHANGED <<history.removed, history.floor>>
    BY <1>0, <2>1 DEF HistoryType
  <2>3. \A t \in Tokens : cache'[p][t] = NotCached
    BY <2>1 DEF Lock, Domains
  <2>4. \A q \in Processes, t \in Kept' : cache'[q][t].mtime <= cache'[q][t].version
    <3> SUFFICES ASSUME NEW q \in Processes, NEW t \in Kept'
                 PROVE  cache'[q][t].mtime <= cache'[q][t].version
      OBVIOUS
    <3>1. t \in Kept /\ t \in Tokens
      BY <2>2 DEF Kept
    <3>2. CASE q = p
      BY <2>3, <3>1, <3>2 DEF NotCached
    <3>3. CASE q # p
      BY <2>1, <3>1, <3>3 DEF MtimesFirst
    <3> QED
      BY <3>2, <3>3
  <2> QED
    BY <2>1, <2>2, <2>4 DEF MtimesFirst, Kept
<1>3. CASE Tick \/ UNCHANGED vars
  <2>1. UNCHANGED <<files, reads, cache, history>>
    BY <1>3 DEF Tick, vars, disk, memory
  <2> QED
    BY <2>1 DEF MtimesFirst, Kept
<1> QED
  BY <1>1, <1>2, <1>3, StepMtimes, ReadMtimes, FileAssumption DEF Next

(* What a read wants was wanted when it began, and is there. *)
LEMMA WantedIsThere ==
  ASSUME Lock, Monotone, NEW c \in Calls, NEW t \in Tokens, Wanted(c, t)
  PROVE  /\ Kind[c] = "read" /\ t \in Kept /\ t \notin Expired
         /\ history.floor[c][t] \in Nat /\ history.floor[c][t] > 0
         /\ files[t] \in Nat /\ history.floor[c][t] <= files[t] /\ files[t] > 0
<1>1. files \in Summaries /\ history.floor \in [Calls -> Summaries]
  BY DEF Lock, Domains, HistoryType
<1>2. files[t] \in Nat /\ history.floor[c][t] \in Nat
  BY <1>1, Numbers
<1>3. history.floor[c][t] <= files[t] /\ history.floor[c][t] > 0
  BY DEF Wanted, Monotone
<1> QED
  BY <1>2, <1>3 DEF Wanted

LEMMA WantedFrom ==
  ASSUME Lock, NEW c \in Calls, Step(c), NEW d \in Calls, NEW t \in Tokens, Wanted(d, t)'
  PROVE  Wanted(d, t)
<1>1. Local(c)
  BY StepPlaces DEF Lock
<1> QED
  BY <1>1, Grows DEF Wanted, Local, Kept, Expired

LEMMA ReadAllPending ==
  ASSUME NEW c, NEW tokens, NEW t \in tokens, ReadAll(c, tokens)
  PROVE  Pending(c, t)'
<1> DEFINE r == [call |-> c, token |-> t, at |-> "stat", mtime |-> 0, version |-> 0]
<1>1. r \in reads'
  BY DEF ReadAll
<1>2. r.call = c /\ r.token = t
  OBVIOUS
<1> HIDE DEF r
<1> QED
  BY <1>1, <1>2 DEF Pending

(* A read that lists the index reads what it wants. *)
LEMMA ListSeeks ==
  ASSUME Lock, Monotone, NEW c \in Calls, NEW t \in Tokens, Wanted(c, t),
         NEW summaries, summaries[t] > 0, List(c, summaries)
  PROVE  call'[c].pc = "reading" /\ Pending(c, t)'
<1> DEFINE valid == {u \in Tokens : summaries[u] > 0} \ Expired
<1>1. t \in valid
  BY WantedIsThere
<1>2. call' = [call EXCEPT ![c] = At(IF valid = {} THEN "done" ELSE "reading")]
      /\ ReadAll(c, valid)
  BY DEF List
<1> HIDE DEF valid
<1>3. call'[c].pc = "reading"
  BY <1>1, <1>2 DEF At, Lock, Domains
<1>4. Pending(c, t)'
  BY <1>1, <1>2, ReadAllPending
<1> QED
  BY <1>3, <1>4

(* The read that steps *)
LEMMA SeekerSteps ==
  ASSUME Lock, Lock', Monotone, ReadsSought, NEW c \in Calls, Step(c),
         NEW t \in Tokens, Wanted(c, t)
  PROVE  Sought(c, t)'
<1> USE DEF InLock
<1>0. /\ call \in [Calls -> CallType] /\ index \in [Processes -> Summaries]
      /\ ProcessOf[c] \in Processes /\ Place(c) /\ Sought(c, t) /\ Kind[c] = "read"
  BY Constants, WantedIsThere DEF Lock, Domains, Paths, ReadsSought
<1>1. CASE Seed(c) \/ Scan(c) \/ SweepTemps(c)
  <2>1. call'[c].pc \in {"scan", "sweep", "reconcile"} /\ ready' = ready /\ ~Ready(c)
    BY <1>0, <1>1 DEF Seed, Goto, Scan, SweepTemps, CallType, Place, Ready, memory
  <2> QED
    BY <2>1 DEF Sought, Ready
<1>2. CASE Readdir(c)
  <2>1. call'[c].pc = "reconcile" /\ call'[c].tokens = OnDisk
    BY <1>0, <1>2 DEF Readdir, CallType
  <2>2. t \in OnDisk
    BY WantedIsThere DEF OnDisk
  <2> QED
    BY <2>1, <2>2 DEF Sought
<1>3. CASE Reconcile(c)
  <2>1. call'[c].pc = "summarize" /\ call[c].pc = "reconcile" /\ ready' = ready
        /\ ReadAll(c, call[c].tokens \ Indexed(ProcessOf[c]))
        /\ Prune(ProcessOf[c], Indexed(ProcessOf[c]) \ call[c].tokens)
    BY <1>0, <1>3 DEF Reconcile, CallType
  <2> SUFFICES ASSUME Ready(c)' PROVE index'[ProcessOf[c]][t] > 0 \/ Pending(c, t)'
    BY <2>1 DEF Sought
  <2>2. t \in call[c].tokens
    BY <1>0, <2>1 DEF Sought, Ready
  <2>3. CASE t \in Indexed(ProcessOf[c])
    <3>1. index'[ProcessOf[c]][t] = index[ProcessOf[c]][t]
      BY <1>0, <2>1, <2>2, <2>3 DEF Prune
    <3> QED
      BY <2>3, <3>1 DEF Indexed
  <2>4. CASE t \notin Indexed(ProcessOf[c])
    BY <2>1, <2>2, <2>4, ReadAllPending
  <2> QED
    BY <2>3, <2>4
<1>4. CASE SummarizeRead(c)
  <2>1. Ready(c) /\ ~Pending(c, t) /\ call[c].pc = "summarize"
    BY <1>4 DEF SummarizeRead, Ready, Reading, Pending
  <2>2. index[ProcessOf[c]][t] > 0 \/ call[c].got[t] > 0
    BY <1>0, <2>1 DEF Sought
  <2>3. Extended(c)[t] > 0
    BY <2>2 DEF Extended, Found
  <2>4. CASE call' = [call EXCEPT ![c] = At("persist")]
    <3>1. call'[c].pc = "persist" /\ index'[ProcessOf[c]] = Extended(c)
      BY <1>0, <1>4, <2>4 DEF SummarizeRead, At
    <3> QED
      BY <2>3, <3>1 DEF Sought
  <2>5. CASE List(c, Extended(c))
    BY <2>3, <2>5, ListSeeks DEF Sought
  <2> QED
    BY <1>4, <2>4, <2>5 DEF SummarizeRead
<1>5. CASE SummarizeLoad(c)
  <2>1. \/ call'[c].pc \in {"unlink", "persist"} /\ ready' = ready
        \/ call'[c] = At("start")
    BY <1>0, <1>5 DEF SummarizeLoad, At
  <2>2. ~Ready(c)
    BY <1>5 DEF SummarizeLoad, Ready
  <2> QED
    BY <2>1, <2>2 DEF Sought, Ready, At
<1>6. CASE Write(c) \/ Rename(c) \/ Stat(c)
  BY <1>0, <1>6 DEF Write, Rename, Stat, Place
<1>7. CASE RenameFails(c)
  BY <1>0, <1>7 DEF RenameFails, Place
<1>8. CASE Unlink(c)
  <2>1. ~Ready(c) /\ ready' = ready /\ call'[c].pc \in {"unlink", "persist"}
    BY <1>0, <1>8 DEF Unlink, Place, CallType, memory
  <2> QED
    BY <2>1 DEF Sought, Ready
<1>9. CASE Persist(c)
  <2>1. CASE ~Ready(c)
    <3>1. call'[c].pc = "start"
      BY <1>0, <1>9, <2>1 DEF Persist, Continue, Ready, At
    <3> QED
      BY <3>1 DEF Sought
  <2>2. CASE Ready(c)
    <3>1. List(c, index[ProcessOf[c]]) /\ call[c].pc = "persist"
      BY <1>0, <1>9, <2>2 DEF Persist, Continue, Ready
    <3>2. index[ProcessOf[c]][t] > 0
      BY <1>0, <2>2, <3>1 DEF Sought
    <3> QED
      BY <3>1, <3>2, ListSeeks DEF Sought
  <2> QED
    BY <2>1, <2>2
<1>10. CASE Wipe(c) \/ WipeOne(c) \/ Forget(c) \/ Unseed(c)
  BY <1>0, <1>10 DEF Wipe, WipeOne, Forget, Unseed, Place
<1> QED
  BY <1>1, <1>2, <1>3, <1>4, <1>5, <1>6, <1>7, <1>8, <1>9, <1>10 DEF Step

LEMMA StepSought ==
  ASSUME Lock, Lock', Monotone, ReadsSought, NEW c \in Calls, Step(c)
  PROVE  ReadsSought'
<1>1. Moves(c) /\ StartsReads(c) /\ Local(c)
  BY StepMoves, StepPlaces DEF Lock
<1> SUFFICES ASSUME NEW d \in Calls, NEW t \in Tokens, Wanted(d, t)' PROVE Sought(d, t)'
  BY DEF ReadsSought
<1>2. Wanted(d, t) /\ Sought(d, t)
  BY WantedFrom DEF ReadsSought
<1>3. CASE d = c
  BY <1>2, <1>3, SeekerSteps
<1>4. CASE d # c
  <2>1. call'[d] = call[d] /\ history'.floor = history.floor /\ (Pending(d, t) => Pending(d, t)')
    BY <1>1, <1>4 DEF Moves, StartsReads, Local, Pending
  <2>2. CASE ProcessOf[d] = ProcessOf[c]
    <3>1. call[d].pc \notin Locked
      BY <1>1, <1>4, <2>2, OthersWait
    <3> QED
      BY <1>2, <2>1, <3>1 DEF Sought, Locked
  <2>3. CASE ProcessOf[d] # ProcessOf[c]
    <3>1. index'[ProcessOf[d]] = index[ProcessOf[d]] /\ (Ready(d)' <=> Ready(d))
      BY <1>1, <2>3, Constants DEF Local, Ready
    <3> QED
      BY <1>2, <2>1, <3>1 DEF Sought
  <2> QED
    BY <2>2, <2>3
<1> QED
  BY <1>3, <1>4

(* The answer of a wanted file is what was saved before the read began, or later. *)
LEMMA AnswersWanted ==
  ASSUME Lock, Monotone, MtimesFirst, NEW r \in reads, ReadProfile(r),
         Wanted(r.call, r.token)
  PROVE  \/ \E s \in ReadType : Advance(r, s) /\ s.call = r.call /\ s.token = r.token
         \/ \E v \in Nat : Answer(r, v) /\ v >= history.floor[r.call][r.token]
<1>0. /\ r.call \in Calls /\ r.token \in Tokens /\ ProcessOf[r.call] \in Processes
      /\ cache \in [Processes -> [Tokens -> [mtime : Versions, version : Versions]]]
      /\ files \in Summaries /\ r \in ReadType
  BY Constants DEF Lock, Domains, ReadType
<1> PICK c \in Calls, t \in Tokens : c = r.call /\ t = r.token
  BY <1>0
<1> PICK floor : floor = history.floor[c][t]
  OBVIOUS
<1>1. /\ t \in Kept /\ floor \in Nat /\ files[t] \in Nat /\ floor <= files[t] /\ files[t] > 0
  BY WantedIsThere
<1>2. \A v \in Versions : v \in Nat
  BY Constants
<1>3. CASE Missing(r)
  BY <1>1, <1>3 DEF Missing
<1>4. CASE StatFile(r)
  <2> PICK hit : hit = cache[ProcessOf[c]][t]
    OBVIOUS
  <2>1. CASE hit.mtime = files[t]
    <3>1. Answer(r, hit.version)
      BY <1>4, <2>1 DEF StatFile
    <3>2. hit.mtime <= hit.version /\ hit.version \in Nat
      BY <1>0, <1>1, <1>2 DEF MtimesFirst
    <3>3. hit.version >= floor
      BY <1>1, <2>1, <3>2
    <3> QED
      BY <3>1, <3>2, <3>3
  <2>2. CASE hit.mtime # files[t]
    <3> DEFINE s == [r EXCEPT !.at = "read", !.mtime = files[r.token]]
    <3>1. Advance(r, s)
      BY <1>4, <2>2 DEF StatFile
    <3>2. s \in ReadType /\ s.call = r.call /\ s.token = r.token
      BY <1>0 DEF ReadType, Summaries
    <3> QED
      BY <3>1, <3>2
  <2> QED
    BY <2>1, <2>2
<1>5. CASE ReadFile(r)
  <2> DEFINE s == [r EXCEPT !.at = "parse", !.version = files[r.token]]
  <2>1. Advance(r, s)
    BY <1>5 DEF ReadFile
  <2>2. s \in ReadType /\ s.call = r.call /\ s.token = r.token
    BY <1>0 DEF ReadType, Summaries
  <2> QED
    BY <2>1, <2>2
<1>6. CASE Parse(r)
  <2>1. r.version >= floor /\ r.version \in Nat
    BY <1>0, <1>1, <1>2, <1>6 DEF Parse, MtimesFirst, ReadType
  <2> QED
    BY <1>6, <2>1 DEF Parse
<1> QED
  BY <1>3, <1>4, <1>5, <1>6 DEF ReadProfile

(* One answer, of this profile or another, to the read *)
LEMMA AnswerSought ==
  ASSUME Lock, NEW r \in reads, NEW v \in Nat, Answer(r, v), NEW t \in Tokens,
         Wanted(r.call, t), Sought(r.call, t), UNCHANGED <<index, ready, history.floor>>,
         history.floor[r.call][t] \in Nat, history.floor[r.call][t] > 0,
         r.token = t => v >= history.floor[r.call][t]
  PROVE  Sought(r.call, t)'
<1>0. /\ call \in [Calls -> CallType] /\ r.call \in Calls /\ r.token \in Tokens
      /\ call[r.call].pc \in {"summarize", "reading"}
  BY DEF Lock, Domains, ReadType, Discipline
<1> PICK c \in Calls : c = r.call
  BY <1>0
<1> PICK floor \in Nat : floor = history.floor[c][t] /\ floor > 0
  OBVIOUS
<1> DEFINE last == \A s \in reads \ {r} : s.call # c
           pc == IF call[c].pc = "reading" /\ last THEN "done" ELSE call[c].pc
<1>1. call' = [call EXCEPT ![c].got[r.token] = v, ![c].pc = pc] /\ reads' = reads \ {r}
  BY <1>0 DEF Answer, CallType
<1>2. call'[c].pc = pc /\ call'[c].got[t] = IF t = r.token THEN v ELSE call[c].got[t]
  BY <1>0, <1>1 DEF CallType, Summaries
<1>3. r.token # t /\ Pending(c, t) => Pending(c, t)'
  BY <1>1 DEF Pending
<1>4. last /\ r.token # t => ~Pending(c, t)
  BY DEF Pending
<1>5. r.token = t => call'[c].got[t] >= floor /\ call'[c].got[t] > 0
  BY <1>2
<1>6. CASE call[c].pc = "summarize"
  BY <1>2, <1>3, <1>5, <1>6 DEF Sought, Ready
<1>7. CASE call[c].pc = "reading"
  <2>1. call[c].got[t] >= floor \/ Pending(c, t)
    BY <1>7 DEF Sought
  <2>2. call'[c].got[t] >= floor \/ (Pending(c, t)' /\ ~last)
    BY <1>2, <1>3, <1>4, <1>5, <2>1
  <2>3. (last => call'[c].pc = "done") /\ (~last => call'[c].pc = "reading")
    BY <1>2, <1>7
  <2> HIDE DEF last, pc
  <2> QED
    BY <2>2, <2>3 DEF Sought
<1> QED
  BY <1>0, <1>6, <1>7

LEMMA ReadSought ==
  ASSUME Lock, Lock', Monotone, MtimesFirst, ReadsSought, NEW r \in reads, ReadProfile(r)
  PROVE  ReadsSought'
<1>0. UNCHANGED <<index, ready, files, horizon, history>>
  BY DEF ReadProfile, disk
<1>1. r.call \in Calls /\ r.token \in Tokens
  BY DEF Lock, Domains, ReadType
<1> SUFFICES ASSUME NEW c \in Calls, NEW t \in Tokens, Wanted(c, t) PROVE Sought(c, t)'
  BY <1>0 DEF ReadsSought, Wanted, Kept, Expired
<1>2. Sought(c, t) /\ history.floor[c][t] \in Nat /\ history.floor[c][t] > 0
  BY WantedIsThere DEF ReadsSought
<1>3. ASSUME NEW s \in ReadType, Advance(r, s), s.call = r.call, s.token = r.token
      PROVE  Sought(c, t)'
  <2>1. call' = call /\ (Pending(c, t) => Pending(c, t)')
    BY <1>3 DEF Advance, Pending
  <2> QED
    BY <1>0, <1>2, <2>1 DEF Sought, Ready
<1>4. CASE c # r.call
  <2>1. call'[c] = call[c]
    BY <1>4, ReadMoves DEF Lock
  <2>2. Pending(c, t) => Pending(c, t)'
    <3>1. \A s \in reads : s.call # r.call => s \in reads'
      BY DEF ReadProfile, Missing, StatFile, ReadFile, Parse, Answer, Advance
    <3> QED
      BY <1>4, <3>1 DEF Pending
  <2> QED
    BY <1>0, <1>2, <2>1, <2>2 DEF Sought, Ready
<1>5. CASE c = r.call /\ t = r.token
  BY <1>0, <1>2, <1>3, <1>5, AnswersWanted, AnswerSought
<1>6. CASE c = r.call /\ t # r.token
  <2>1. \/ \E v \in Nat : Answer(r, v)
        \/ \E s \in ReadType : Advance(r, s) /\ s.call = r.call /\ s.token = r.token
    <3>1. /\ cache \in [Processes -> [Tokens -> [mtime : Versions, version : Versions]]]
          /\ files \in Summaries /\ r \in ReadType /\ ProcessOf[r.call] \in Processes
      BY <1>1, Constants DEF Lock, Domains
    <3>2. \A v \in Versions : v \in Nat
      BY Constants
    <3>3. CASE Missing(r)
      BY <3>3 DEF Missing
    <3>4. CASE Parse(r)
      BY <3>1, <3>2, <3>4 DEF Parse, ReadType
    <3>5. CASE StatFile(r)
      <4>1. CASE Answer(r, cache[ProcessOf[r.call]][r.token].version)
        BY <1>1, <3>1, <3>2, <4>1
      <4>2. CASE Advance(r, [r EXCEPT !.at = "read", !.mtime = files[r.token]])
        <5> DEFINE s == [r EXCEPT !.at = "read", !.mtime = files[r.token]]
        <5>1. s \in ReadType /\ s.call = r.call /\ s.token = r.token
          BY <1>1, <3>1 DEF ReadType, Summaries
        <5> QED
          BY <4>2, <5>1
      <4> QED
        BY <3>5, <4>1, <4>2 DEF StatFile
    <3>6. CASE ReadFile(r)
      <4> DEFINE s == [r EXCEPT !.at = "parse", !.version = files[r.token]]
      <4>1. s \in ReadType /\ s.call = r.call /\ s.token = r.token
        BY <1>1, <3>1 DEF ReadType, Summaries
      <4> QED
        BY <3>6, <4>1 DEF ReadFile
    <3> QED
      BY <3>3, <3>4, <3>5, <3>6 DEF ReadProfile
  <2> QED
    BY <1>0, <1>2, <1>3, <1>6, <2>1, AnswerSought
<1> QED
  BY <1>4, <1>5, <1>6

LEMMA NextSought ==
  Lock /\ Lock' /\ Monotone /\ MtimesFirst /\ ReadsSought /\ [Next]_vars => ReadsSought'
<1> SUFFICES ASSUME Lock, Lock', Monotone, MtimesFirst, ReadsSought, [Next]_vars
             PROVE  ReadsSought'
  OBVIOUS
<1>0. history \in HistoryType /\ call \in [Calls -> CallType] /\ horizon \in Nat
  BY DEF Lock, Domains
<1>1. ASSUME NEW c \in Calls, Begin(c) PROVE ReadsSought'
  <2>1. /\ call'[c].pc = "start" /\ \A d \in Calls \ {c} : call'[d] = call[d]
        /\ UNCHANGED <<index, ready, reads, horizon>>
    BY <1>0, <1>1 DEF Begin, Goto, CallType, memory
  <2>2. /\ \A d \in Calls \ {c} : history'.floor[d] = history.floor[d]
        /\ history'.removed = history.removed
    <3>1. \E f : history' = [history EXCEPT !.floor[c] = f]
      BY <1>1 DEF Begin
    <3> QED
      BY <1>0, <3>1 DEF HistoryType
  <2>3. ASSUME NEW d \in Calls \ {c}, NEW t \in Tokens, Wanted(d, t)' PROVE Sought(d, t)'
    <3>1. Wanted(d, t)
      BY <2>1, <2>2, <2>3 DEF Wanted, Kept, Expired
    <3> QED
      BY <2>1, <2>2, <3>1 DEF ReadsSought, Sought, Pending, Ready
  <2>4. \A t \in Tokens : Sought(c, t)'
    BY <2>1 DEF Sought
  <2> QED
    BY <2>3, <2>4 DEF ReadsSought
<1>2. ASSUME NEW p \in Processes, Die(p) PROVE ReadsSought'
  <2>1. /\ call' = [c \in Calls |-> IF ProcessOf[c] = p /\ InFlight(c) THEN At("dead")
                                                                     ELSE call[c]]
        /\ reads' = {r \in reads : ~(r.call \in Calls /\ ProcessOf[r.call] = p /\ InFlight(r.call))}
        /\ history' = [history EXCEPT !.own[p] = {}] /\ horizon' = horizon
        /\ ready' = ready \ {p}
        /\ \A q \in Processes \ {p} : index'[q] = index[q]
    BY <1>2, PruneLocal DEF Die, Lock
  <2>2. UNCHANGED <<history.removed, history.floor>>
    BY <1>0, <2>1 DEF HistoryType
  <2> SUFFICES ASSUME NEW d \in Calls, NEW t \in Tokens, Wanted(d, t)' PROVE Sought(d, t)'
    BY DEF ReadsSought
  <2>3. Wanted(d, t) /\ Sought(d, t)
    BY <2>1, <2>2 DEF Wanted, Kept, Expired, ReadsSought
  <2>4. CASE ProcessOf[d] = p /\ InFlight(d)
    <3>1. call'[d].pc = "dead"
      BY <2>1, <2>4 DEF At
    <3> QED
      BY <3>1 DEF Sought
  <2>5. CASE ProcessOf[d] = p /\ ~InFlight(d)
    BY <2>1, <2>2, <2>3, <2>5 DEF Sought, InFlight
  <2>6. CASE ProcessOf[d] # p
    <3>1. /\ call'[d] = call[d] /\ (Ready(d)' <=> Ready(d)) /\ (Pending(d, t) => Pending(d, t)')
          /\ index'[ProcessOf[d]] = index[ProcessOf[d]]
      BY <2>1, <2>6, Constants DEF Ready, Pending
    <3> QED
      BY <2>2, <2>3, <3>1 DEF Sought
  <2> QED
    BY <2>4, <2>5, <2>6
<1>3. CASE Tick \/ UNCHANGED vars
  <2>1. UNCHANGED <<index, ready, reads, call, history>> /\ horizon' \in {horizon, horizon + 1}
    BY <1>3 DEF Tick, vars, disk, memory
  <2>2. \A t \in Tokens : t \in Expired => t \in Expired'
    BY <1>0, <2>1, FileAssumption DEF Expired
  <2>3. ASSUME NEW d \in Calls, NEW t \in Tokens, Wanted(d, t)' PROVE Sought(d, t)'
    <3>1. Wanted(d, t)
      BY <2>1, <2>2, <2>3 DEF Wanted, Kept
    <3> QED
      BY <2>1, <3>1 DEF ReadsSought, Sought, Pending, Ready
  <2> QED
    BY <2>3 DEF ReadsSought
<1> QED
  BY <1>1, <1>2, <1>3, StepSought, ReadSought, FileAssumption DEF Next

(* A read returns every profile saved before it began, by any process and in that  *)
(* state or a later one, unless its file was removed or it has expired.            *)
THEOREM ReadsAreFresh == Spec => []ReadsSeeSaves
<1>1. Init => InOrder /\ Monotone /\ MtimesFirst /\ ReadsSought
  <2> SUFFICES ASSUME Init PROVE InOrder /\ Monotone /\ MtimesFirst /\ ReadsSought
    OBVIOUS
  <2>1. /\ call = [c \in Calls |-> At("none")] /\ queue = [p \in Processes |-> <<>>]
        /\ files = Nothing /\ reads = {} /\ history.saved = Nothing
        /\ history.floor = [c \in Calls |-> Nothing]
        /\ cache = [p \in Processes |-> [t \in Tokens |-> NotCached]]
    BY DEF Init
  <2>2. \A c \in Calls : call[c].pc = "none"
    BY <2>1 DEF At
  <2>3. InOrder
    BY <2>1, <2>2, Constants DEF InOrder
  <2>4. Monotone
    <3>1. \A c \in Saves : TokenOf[c] \in Tokens /\ 0 <= VersionOf[c]
      BY Constants, Numbers
    <3> QED
      BY <2>1, <2>2, <3>1 DEF Monotone, ToRename, Renamed, Kept, Nothing
  <2>5. MtimesFirst
    BY <2>1 DEF MtimesFirst, NotCached, Kept
  <2>6. ReadsSought
    BY <2>2 DEF ReadsSought, Sought
  <2> QED
    BY <2>3, <2>4, <2>5, <2>6
<1>2. Lock /\ ReadsSought => ReadsSeeSaves
  <2> SUFFICES ASSUME Lock, ReadsSought, NEW c \in Calls, Kind[c] = "read",
                      call[c].pc = "done", NEW t \in Tokens \ (history.removed \cup Expired)
               PROVE  call[c].got[t] >= history.floor[c][t]
    BY DEF ReadsSeeSaves
  <2>1. call[c].got[t] \in Nat /\ history.floor[c][t] \in Nat
    <3>1. call[c].got \in Summaries /\ history.floor[c] \in Summaries
      BY DEF Lock, Domains, CallType, HistoryType
    <3> QED
      BY <3>1, Numbers
  <2>2. history.floor[c][t] > 0 => Sought(c, t)
    BY DEF ReadsSought, Wanted, Kept
  <2> QED
    BY <2>1, <2>2 DEF Sought
<1> QED
  BY <1>1, <1>2, LockHeld, NextOrder, NextMonotone, NextMtimes, NextSought, PTL DEF Spec
=============================================================================
