---------------------------- MODULE FileStorage ----------------------------
(***************************************************************************)
(* FileStorageAdapter: a file per profile in a directory that processes    *)
(* share.  Each process keeps an index of summaries and a cache of parsed  *)
(* profiles, both rebuilt from the directory when it starts and brought up *)
(* to date by every read; a sidecar file saves the index for the next      *)
(* start.  A process's calls run one after another under a lock, except    *)
(* that reads open the profile files after they have released it.          *)
(*                                                                         *)
(* An operation on a file is atomic, with what the code does of its answer *)
(* before the next await unless another actor can come between the two.    *)
(* Profiles are named by their creation time; a file's content is the      *)
(* version saved last, which also stands for its mtime.                    *)
(***************************************************************************)
EXTENDS Integers, Sequences, FiniteSets

CONSTANTS
    Processes,    \* the processes that share the directory
    Calls,        \* calls of save(), findAll()/query()/findOne() and clear()
    Kind,         \* "save", "read" or "clear", for each call
    ProcessOf,    \* the process that makes each call
    TokenOf,      \* the profile a save saves
    VersionOf,    \* the state of the profile it saves
    MaxProfiles,  \* the cap; 0 for none
    Mortal,       \* bound: the processes that may die
    MaxTime,      \* bound: how far the expiry horizon moves
    MaxFaults     \* bound: deaths of processes and failed writes of the sidecar

Saves == {c \in Calls : Kind[c] = "save"}
Tokens == {TokenOf[c] : c \in Saves}
Versions == {0} \cup {VersionOf[c] : c \in Saves}

ASSUME FileAssumption ==
    /\ ProcessOf \in [Calls -> Processes]
    /\ Kind \in [Calls -> {"save", "read", "clear"}]
    /\ Tokens \subseteq Nat /\ Versions \subseteq Nat
    /\ \A c \in Saves : VersionOf[c] > 0
    \* a profile is saved by the process that opened it
    /\ \A c, d \in Saves : TokenOf[c] = TokenOf[d] => ProcessOf[c] = ProcessOf[d]
    /\ Mortal \subseteq Processes
    /\ MaxProfiles \in Nat /\ MaxTime \in Nat /\ MaxFaults \in Nat

VARIABLES
    files,      \* the version in each profile's file; 0 when there is none
    temps,      \* the profiles with a temporary file
    sidecar,    \* the summaries in the sidecar file, by the version they describe
    index,      \* each process's summaries
    cache,      \* each process's parsed profiles, with the mtime read before them
    ready,      \* the processes that have loaded the directory
    queue,      \* each process's calls, the first one holds the lock
    call,       \* where each call is
    reads,      \* profile files being read
    horizon,    \* profiles created before it have expired
    faults,
    history     \* what has happened (read by no code)

vars == <<files, temps, sidecar, index, cache, ready, queue, call, reads, horizon,
          faults, history>>
disk == <<files, temps, sidecar>>
memory == <<index, cache, ready>>

Nothing == [t \in Tokens |-> 0]
NotCached == [mtime |-> 0, version |-> 0]
At(pc) == [pc |-> pc, tokens |-> {}, temps |-> {}, changed |-> FALSE, got |-> Nothing]

OnDisk == {t \in Tokens : files[t] > 0}
Indexed(p) == {t \in Tokens : index[p][t] > 0}
Expired == {t \in Tokens : t < horizon}
InFlight(c) == call[c].pc \notin {"none", "done", "failed", "dead"}
Holds(c) == queue[ProcessOf[c]] # <<>> /\ Head(queue[ProcessOf[c]]) = c
InLock(c, pc) == call[c].pc = pc /\ Holds(c)

Init ==
    /\ files = Nothing /\ temps = {} /\ sidecar = Nothing
    /\ index = [p \in Processes |-> Nothing]
    /\ cache = [p \in Processes |-> [t \in Tokens |-> NotCached]]
    /\ ready = {}
    /\ queue = [p \in Processes |-> <<>>]
    /\ call = [c \in Calls |-> At("none")]
    /\ reads = {}
    /\ horizon = 0 /\ faults = 0
    /\ history = [saved |-> Nothing,    \* versions whose save() returned
                  written |-> {},       \* profiles that reached the directory
                  removed |-> {},       \* profiles whose file was ever removed
                  cleared |-> {},       \* those removed by clear() or by expiry
                  own |-> [p \in Processes |-> {}],       \* saved since the process started
                  floor |-> [c \in Calls |-> Nothing]]    \* saved when a read began

Goto(c, pc) == call' = [call EXCEPT ![c].pc = pc]
Release(c) == queue' = [queue EXCEPT ![ProcessOf[c]] = Tail(@)]
Leave(c, pc) == Release(c) /\ call' = [call EXCEPT ![c] = At(pc)]

(* Entries leave the index and the cache together. *)
Prune(p, gone) ==
    /\ index' = [index EXCEPT ![p] = [t \in Tokens |-> IF t \in gone THEN 0 ELSE @[t]]]
    /\ cache' = [cache EXCEPT ![p] = [t \in Tokens |-> IF t \in gone THEN NotCached
                                                                     ELSE @[t]]]

(* readProfile() is called for each of the tokens, in parallel. *)
ReadAll(c, tokens) ==
    reads' = reads \cup {[call |-> c, token |-> t, at |-> "stat", mtime |-> 0, version |-> 0] :
                         t \in tokens}
Reading(c) == \E r \in reads : r.call = c

-----------------------------------------------------------------------------
(* A call is made and takes its place; a profile's later states are saved later. *)
Begin(c) ==
    /\ call[c].pc = "none"
    /\ \A d \in Saves : (c \in Saves /\ TokenOf[d] = TokenOf[c] /\ VersionOf[d] < VersionOf[c])
                           => call[d].pc # "none"
    /\ Goto(c, "start")
    /\ queue' = [queue EXCEPT ![ProcessOf[c]] = Append(@, c)]
    /\ history' = [history EXCEPT !.floor[c] = IF Kind[c] = "read" THEN history.saved ELSE @]
    /\ UNCHANGED <<disk, memory, reads, horizon, faults>>

(* The process's first call loads the directory: first the sidecar, unless it *)
(* cannot be parsed.                                                          *)
Seed(c) ==
    LET p == ProcessOf[c] IN
    /\ InLock(c, "start") /\ p \notin ready
    /\ index' = [index EXCEPT ![p] = sidecar]
    /\ Goto(c, "scan")
    /\ UNCHANGED <<disk, cache, ready, queue, reads, horizon, faults, history>>

(* ... then a listing of the directory, ... *)
Scan(c) ==
    /\ InLock(c, "scan")
    /\ call' = [call EXCEPT ![c].pc = "sweep", ![c].tokens = OnDisk, ![c].temps = temps]
    /\ UNCHANGED <<disk, memory, queue, reads, horizon, faults, history>>

(* ... of which the temporary files are removed. *)
SweepTemps(c) ==
    /\ InLock(c, "sweep")
    /\ temps' = temps \ call[c].temps
    /\ call' = [call EXCEPT ![c].pc = "reconcile", ![c].temps = {}]
    /\ UNCHANGED <<files, sidecar, memory, queue, reads, horizon, faults, history>>

(* Fault: the directory is listed before the lock is held. *)
ReaddirEarly(c) ==
    /\ call[c].pc = "start" /\ Kind[c] = "read" /\ ProcessOf[c] \in ready
    /\ call' = [call EXCEPT ![c].pc = "reconcile", ![c].tokens = OnDisk]
    /\ UNCHANGED <<disk, memory, queue, reads, horizon, faults, history>>

(* A read, once the directory is loaded, lists it again. *)
Readdir(c) ==
    /\ InLock(c, "start") /\ Kind[c] = "read" /\ ProcessOf[c] \in ready
    /\ call' = [call EXCEPT ![c].pc = "reconcile", ![c].tokens = OnDisk]
    /\ UNCHANGED <<disk, memory, queue, reads, horizon, faults, history>>

(* Entries whose files are gone are dropped, new files are read. *)
Reconcile(c) ==
    LET p == ProcessOf[c]
        listed == call[c].tokens
    IN  /\ InLock(c, "reconcile")
        /\ Prune(p, Indexed(p) \ listed)
        /\ ReadAll(c, listed \ Indexed(p))
        /\ call' = [call EXCEPT ![c].pc = "summarize", ![c].tokens = {},
                                ![c].changed = Indexed(p) \ listed # {}]
        /\ UNCHANGED <<disk, ready, queue, horizon, faults, history>>

(* The summaries of the new files, and the index with them *)
Found(c) == {t \in Tokens : call[c].got[t] > 0}
Extended(c) == [t \in Tokens |-> IF t \in Found(c) THEN call[c].got[t]
                                                   ELSE index[ProcessOf[c]][t]]

(* A read lists the valid summaries, releases the lock, and reads their files   *)
(* (query() those of a page, findOne() the one it is asked for).                *)
List(c, summaries) ==
    LET valid == {t \in Tokens : summaries[t] > 0} \ Expired IN
    /\ ReadAll(c, valid)
    /\ call' = [call EXCEPT ![c] = At(IF valid = {} THEN "done" ELSE "reading")]
    /\ Release(c)

(* Once the new files are read, a read lists, or first writes a changed index; *)
SummarizeRead(c) ==
    LET p == ProcessOf[c] IN
    /\ InLock(c, "summarize") /\ ~Reading(c) /\ p \in ready
    /\ index' = [index EXCEPT ![p] = Extended(c)]
    /\ IF call[c].changed \/ Found(c) # {}
       THEN call' = [call EXCEPT ![c] = At("persist")] /\ UNCHANGED <<queue, reads>>
       ELSE List(c, Extended(c))
    /\ UNCHANGED <<disk, cache, ready, horizon, faults, history>>

(* ... a load drops what has expired. *)
SummarizeLoad(c) ==
    LET p == ProcessOf[c]
        expired == {t \in Expired : Extended(c)[t] > 0}
        changed == call[c].changed \/ Found(c) # {}
    IN  /\ InLock(c, "summarize") /\ ~Reading(c) /\ p \notin ready
        /\ index' = [index EXCEPT ![p] = [t \in Tokens |-> IF t \in expired THEN 0
                                                           ELSE Extended(c)[t]]]
        /\ cache' = [cache EXCEPT ![p] = [t \in Tokens |-> IF t \in expired THEN NotCached
                                                           ELSE @[t]]]
        /\ call' = [call EXCEPT ![c] =
                        IF expired # {} THEN [At("unlink") EXCEPT !.tokens = expired]
                        ELSE At(IF changed THEN "persist" ELSE "start")]
        /\ ready' = IF expired = {} /\ ~changed THEN ready \cup {p} ELSE ready
        /\ UNCHANGED <<disk, queue, reads, horizon, faults, history>>

-----------------------------------------------------------------------------
(* save() writes a temporary file, ... *)
Write(c) ==
    /\ InLock(c, "start") /\ Kind[c] = "save" /\ ProcessOf[c] \in ready
    /\ temps' = temps \cup {TokenOf[c]}
    /\ Goto(c, "rename")
    /\ UNCHANGED <<files, sidecar, memory, queue, reads, horizon, faults, history>>

(* ... renames it and indexes the profile. *)
Rename(c) ==
    LET p == ProcessOf[c]
        t == TokenOf[c]
    IN  /\ InLock(c, "rename") /\ t \in temps
        /\ temps' = temps \ {t}
        /\ files' = [files EXCEPT ![t] = VersionOf[c]]
        /\ index' = [index EXCEPT ![p][t] = VersionOf[c]]
        /\ history' = [history EXCEPT !.written = @ \cup {t}, !.own[p] = @ \cup {t}]
        /\ Goto(c, "stat")
        /\ UNCHANGED <<sidecar, cache, ready, queue, reads, horizon, faults>>

(* Fault: a rejected save poisons the queue. *)
RenameFailsHeld(c) ==
    /\ InLock(c, "rename") /\ TokenOf[c] \notin temps
    /\ call' = [call EXCEPT ![c] = At("failed")]
    /\ UNCHANGED <<disk, memory, queue, reads, horizon, faults, history>>

(* The temporary file is gone: save() rejects, and the lock is released. *)
RenameFails(c) ==
    /\ InLock(c, "rename") /\ TokenOf[c] \notin temps
    /\ Leave(c, "failed")
    /\ UNCHANGED <<disk, memory, reads, horizon, faults, history>>

(* Fault: the newest are evicted. *)
Newest(tokens, n) == {t \in tokens : Cardinality({u \in tokens : u >= t}) <= n}

(* The `n` oldest of a set of profiles *)
Oldest(tokens, n) == {t \in tokens : Cardinality({u \in tokens : u <= t}) <= n}

(* evictExpiredAndOverflow()'s choice *)
Victims(indexed) ==
    LET live == indexed \ Expired
        over == IF MaxProfiles = 0 THEN 0 ELSE Cardinality(live) - MaxProfiles
    IN  (indexed \cap Expired) \cup Oldest(live, over)

(* The saved profile is cached, then the index is cut to the cap. *)
Stat(c) ==
    LET p == ProcessOf[c]
        t == TokenOf[c]
        victims == Victims(Indexed(p))
        cached == IF files[t] > 0 THEN [mtime |-> files[t], version |-> VersionOf[c]]
                                  ELSE cache[p][t]
    IN  /\ InLock(c, "stat")
        /\ index' = [index EXCEPT ![p] = [u \in Tokens |-> IF u \in victims THEN 0 ELSE @[u]]]
        /\ cache' = [cache EXCEPT ![p] = [u \in Tokens |->
                        IF u \in victims THEN NotCached ELSE IF u = t THEN cached ELSE @[u]]]
        /\ call' = [call EXCEPT ![c] = IF victims = {} THEN At("persist")
                                        ELSE [At("unlink") EXCEPT !.tokens = victims]]
        /\ UNCHANGED <<disk, ready, queue, reads, horizon, faults, history>>

(* The files of evicted and expired profiles are removed, in any order, and then *)
(* the index is written.                                                         *)
Unlink(c) ==
    \E t \in call[c].tokens :
        /\ InLock(c, "unlink")
        /\ files' = [files EXCEPT ![t] = 0]
        /\ history' = [history EXCEPT
                          !.removed = @ \cup {t},
                          !.cleared = IF t \in Expired THEN @ \cup {t} ELSE @]
        /\ call' = [call EXCEPT ![c].tokens = @ \ {t},
                                ![c].pc = IF call[c].tokens = {t} THEN "persist" ELSE @]
        /\ UNCHANGED <<temps, sidecar, memory, queue, reads, horizon, faults>>

(* What follows persistIndex(): a load is over, a read lists, a save returns. *)
Continue(c) ==
    LET p == ProcessOf[c] IN
    \/ /\ p \notin ready
       /\ ready' = ready \cup {p}
       /\ call' = [call EXCEPT ![c] = At("start")]
       /\ UNCHANGED <<queue, reads, history>>
    \/ /\ p \in ready /\ Kind[c] = "read"
       /\ List(c, index[p])
       /\ UNCHANGED <<ready, history>>
    \/ /\ p \in ready /\ Kind[c] = "save"
       /\ Leave(c, "done")
       /\ history' = [history EXCEPT !.saved[TokenOf[c]] = VersionOf[c]]
       /\ UNCHANGED <<ready, reads>>

(* persistIndex() is written, or fails; two processes share its temporary file, *)
(* and may leave one that cannot be parsed.                                     *)
Persist(c) ==
    LET clash == \E d \in Calls : call[d].pc = "persist" /\ ProcessOf[d] # ProcessOf[c] IN
    /\ InLock(c, "persist")
    /\ \/ sidecar' = index[ProcessOf[c]] /\ UNCHANGED faults
       \/ /\ faults < MaxFaults /\ faults' = faults + 1
          /\ UNCHANGED sidecar \/ (clash /\ sidecar' = Nothing)
    /\ Continue(c)
    /\ UNCHANGED <<files, temps, index, cache, horizon>>

-----------------------------------------------------------------------------
(* readProfile(): one file of one call *)
Cache(p, t, entry) == cache' = [cache EXCEPT ![p][t] = entry]
Answer(r, version) ==
    /\ reads' = reads \ {r}
    /\ call' = [call EXCEPT
                   ![r.call].got[r.token] = version,
                   ![r.call].pc = IF @ = "reading" /\ \A s \in reads \ {r} : s.call # r.call
                                  THEN "done" ELSE @]
Advance(r, s) == reads' = (reads \ {r}) \cup {s} /\ UNCHANGED call

Missing(r) ==
    /\ r.at \in {"stat", "read"} /\ files[r.token] = 0
    /\ Cache(ProcessOf[r.call], r.token, NotCached)
    /\ Answer(r, 0)

(* Fault: a cached profile is taken without looking at the mtime. *)
StatFileTrusting(r) ==
    LET t == r.token
        hit == cache[ProcessOf[r.call]][t]
    IN  /\ r.at = "stat" /\ files[t] > 0
        /\ UNCHANGED cache
        /\ IF hit.mtime > 0
           THEN Answer(r, hit.version)
           ELSE Advance(r, [r EXCEPT !.at = "read", !.mtime = files[t]])

StatFile(r) ==
    LET t == r.token
        hit == cache[ProcessOf[r.call]][t]
    IN  /\ r.at = "stat" /\ files[t] > 0
        /\ UNCHANGED cache
        /\ IF hit.mtime = files[t]
           THEN Answer(r, hit.version)
           ELSE Advance(r, [r EXCEPT !.at = "read", !.mtime = files[t]])

ReadFile(r) ==
    /\ r.at = "read" /\ files[r.token] > 0
    /\ Advance(r, [r EXCEPT !.at = "parse", !.version = files[r.token]])
    /\ UNCHANGED cache

Parse(r) ==
    /\ r.at = "parse"
    /\ Cache(ProcessOf[r.call], r.token, [mtime |-> r.mtime, version |-> r.version])
    /\ Answer(r, r.version)

ReadProfile(r) ==
    /\ Missing(r) \/ StatFile(r) \/ ReadFile(r) \/ Parse(r)
    /\ UNCHANGED <<disk, index, ready, queue, horizon, faults, history>>

-----------------------------------------------------------------------------
(* clear() removes the files of its index in any order, ... *)
Wipe(c) ==
    LET indexed == Indexed(ProcessOf[c]) IN
    /\ InLock(c, "start") /\ Kind[c] = "clear" /\ ProcessOf[c] \in ready
    /\ call' = [call EXCEPT ![c] = [At("wipe") EXCEPT !.tokens = indexed]]
    /\ UNCHANGED <<disk, memory, queue, reads, horizon, faults, history>>

WipeOne(c) ==
    \E t \in call[c].tokens :
        /\ InLock(c, "wipe")
        /\ files' = [files EXCEPT ![t] = 0]
        /\ history' = [history EXCEPT !.removed = @ \cup {t}, !.cleared = @ \cup {t}]
        /\ call' = [call EXCEPT ![c].tokens = @ \ {t}]
        /\ UNCHANGED <<temps, sidecar, memory, queue, reads, horizon, faults>>

(* ... then forgets the index, and the sidecar. *)
Forget(c) ==
    /\ InLock(c, "wipe") /\ call[c].tokens = {}
    /\ Prune(ProcessOf[c], Tokens)
    /\ Goto(c, "unseed")
    /\ UNCHANGED <<disk, ready, queue, reads, horizon, faults, history>>

Unseed(c) ==
    /\ InLock(c, "unseed")
    /\ sidecar' = Nothing
    /\ Leave(c, "done")
    /\ UNCHANGED <<files, temps, memory, reads, horizon, faults, history>>

(* A process dies with the calls it was making. *)
Die(p) ==
    /\ faults < MaxFaults /\ (p \in ready \/ queue[p] # <<>>)
    /\ faults' = faults + 1
    /\ LET lost == {c \in Calls : ProcessOf[c] = p /\ InFlight(c)} IN
         /\ call' = [c \in Calls |-> IF c \in lost THEN At("dead") ELSE call[c]]
         /\ reads' = {r \in reads : r.call \notin lost}
    /\ queue' = [queue EXCEPT ![p] = <<>>]
    /\ Prune(p, Tokens)
    /\ ready' = ready \ {p}
    /\ history' = [history EXCEPT !.own[p] = {}]
    /\ UNCHANGED <<disk, horizon>>

Tick ==
    /\ horizon < MaxTime
    /\ horizon' = horizon + 1
    /\ UNCHANGED <<disk, memory, queue, call, reads, faults, history>>

Step(c) ==
    \/ Seed(c) \/ Scan(c) \/ SweepTemps(c) \/ Readdir(c) \/ Reconcile(c) \/ SummarizeRead(c)
    \/ SummarizeLoad(c) \/ Write(c) \/ Rename(c) \/ RenameFails(c) \/ Stat(c) \/ Unlink(c)
    \/ Persist(c) \/ Wipe(c) \/ WipeOne(c) \/ Forget(c) \/ Unseed(c)

Next ==
    \/ \E c \in Calls : Begin(c) \/ Step(c)
    \/ \E r \in reads : ReadProfile(r)
    \/ \E p \in Mortal : Die(p)
    \/ Tick

Spec == Init /\ [][Next]_vars
-----------------------------------------------------------------------------
(* Properties *)

(* The variables' domains; a process's calls are each in its queue while they   *)
(* may touch the index, and nothing is left in it by a call that is over.       *)
TypeOK ==
    /\ files \in [Tokens -> Versions] /\ sidecar \in [Tokens -> Versions]
    /\ temps \in SUBSET Tokens
    /\ index \in [Processes -> [Tokens -> Versions]]
    /\ cache \in [Processes -> [Tokens -> [mtime : Versions, version : Versions]]]
    /\ ready \in SUBSET Processes
    /\ \A c \in Calls :
          (InFlight(c) /\ call[c].pc # "reading")
              <=> \E i \in DOMAIN queue[ProcessOf[c]] : queue[ProcessOf[c]][i] = c
    /\ \A r \in reads : InFlight(r.call)

Idle(p) == p \in ready /\ (queue[p] = <<>> \/ call[Head(queue[p])].pc = "start")

(* "A freshly saved entry can never be pruned for being absent from a stale     *)
(* snapshot": between two calls, a process's index describes each profile it    *)
(* saved since it started, as it saved it last, if the file is still there.     *)
OwnSavesIndexed ==
    \A p \in Processes : Idle(p) =>
        \A t \in history.own[p] : files[t] > 0 => index[p][t] = files[t]

(* A saved profile leaves the directory only when it has expired, when it is    *)
(* cleared, or when MaxProfiles newer ones have been written to it.             *)
SavedSurvives ==
    \A t \in Tokens :
        (history.saved[t] > 0 /\ files[t] = 0 /\ t \notin history.cleared)
            => MaxProfiles > 0
               /\ Cardinality({u \in history.written : u > t}) >= MaxProfiles

(* A read returns every profile saved before it began, by any process and in    *)
(* that state or a later one, unless its file was removed or it has expired.    *)
ReadsSeeSaves ==
    \A c \in Calls :
        (Kind[c] = "read" /\ call[c].pc = "done") =>
            \A t \in Tokens \ (history.removed \cup Expired) :
                call[c].got[t] >= history.floor[c][t]

(* What loadFromDisk's comment says of the temporary files it removes: they     *)
(* were "left behind by a process that crashed mid-save", so no save of a live  *)
(* process fails.                                                               *)
LiveSavesSucceed == \A c \in Saves : call[c].pc # "failed"

(* What persistIndex's comment promises: "a failed sidecar write is recovered   *)
(* by readdir reconciliation", so that an idle process whose directory nobody   *)
(* else writes, and that never died within a call, describes the profiles as    *)
(* their files do.                                                              *)
SidecarRecovered ==
    \A p \in Processes :
        (Idle(p) /\ Processes = {p} /\ \A c \in Calls : call[c].pc # "dead") =>
        \A t \in OnDisk : index[p][t] = files[t]
=============================================================================
