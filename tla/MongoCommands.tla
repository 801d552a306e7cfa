---------------------------- MODULE MongoCommands ----------------------------
(***************************************************************************)
(* The mongoose instrumentation (mongoose-connection.patch.ts): the        *)
(* prototypes of Query, Aggregate and Model are patched once, every        *)
(* command a profiled request runs leaves one entry that says what was     *)
(* sent and how many documents it touched, and a cursor's entry is         *)
(* completed in place when the stream ends.                                *)
(*                                                                         *)
(* Mongoose is external: it computes a save's delta through the document's *)
(* $__delta, rejects a save of a document another save holds the lock of,  *)
(* and settles every command.  All the saves here are of one document,     *)
(* which the application edits between them.                               *)
(***************************************************************************)
EXTENDS Naturals, FiniteSets, Sequences

CONSTANTS
    MgCalls,      \* the commands
    MgScenarios,  \* what each command is, whether it is profiled; the document
    MgMaxEdits,   \* bound: edits of the document
    MgMaxTime,    \* bound: clock ticks
    MgNone        \* no value

MgQueryOps == {"find", "findOne", "updateOne", "deleteMany", "countDocuments"}
MgKinds == MgQueryOps \cup {"aggregate", "save", "insertMany", "bulkWrite", "cursor"}

ASSUME MgAssumption ==
    /\ \A s \in MgScenarios :
         /\ DOMAIN s = {"kind", "profiled", "isNew"}
         /\ s.kind \in [MgCalls -> MgKinds] /\ s.profiled \in [MgCalls -> BOOLEAN]
         /\ s.isNew \in BOOLEAN
    /\ MgMaxEdits \in Nat /\ MgMaxTime \in Nat /\ MgNone \notin MgCalls
    /\ MgNone \notin MgKinds \cup {"insertOne", "end", "error", "close"}

VARIABLES
    mgKind,       \* call -> command
    mgProfiled,   \* call -> does it run in a profile's context
    mgCall,       \* call -> where it stands and what mongoose sent for it
    mgDocument,   \* isNew, the unsaved edit, the save that holds mongoose's lock
                  \* and the chain of $__delta overrides
    mgOwnDelta,   \* call -> the override it found on the document
    mgDelta,      \* call -> what its override saw: computed, delta
    mgEdits, mgNow,
    mgEntries     \* MONGOOSE_QUERIES_KEY of the profile

mgVars == <<mgKind, mgProfiled, mgCall, mgDocument, mgOwnDelta, mgDelta,
            mgEdits, mgNow, mgEntries>>

-----------------------------------------------------------------------------
(* What the driver answered and what the entry makes of it.                *)

AcknowledgedCount(ack) ==
    IF "deletedCount" \in DOMAIN ack THEN ack.deletedCount
    ELSE IF "modifiedCount" \in DOMAIN ack THEN ack.modifiedCount + ack.upsertedCount
    ELSE IF "matchedCount" \in DOMAIN ack THEN ack.matchedCount
    ELSE MgNone

ResultCount(op, result) ==
    CASE result.is = "array"                              -> result.length
      [] result.is = "number"                             -> result.value
      [] result.is = "ack" /\ op \in {"updateOne", "deleteMany"} -> AcknowledgedCount(result.ack)
      [] op = "findOne"                                   -> IF result.is = "null" THEN 0 ELSE 1
      [] OTHER                                            -> MgNone

(* The driver's answer to a query that touched n documents, m of them by an*)
(* upsert.                                                                 *)
DriverResult(op, n, m) ==
    CASE op \in {"find", "aggregate"} -> [is |-> "array", length |-> n]
      [] op = "findOne"        -> [is |-> IF n = 0 THEN "null" ELSE "document"]
      [] op = "countDocuments" -> [is |-> "number", value |-> n]
      [] op = "updateOne"      -> [is |-> "ack", ack |-> [matchedCount |-> n - m,
                                     modifiedCount |-> n - m, upsertedCount |-> m]]
      [] op = "deleteMany"     -> [is |-> "ack", ack |-> [deletedCount |-> n]]

(* insertMany resolves with the documents, and rejects with those that were*)
(* inserted before the failure, when it got that far.                      *)
InsertedMany(outcome) ==
    IF outcome.ok \/ outcome.reached THEN outcome.n ELSE MgNone

(* bulkWrite's counts come from the result or from the error's result.     *)
BulkWriteCount(outcome) ==
    IF outcome.ok \/ outcome.reached THEN outcome.n ELSE MgNone

-----------------------------------------------------------------------------
MgStart(s) ==
    /\ mgKind = s.kind /\ mgProfiled = s.profiled
    /\ mgCall = [c \in MgCalls |-> [stage |-> "new", refusedBy |-> MgNone, late |-> FALSE,
                                    insert |-> FALSE, sent |-> MgNone, update |-> 0,
                                    count |-> MgNone, at |-> 0]]
    /\ mgDocument = [isNew |-> s.isNew, edit |-> 0, saving |-> MgNone, overrides |-> <<>>]
    /\ mgOwnDelta = [c \in MgCalls |-> <<>>]
    /\ mgDelta = [c \in MgCalls |-> [computed |-> FALSE, update |-> 0]]
    /\ mgEdits = 0 /\ mgNow = 0 /\ mgEntries = <<>>

MgInit == \E s \in MgScenarios : MgStart(s)

MgAppend(entry, c) ==
    mgEntries' = IF mgProfiled[c] THEN Append(mgEntries, entry) ELSE mgEntries

MgEntry(c, operation, update, count, error) ==
    [call |-> c, operation |-> operation, update |-> update, count |-> count,
     error |-> error, duration |-> mgNow - mgCall[c].at, streaming |-> mgKind[c] = "cursor"]

(* The application edits the document; 0 is no edit.                       *)
EditDocument ==
    /\ mgEdits < MgMaxEdits /\ \E c \in MgCalls : mgKind[c] = "save"
    /\ mgEdits' = mgEdits + 1
    /\ mgDocument' = [mgDocument EXCEPT !.edit = mgEdits + 1]
    /\ UNCHANGED <<mgKind, mgProfiled, mgCall, mgOwnDelta, mgDelta, mgNow, mgEntries>>

(* Time only matters while a cursor is open.                               *)
MgTick ==
    /\ mgNow < MgMaxTime
    /\ \E c \in MgCalls : mgKind[c] = "cursor" /\ mgCall[c].stage \in {"running", "settled"}
    /\ mgNow' = mgNow + 1
    /\ UNCHANGED <<mgKind, mgProfiled, mgCall, mgDocument, mgOwnDelta, mgDelta,
                   mgEdits, mgEntries>>

(* Saves mongoose has ended whose wrapper did not run its finally yet, and *)
(* saves it refused: those are rejected before they await anything.        *)
SavesOver == {c \in MgCalls : mgKind[c] = "save" /\ mgCall[c].stage = "over"}
SavesRefused == {c \in MgCalls : mgCall[c].refusedBy # MgNone /\ mgCall[c].stage = "running"}

Started(c, refusedBy, late, insert) ==
    mgCall' = [mgCall EXCEPT ![c].stage = "running", ![c].refusedBy = refusedBy,
                             ![c].late = late, ![c].insert = insert, ![c].at = mgNow]

(* observeSave, then the original save.  A document that is not new gets   *)
(* its $__delta overridden by one that calls what was there; mongoose then *)
(* takes the document's lock, or refuses the save.                         *)
Save(c) ==
    /\ mgKind[c] = "save" /\ mgCall[c].stage = "new"
    /\ Started(c, mgDocument.saving, SavesOver # {}, mgDocument.isNew)
    /\ mgOwnDelta' = IF mgDocument.isNew THEN mgOwnDelta
                     ELSE [mgOwnDelta EXCEPT ![c] = mgDocument.overrides]
    /\ mgDocument' = [mgDocument EXCEPT !.saving = IF @ = MgNone THEN c ELSE @,
                                        !.overrides = IF mgDocument.isNew THEN @ ELSE <<c>> \o @]
    /\ UNCHANGED <<mgKind, mgProfiled, mgDelta, mgEdits, mgNow, mgEntries>>

(* Mongoose, once it validated the document, sends the save: the insert of *)
(* a new document, or the delta, which every override on it sees.  By then *)
(* the wrapper of the save before has long run its finally.                *)
SendSave(c) ==
    /\ mgDocument.saving = c /\ mgCall[c].stage = "running" /\ SavesOver = {}
    /\ IF mgDocument.isNew
       THEN /\ mgCall' = [mgCall EXCEPT ![c].stage = "sent", ![c].sent = "insertOne"]
            /\ mgDocument' = [mgDocument EXCEPT !.isNew = FALSE, !.edit = 0]
            /\ UNCHANGED mgDelta
       ELSE /\ mgCall' = [mgCall EXCEPT ![c].stage = "sent", ![c].update = mgDocument.edit,
                             ![c].sent = IF mgDocument.edit = 0 THEN "findOne" ELSE "updateOne"]
            /\ mgDelta' = [k \in MgCalls |->
                             IF \E i \in DOMAIN mgDocument.overrides : mgDocument.overrides[i] = k
                             THEN [computed |-> TRUE, update |-> mgDocument.edit]
                             ELSE mgDelta[k]]
            /\ mgDocument' = [mgDocument EXCEPT !.edit = 0]
    /\ UNCHANGED <<mgKind, mgProfiled, mgOwnDelta, mgEdits, mgNow, mgEntries>>

(* Mongoose is done with a save and frees the document: one that failed in *)
(* validation never sent anything, a failed document gets its edit and its *)
(* isNew back.  The wrapper hears of it some microtasks later.             *)
SaveEnds(c, ok) ==
    /\ mgDocument.saving = c /\ mgCall[c].stage \in {"running", "sent"}
    /\ mgCall[c].stage = "running" => ~ok
    /\ mgCall' = [mgCall EXCEPT ![c].stage = "over", ![c].count = IF ok THEN 1 ELSE MgNone]
    /\ mgDocument' =
         [mgDocument EXCEPT !.isNew = @ \/ (mgCall[c].sent = "insertOne" /\ ~ok),
                            !.edit = IF ~ok /\ @ = 0 THEN mgCall[c].update ELSE @,
                            !.saving = MgNone]
    /\ UNCHANGED <<mgKind, mgProfiled, mgOwnDelta, mgDelta, mgEdits, mgNow, mgEntries>>

NoDeltaLeft(c) == <<>>

(* The override goes and what the document held before it comes back.      *)
RestoredDelta(c) == mgOwnDelta[c]

(* What the observer says of a save that settled: without a delta mongoose *)
(* only checked that the document exists, unless the save failed before it *)
(* computed one.                                                           *)
DescribeSave(c) ==
    LET ok == mgCall[c].count # MgNone
        count == IF ok THEN 1 ELSE MgNone
    IN  IF mgCall[c].insert THEN MgEntry(c, "insertOne", 0, count, ~ok)
        ELSE IF mgDelta[c].update = 0 /\ mgDelta[c].computed
        THEN MgEntry(c, "findOne", 0, count, ~ok)
        ELSE MgEntry(c, "updateOne", mgDelta[c].update, count, ~ok)

(* The wrapper's finally.  Without a profile record returns before it asks *)
(* the observer, so the override stays on the document.  A refusal is heard*)
(* of before the end of the save that caused it.                           *)
SettleSave(c) ==
    /\ c \in SavesRefused \cup SavesOver
    /\ \A r \in SavesRefused : mgCall[r].refusedBy # c
    /\ mgCall' = [mgCall EXCEPT ![c].stage = "settled"]
    /\ mgDocument' = IF mgProfiled[c] /\ ~mgCall[c].insert
                     THEN [mgDocument EXCEPT !.overrides = RestoredDelta(c)] ELSE mgDocument
    /\ MgAppend(DescribeSave(c), c)
    /\ UNCHANGED <<mgKind, mgProfiled, mgOwnDelta, mgDelta, mgEdits, mgNow>>

(* Query.exec, Aggregate.exec, Model.insertMany and Model.bulkWrite.       *)
Exec(c) ==
    /\ mgKind[c] \notin {"save", "cursor"} /\ mgCall[c].stage = "new"
    /\ Started(c, MgNone, FALSE, FALSE)
    /\ UNCHANGED <<mgKind, mgProfiled, mgDocument, mgOwnDelta, mgDelta, mgEdits, mgNow,
                   mgEntries>>

CountOf(c, outcome) ==
    CASE mgKind[c] = "insertMany" -> InsertedMany(outcome)
      [] mgKind[c] = "bulkWrite"  -> BulkWriteCount(outcome)
      [] OTHER -> IF outcome.ok
                  THEN ResultCount(mgKind[c], DriverResult(mgKind[c], outcome.n, outcome.upserted))
                  ELSE MgNone

(* It settles: n documents touched, of them upserted; a failed bulk may    *)
(* have reached the server and touched some.  The entry is appended in the *)
(* finally block, in the context the command was called from.              *)
SettleExec(c, outcome) ==
    /\ mgKind[c] \notin {"save", "cursor"} /\ mgCall[c].stage = "running"
    /\ outcome.reached => ~outcome.ok /\ mgKind[c] \in {"insertMany", "bulkWrite"}
    /\ outcome.upserted > 0 => mgKind[c] = "updateOne"
    /\ ~outcome.ok /\ ~outcome.reached => outcome.n = 0
    /\ mgCall' = [mgCall EXCEPT ![c].stage = "settled", ![c].sent = mgKind[c],
                     ![c].count = IF outcome.ok \/ outcome.reached THEN outcome.n ELSE MgNone]
    /\ MgAppend(MgEntry(c, mgKind[c], 0, CountOf(c, outcome), ~outcome.ok), c)
    /\ UNCHANGED <<mgKind, mgProfiled, mgDocument, mgOwnDelta, mgDelta, mgEdits, mgNow>>

(* cursor(): the profile is read and the entry appended before a document  *)
(* is streamed.                                                            *)
OpenCursor(c) ==
    /\ mgKind[c] = "cursor" /\ mgCall[c].stage = "new"
    /\ Started(c, MgNone, FALSE, FALSE)
    /\ MgAppend([MgEntry(c, "find", 0, MgNone, FALSE) EXCEPT !.duration = 0], c)
    /\ UNCHANGED <<mgKind, mgProfiled, mgDocument, mgOwnDelta, mgDelta, mgEdits, mgNow>>

(* finalize: the entry is completed in place, once.                        *)
CursorFinalized(c, failed) ==
    IF mgCall[c].stage # "running" THEN mgEntries
    ELSE [i \in DOMAIN mgEntries |->
            IF mgEntries[i].call # c THEN mgEntries[i]
            ELSE [mgEntries[i] EXCEPT !.duration = mgNow - mgCall[c].at, !.error = failed]]

(* The stream reports end or error, then close.                            *)
CursorEvent(c, event) ==
    /\ mgKind[c] = "cursor"
    /\ mgCall[c].stage \in IF event = "close" THEN {"running", "settled"} ELSE {"running"}
    /\ mgEntries' = CursorFinalized(c, event = "error")
    /\ mgCall' = [mgCall EXCEPT ![c].stage = IF event = "close" THEN "closed" ELSE "settled",
                     ![c].sent = IF @ = MgNone THEN event ELSE @,
                     ![c].update = IF mgCall[c].stage = "running" THEN mgNow ELSE @]
    /\ UNCHANGED <<mgKind, mgProfiled, mgDocument, mgOwnDelta, mgDelta, mgEdits, mgNow>>

MgOutcome == [ok : BOOLEAN, reached : BOOLEAN, n : 0..1, upserted : 0..1]

MgNext ==
    \/ EditDocument
    \/ MgTick
    \/ \E c \in MgCalls :
         \/ Save(c) \/ SendSave(c) \/ Exec(c) \/ OpenCursor(c)
         \/ \E ok \in BOOLEAN : SaveEnds(c, ok)
         \/ SettleSave(c)
         \/ \E outcome \in MgOutcome :
              outcome.upserted <= outcome.n /\ SettleExec(c, outcome)
         \/ \E event \in {"end", "error", "close"} : CursorEvent(c, event)

MgSpec == MgInit /\ [][MgNext]_mgVars

-----------------------------------------------------------------------------
(* Types: what the variables may hold.                                     *)
MgTypeOK ==
    /\ mgKind \in [MgCalls -> MgKinds] /\ mgProfiled \in [MgCalls -> BOOLEAN]
    /\ \A c \in MgCalls :
         /\ mgCall[c].stage \in {"new", "running", "sent", "over", "settled", "closed"}
         /\ mgDelta[c].update \in 0..MgMaxEdits /\ mgDelta[c].computed \in BOOLEAN
    /\ mgDocument.isNew \in BOOLEAN /\ mgDocument.edit \in 0..MgMaxEdits
    /\ mgEdits \in 0..MgMaxEdits /\ mgNow \in 0..MgMaxTime
    /\ \A i \in DOMAIN mgEntries : mgEntries[i].call \in MgCalls

MgEntriesOf(c) == {i \in DOMAIN mgEntries : mgEntries[i].call = c}

(* What observeSave and the exec wrappers are for: a command that succeeded*)
(* is shown with the command, the update and the count mongoose really sent*)
(* and got, whatever other saves of the same document overlapped it, were  *)
(* refused, put their own $__delta override back or left it there, and     *)
(* whatever the application edited in the meantime.  A save started in the *)
(* microtasks between the end of another one and its wrapper's finally is  *)
(* left out: that finally takes its override away.                         *)
MongoEntriesTellWhatWasSent ==
    \A i \in DOMAIN mgEntries :
        LET e == mgEntries[i]
            c == mgCall[e.call]
        IN  mgKind[e.call] # "cursor" /\ ~e.error
            => /\ e.count = c.count
               /\ (c.late => c.insert) => e.operation = c.sent /\ e.update = c.update

(* A profiled command leaves one entry, a cursor's from the moment it is   *)
(* opened; a cursor's entry keeps the outcome and the duration of the event*)
(* that ended the stream, whatever event follows it.                       *)
MongoOneEntryPerCommand ==
    \A c \in MgCalls :
        /\ Cardinality(MgEntriesOf(c)) =
             IF ~mgProfiled[c] \/ mgCall[c].stage = "new" THEN 0
             ELSE IF mgKind[c] = "cursor" \/ mgCall[c].stage = "settled" THEN 1 ELSE 0
        /\ mgKind[c] = "cursor" /\ mgCall[c].stage \in {"settled", "closed"}
            => \A i \in MgEntriesOf(c) :
                 /\ mgEntries[i].error = (mgCall[c].sent = "error")
                 /\ mgEntries[i].duration = mgCall[c].update - mgCall[c].at
=============================================================================
