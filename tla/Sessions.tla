------------------------------ MODULE Sessions ------------------------------
(***************************************************************************)
(* The durable conversation store, harness/src/sessions.rs: a map of       *)
(* journals behind one mutex, one append-only file per conversation, and   *)
(* the recovery that reopens the files after the process stopped.          *)
(*                                                                         *)
(* A handler that writes takes the mutex, decides, and holds the mutex     *)
(* across the file write; `lock` is that write.  Its end (CompleteAppend,  *)
(* FailWrite or Crash) is a step of its own, so a crash can fall between   *)
(* the decision, the flush and the change in memory.  A handler that       *)
(* releases the mutex and takes it again (finish, start_turn,              *)
(* commit_import, export_page, import_events) is split at that point and   *)
(* remembered in `calls`, `asking`, `imp` or `exp`.                        *)
(*                                                                         *)
(* Replaying an event id that is present returns the row, or fails if the  *)
(* input differs; neither changes anything, so only fresh ids are written. *)
(***************************************************************************)
EXTENDS Journal, FiniteSets

CONSTANTS
  Conv,         \* conversation keys (project, id)
  Documents,    \* exported files that may be imported: sequences of Drafts
  Exported,     \* conversations the client exports
  LegacyItems,  \* rows of a version 1 record, the last being its metadata
  PageSize,     \* events per export page (256 in the code)
  RemovalFails, \* may removing an image file fail?
  MaxEvents,    \* bound: rows per journal, ends of turns not counted
  MaxCalls,     \* bound: requests between their check and their append
  MaxFaults     \* bound: crashes and failed writes

ASSUME BoundsAreNumbers ==
  /\ LegacyItems \in Nat /\ PageSize \in Nat \ {0}
  /\ MaxEvents \in Nat /\ MaxCalls \in Nat /\ MaxFaults \in Nat
ASSUME RemovalMayFail == RemovalFails \in BOOLEAN
ASSUME DocumentsAreJournals ==
  \A d \in Documents : d \in Seq(Drafts) /\ \A i \in DOMAIN d : d[i].kind \in ImportedKind
ASSUME NoneIsNoConv == None \notin Conv /\ Exported \subseteq Conv

VARIABLES
  phase,  \* "down", "recovering" (inside open) or "up"
  due,    \* conversations whose open turn open has yet to end
  disk,   \* disk[c]: the committed rows of c's file, <<>> when there is none
  torn,   \* conversations whose file ends in a row without its newline
  mem,    \* mem[c]: Conversation.events, <<>> when c is not in the map
  images, \* conversations with image files
  lock,   \* the write in progress under the mutex, or Free
  asking, \* model requests that found their turn active and have no input row yet
  running,\* model requests whose input is journaled and whose result is still due
  calls,  \* finish calls that found no end yet and have released the mutex
  imp,    \* the one client import
  exp,    \* the one client export
  faults  \* crashes and failed writes so far

store   == <<phase, due, disk, torn, mem, images, lock, faults>>
clients == <<asking, running, calls, imp, exp>>
vars    == <<phase, due, disk, torn, mem, images, lock, faults, asking, running, calls, imp, exp>>

Free     == [conv |-> None, draft |-> Tombstone]
NoImport == [phase |-> "idle", conv |-> None, doc |-> NoRows, pos |-> 0]
NoExport == [phase |-> "idle", conv |-> None, revision |-> 0, got |-> NoRows]

ImportPhase == {"idle", "between", "page", "writing", "commit"}
ExportPhase == {"idle", "between", "read", "done"}

\* Every variable keeps its type.
TypeOK ==
  /\ phase \in {"down", "recovering", "up"}
  /\ disk \in [Conv -> Seq(Event)] /\ mem \in [Conv -> Seq(Event)]
  /\ due \subseteq Conv /\ torn \subseteq Conv /\ images \subseteq Conv
  /\ lock \in [conv: Conv \cup {None}, draft: Drafts]
  /\ asking \subseteq Conv \X Turn \X Key /\ running \subseteq Conv \X Turn \X Key
  /\ calls \subseteq [conv: Conv, turn: Turn, status: Outcome]
  /\ imp \in [phase: ImportPhase, conv: Conv \cup {None}, doc: Documents \cup {NoRows}, pos: Nat]
  /\ exp \in [phase: ExportPhase, conv: Conv \cup {None}, revision: Nat, got: Seq(Event)]
  /\ faults \in 0 .. MaxFaults

Init ==
  /\ phase = "down" /\ due = {}
  /\ disk = [c \in Conv |-> <<>>] /\ mem = [c \in Conv |-> <<>>]
  /\ torn = {} /\ images = {}
  /\ lock = Free /\ asking = {} /\ running = {} /\ calls = {} /\ imp = NoImport /\ exp = NoExport
  /\ faults = 0

----------------------------------------------------------------------------
(* The mutex and the file.                                                 *)

Writing == lock.conv # None

\* The write is a deletion, whose tombstone is or is not yet all the file holds.
Deleting == Writing /\ lock.draft = Tombstone
Replaced == disk[lock.conv] = <<Numbered(Tombstone, 1)>>

\* Mutant of Row: the sequence is events.len(), without the + 1.
RowFromZero == Numbered(lock.draft, Len(mem[lock.conv]))

\* The row under the mutex, numbered as the journal in memory says.
Row == Numbered(lock.draft, Len(mem[lock.conv]) + 1)

\* A handler decided to write and starts writing, still holding the mutex.
StartWrite(c, draft) ==
  /\ lock = Free
  /\ lock' = [conv |-> c, draft |-> draft]
  /\ UNCHANGED <<phase, due, disk, torn, mem, images, faults>>

\* append: a fresh id, and a live conversation whose state admits the event.
AppendEvent(c, draft, requireActive) ==
  /\ Live(mem[c])
  /\ ~HasId(mem[c], draft.id)
  /\ requireActive => MayRecord(mem[c], draft)
  /\ StartWrite(c, draft)

\* Mutant of CompleteAppend: the request's turn and id are noted in the wrong order.
CompleteAppendSwapped ==
  /\ Writing /\ lock.draft # Tombstone
  /\ disk' = [disk EXCEPT ![lock.conv] = Append(@, Row)]
  /\ mem'  = [mem EXCEPT ![lock.conv] = Append(@, Row)]
  /\ lock' = Free
  /\ imp' = IF imp.phase = "writing" THEN [imp EXCEPT !.phase = "between", !.pos = @ + 1] ELSE imp
  /\ running' = IF lock.draft.kind = "model_input" /\ imp.phase # "writing"
                  THEN running \cup {<<lock.conv, lock.draft.id[2], lock.draft.turn>>}
                  ELSE running
  /\ UNCHANGED <<phase, due, torn, images, asking, calls, exp, faults>>

\* append_file returned: the row is flushed, and only now enters the map.
CompleteAppend ==
  /\ Writing /\ lock.draft # Tombstone
  /\ disk' = [disk EXCEPT ![lock.conv] = Append(@, Row)]
  /\ mem'  = [mem EXCEPT ![lock.conv] = Append(@, Row)]
  /\ lock' = Free
  /\ imp' = IF imp.phase = "writing" THEN [imp EXCEPT !.phase = "between", !.pos = @ + 1] ELSE imp
  /\ running' = IF lock.draft.kind = "model_input" /\ imp.phase # "writing"
                  THEN running \cup {<<lock.conv, lock.draft.turn, lock.draft.id[2]>>}
                  ELSE running
  /\ UNCHANGED <<phase, due, torn, images, asking, calls, exp, faults>>

\* Mutant of FailWrite: the row was pushed to memory before the flush that failed.
FailWriteAfterPush ==
  /\ phase = "up" /\ Writing /\ faults < MaxFaults
  /\ lock.draft # Tombstone
  /\ mem' = [mem EXCEPT ![lock.conv] = Append(@, Row)]
  /\ lock' = Free
  /\ imp' = IF imp.phase = "writing" THEN NoImport ELSE imp
  /\ faults' = faults + 1
  /\ UNCHANGED <<phase, due, disk, torn, images, asking, running, calls, exp>>

\* append_file failed and cut the file back; the caller gets the error.
FailWrite ==
  /\ phase = "up" /\ Writing /\ faults < MaxFaults
  /\ lock.draft = Tombstone => ~Replaced
  /\ lock' = Free
  /\ imp' = IF imp.phase = "writing" THEN NoImport ELSE imp
  /\ faults' = faults + 1
  /\ UNCHANGED <<phase, due, disk, torn, mem, images, asking, running, calls, exp>>

----------------------------------------------------------------------------
(* Stopping and reopening.                                                 *)

\* The process is gone: the map, the mutex and the calls in flight with it.  A client that
\* was between two requests of an import or export may send the next one to a new process.
Stop ==
  /\ phase' = "down" /\ due' = {}
  /\ mem' = [c \in Conv |-> <<>>]
  /\ lock' = Free /\ asking' = {} /\ running' = {} /\ calls' = {}
  /\ imp' = IF imp.phase \in {"page", "writing", "commit"} THEN NoImport ELSE imp
  /\ exp' = IF exp.phase = "read" THEN NoExport ELSE exp
  /\ faults < MaxFaults /\ faults' = faults + 1
  /\ UNCHANGED images

\* A crash leaves the row being written absent, torn or complete.  A tombstone is renamed
\* over the file, so it is there or not.
Crash ==
  /\ phase # "down"
  /\ \/ UNCHANGED <<disk, torn>>
     \/ /\ Writing /\ lock.draft # Tombstone
        /\ torn' = torn \cup {lock.conv}
        /\ UNCHANGED disk
     \/ /\ Writing /\ lock.draft # Tombstone
        /\ disk' = [disk EXCEPT ![lock.conv] = Append(@, Row)]
        /\ UNCHANGED torn
  /\ Stop

\* A write that fails inside open fails open, and the process exits.
FailOpen ==
  /\ phase = "recovering" /\ Writing
  /\ Stop
  /\ UNCHANGED <<disk, torn>>

\* What list returns: alive, and not an import in progress.
Published(ev) == Live(ev) /\ ~Importing(ev)

\* Mutant of Open: the turns the last run left open are not collected.
OpenWithoutRepair ==
  /\ phase = "down"
  /\ \A c \in Conv : Contiguous(disk[c])
  /\ phase' = "recovering"
  /\ mem' = disk /\ torn' = {} /\ due' = {}
  /\ UNCHANGED <<disk, images, lock, asking, running, calls, imp, exp, faults>>

\* open reads every file.  A gap in the sequence numbers refuses to start; a torn tail is
\* cut off or, when nothing was committed, the file is renamed out of the way.
Open ==
  /\ phase = "down"
  /\ \A c \in Conv : Contiguous(disk[c])
  /\ phase' = "recovering"
  /\ mem' = disk /\ torn' = {}
  /\ due' = {c \in Conv : Published(disk[c]) /\ ActiveTurns(disk[c]) # {}}
  /\ UNCHANGED <<disk, images, lock, asking, running, calls, imp, exp, faults>>

\* The turns found open are ended one by one, each by finish: an end that is there already
\* is left alone.
InterruptTurn(c) ==
  /\ phase = "recovering" /\ lock = Free /\ c \in due /\ Live(mem[c])
  /\ due' = due \ {c}
  /\ \E t \in ActiveTurns(mem[c]) :
       IF HasId(mem[c], <<"end", t>>)
         THEN UNCHANGED lock
         ELSE MayRecord(mem[c], EndDraft(t, "interrupted"))
              /\ lock' = [conv |-> c, draft |-> EndDraft(t, "interrupted")]
  /\ UNCHANGED <<phase, disk, torn, mem, images, faults>> /\ UNCHANGED clients

\* Mutant of FinishOpen: open returns while turns are still to be ended.
FinishOpenEarly ==
  /\ phase = "recovering" /\ lock = Free
  /\ phase' = "up" /\ due' = {}
  /\ UNCHANGED <<disk, torn, mem, images, lock, asking, running, calls, imp, exp, faults>>

FinishOpen ==
  /\ phase = "recovering" /\ lock = Free /\ due = {}
  /\ phase' = "up"
  /\ UNCHANGED <<due, disk, torn, mem, images, lock, asking, running, calls, imp, exp, faults>>

----------------------------------------------------------------------------
(* Conversations and turns.                                                *)

Serving(c) == phase = "up" /\ lock = Free /\ Len(mem[c]) < MaxEvents

Create(c) ==
  /\ Serving(c) /\ mem[c] = <<>>
  /\ StartWrite(c, CreatedDraft("local"))
  /\ UNCHANGED clients

Rename(c, k) ==
  /\ Serving(c)
  /\ AppendEvent(c, RenameDraft(k), FALSE)
  /\ UNCHANGED clients

\* Mutant of Begin: append is not told that the event needs an idle conversation.
BeginAnyway(c, t, role, reply) ==
  /\ Serving(c)
  /\ reply # None => AnswersQuestion(mem[c], reply, role)
  /\ AppendEvent(c, BeginDraft(t, role, reply), FALSE)
  /\ UNCHANGED clients

Begin(c, t, role, reply) ==
  /\ Serving(c)
  /\ reply # None => AnswersQuestion(mem[c], reply, role)
  /\ AppendEvent(c, BeginDraft(t, role, reply), TRUE)
  /\ UNCHANGED clients

View(c, t, v, shown) ==
  /\ Serving(c)
  /\ AppendEvent(c, ViewDraft(t, v, shown), TRUE)
  /\ UNCHANGED clients

Between == Cardinality(calls) + Cardinality(asking)

\* start_turn, with a fresh request id, asserts that its turn is active, releases the mutex ...
AssertActive(c, t, r) ==
  /\ phase = "up" /\ lock = Free /\ Between < MaxCalls
  /\ Live(mem[c]) /\ t \in ActiveTurns(mem[c])
  /\ ~HasId(mem[c], <<"input", r>>)
  /\ asking' = asking \cup {<<c, t, r>>}
  /\ UNCHANGED store /\ UNCHANGED <<running, calls, imp, exp>>

\* ... writes the request's images, without any mutex ...
SaveImages(req) ==
  /\ phase = "up" /\ req \in asking
  /\ images' = images \cup {req[1]}
  /\ UNCHANGED <<phase, due, disk, torn, mem, lock, faults>> /\ UNCHANGED clients

\* Mutant of ModelInput: the check made before the images were written is trusted.
ModelInputUnchecked(req) ==
  /\ req \in asking /\ Serving(req[1])
  /\ AppendEvent(req[1], InputDraft(req[2], req[3]), FALSE)
  /\ asking' = asking \ {req}
  /\ UNCHANGED <<running, calls, imp, exp>>

\* ... and appends its input row, or finds that it may not any more.
ModelInput(req) ==
  /\ phase = "up" /\ lock = Free /\ req \in asking
  /\ LET c == req[1]
         draft == InputDraft(req[2], req[3])
     IN  \/ Serving(c) /\ AppendEvent(c, draft, TRUE)
         \/ /\ ~Live(mem[c]) \/ HasId(mem[c], draft.id) \/ ~MayRecord(mem[c], draft)
            /\ UNCHANGED store
  /\ asking' = asking \ {req}
  /\ UNCHANGED <<running, calls, imp, exp>>

\* A model result is recorded whatever became of its turn in the meantime, unless its
\* conversation is gone.  (The rows model_event and answer are written likewise.)
ModelResult(req) ==
  /\ phase = "up" /\ lock = Free /\ req \in running
  /\ LET c == req[1] IN
       \/ Serving(c) /\ AppendEvent(c, ResultDraft(req[2], req[3]), FALSE)
       \/ ~Live(mem[c]) /\ UNCHANGED store
  /\ running' = running \ {req}
  /\ UNCHANGED <<asking, calls, imp, exp>>

\* finish looks for an earlier end and releases the mutex ...
FinishCheck(c, t, status) ==
  /\ phase = "up" /\ lock = Free /\ Between < MaxCalls
  /\ Live(mem[c]) /\ ~HasId(mem[c], <<"end", t>>)
  /\ calls' = calls \cup {[conv |-> c, turn |-> t, status |-> status]}
  /\ UNCHANGED store /\ UNCHANGED <<asking, running, imp, exp>>

\* Mutant of FinishAppend: the end is appended without asking again for the active turn.
FinishUnchecked(call) ==
  /\ phase = "up" /\ call \in calls
  /\ AppendEvent(call.conv, EndDraft(call.turn, call.status), FALSE)
  /\ calls' = calls \ {call}
  /\ UNCHANGED <<asking, running, imp, exp>>

\* ... and appends the end, or finds that it may not any more.
FinishAppend(call) ==
  /\ phase = "up" /\ lock = Free /\ call \in calls
  /\ LET draft == EndDraft(call.turn, call.status) IN
       \/ AppendEvent(call.conv, draft, TRUE)
       \/ /\ \/ ~Live(mem[call.conv])
             \/ HasId(mem[call.conv], draft.id)
             \/ ~MayRecord(mem[call.conv], draft)
          /\ UNCHANGED store
  /\ calls' = calls \ {call}
  /\ UNCHANGED <<asking, running, imp, exp>>

\* The version 1 migration appends its rows in order; each is found by its id when the
\* migration is run again.
ImportLegacy(c, i) ==
  /\ Serving(c)
  /\ \A j \in 1 .. i - 1 : HasId(mem[c], LegacyDraft(j, LegacyItems).id)
  /\ AppendEvent(c, LegacyDraft(i, LegacyItems), FALSE)
  /\ UNCHANGED clients

----------------------------------------------------------------------------
(* Deletion.                                                               *)

\* Mutant of Delete: an open turn does not refuse it.
DeleteAnyway(c) ==
  /\ phase = "up"
  /\ Live(mem[c])
  /\ StartWrite(c, Tombstone)
  /\ UNCHANGED clients

\* delete refuses while a turn is open; a repeated delete does nothing.
Delete(c) ==
  /\ phase = "up"
  /\ Live(mem[c]) /\ ActiveTurns(mem[c]) = {}
  /\ StartWrite(c, Tombstone)
  /\ UNCHANGED clients


\* The tombstone is written beside the journal and renamed over it ...
ReplaceFile ==
  /\ Deleting /\ ~Replaced
  /\ disk' = [disk EXCEPT ![lock.conv] = <<Numbered(Tombstone, 1)>>]
  /\ UNCHANGED <<phase, due, torn, mem, images, lock, asking, running, calls, imp, exp, faults>>

\* ... then the image files go, and at last the journal in memory.
RemoveImages ==
  /\ Deleting /\ Replaced
  /\ images' = images \ {lock.conv}
  /\ mem' = [mem EXCEPT ![lock.conv] = <<Numbered(Tombstone, 1)>>]
  /\ lock' = Free
  /\ UNCHANGED <<phase, due, disk, torn, asking, running, calls, imp, exp, faults>>

\* An image file that cannot be removed fails the call between the two.
FailRemoval ==
  /\ RemovalFails /\ phase = "up" /\ faults < MaxFaults
  /\ Deleting /\ Replaced /\ lock.conv \in images
  /\ lock' = Free
  /\ faults' = faults + 1
  /\ UNCHANGED <<phase, due, disk, torn, mem, images, asking, running, calls, imp, exp>>

----------------------------------------------------------------------------
(* Import: the client opens an unpublished conversation, sends the document's  *)
(* rows one request at a time, and commits.                                    *)

BeginImport(c, doc) ==
  /\ Serving(c) /\ mem[c] = <<>>
  /\ imp.phase = "idle"
  /\ StartWrite(c, CreatedDraft("importing"))
  /\ imp' = [phase |-> "writing", conv |-> c, doc |-> doc, pos |-> 0]
  /\ UNCHANGED <<asking, running, calls, exp>>

\* import_events asks once whether the conversation is an import transaction ...
ImportCheck ==
  /\ phase = "up" /\ lock = Free
  /\ imp.phase = "between" /\ imp.pos <= Len(imp.doc)
  /\ imp' = IF Live(mem[imp.conv]) /\ Importing(mem[imp.conv])
              THEN [imp EXCEPT !.phase = "page"] ELSE NoImport
  /\ UNCHANGED store /\ UNCHANGED <<asking, running, calls, exp>>

\* ... and appends each row under the mutex taken again.  A row that is there already is
\* passed over.
ImportAppend ==
  /\ phase = "up" /\ imp.phase = "page"
  /\ LET ev == mem[imp.conv]
         row == imp.doc[imp.pos]
     IN  \/ /\ Len(ev) < MaxEvents
            /\ AppendEvent(imp.conv, row, FALSE)
            /\ imp' = [imp EXCEPT !.phase = "writing"]
         \/ /\ lock = Free
            /\ ~Live(ev) \/ HasId(ev, row.id)
            /\ imp' = IF Live(ev) THEN [imp EXCEPT !.phase = "between", !.pos = @ + 1] ELSE NoImport
            /\ UNCHANGED store
  /\ UNCHANGED <<asking, running, calls, exp>>

\* Mutant of CommitCheck: a turn that is still open does not refuse the commit.
CommitCheckMissing ==
  /\ phase = "up" /\ lock = Free
  /\ imp.phase = "between" /\ imp.pos > Len(imp.doc)
  /\ imp' = IF Live(mem[imp.conv]) THEN [imp EXCEPT !.phase = "commit"] ELSE NoImport
  /\ UNCHANGED store /\ UNCHANGED <<asking, running, calls, exp>>

\* commit_import refuses a journal whose last turn is open, and releases the mutex ...
CommitCheck ==
  /\ phase = "up" /\ lock = Free
  /\ imp.phase = "between" /\ imp.pos > Len(imp.doc)
  /\ imp' = IF Live(mem[imp.conv]) /\ ActiveTurns(mem[imp.conv]) = {}
              THEN [imp EXCEPT !.phase = "commit"] ELSE NoImport
  /\ UNCHANGED store /\ UNCHANGED <<asking, running, calls, exp>>

\* ... before it appends the row that publishes the conversation.
CommitImport ==
  /\ phase = "up" /\ imp.phase = "commit"
  /\ IF Live(mem[imp.conv])
       THEN AppendEvent(imp.conv, CommitDraft, FALSE)
       ELSE lock = Free /\ UNCHANGED store
  /\ imp' = NoImport
  /\ UNCHANGED <<asking, running, calls, exp>>

----------------------------------------------------------------------------
(* Export: the client reads pages until the journal is exhausted.          *)

ExportStart(c) ==
  /\ exp.phase \in {"idle", "done"}
  /\ exp' = [NoExport EXCEPT !.phase = "between", !.conv = c]
  /\ UNCHANGED store /\ UNCHANGED <<asking, running, calls, imp>>

\* export_page compares the revision with the one of the first page (0: no page yet) ...
ExportCheck ==
  /\ phase = "up" /\ lock = Free /\ exp.phase = "between"
  /\ LET ev == mem[exp.conv] IN
       exp' = IF /\ Live(ev) /\ ActiveTurns(ev) = {} /\ ~Importing(ev)
                 /\ exp.revision \in {0, Len(ev)}
                THEN [exp EXCEPT !.phase = "read", !.revision = Len(ev)] ELSE NoExport
  /\ UNCHANGED store /\ UNCHANGED <<asking, running, calls, imp>>

\* Mutant of ExportRead: the revision is not compared again.
ExportReadUnchecked ==
  /\ phase = "up" /\ lock = Free /\ exp.phase = "read"
  /\ LET ev   == mem[exp.conv]
         next == IF Len(exp.got) + PageSize < Len(ev) THEN Len(exp.got) + PageSize ELSE Len(ev)
     IN  exp' = IF Live(ev)
                  THEN [exp EXCEPT !.got = @ \o SubSeq(ev, Len(exp.got) + 1, next),
                                   !.phase = IF next < Len(ev) THEN "between" ELSE "done"]
                  ELSE NoExport
  /\ UNCHANGED store /\ UNCHANGED <<asking, running, calls, imp>>

\* ... and compares again after read took the mutex anew.
ExportRead ==
  /\ phase = "up" /\ lock = Free /\ exp.phase = "read"
  /\ LET ev   == mem[exp.conv]
         next == IF Len(exp.got) + PageSize < Len(ev) THEN Len(exp.got) + PageSize ELSE Len(ev)
     IN  exp' = IF Live(ev) /\ Len(ev) = exp.revision
                  THEN [exp EXCEPT !.got = @ \o SubSeq(ev, Len(exp.got) + 1, next),
                                   !.phase = IF next < Len(ev) THEN "between" ELSE "done"]
                  ELSE NoExport
  /\ UNCHANGED store /\ UNCHANGED <<asking, running, calls, imp>>

----------------------------------------------------------------------------
(* The specification.                                                      *)

Recovery ==
  \/ Open \/ FinishOpen \/ FailOpen \/ Crash
  \/ \E c \in Conv : InterruptTurn(c)

FileSystem == CompleteAppend \/ FailWrite \/ ReplaceFile \/ RemoveImages \/ FailRemoval

Requests ==
  \E c \in Conv :
    \/ Create(c) \/ Delete(c)
    \/ c \in Exported /\ ExportStart(c)
    \/ \E k \in Key : Rename(c, k)
    \/ \E i \in 1 .. LegacyItems : ImportLegacy(c, i)
    \/ \E doc \in Documents : BeginImport(c, doc)
    \/ \E t \in Turn :
         \/ \E role \in Role, reply \in Key \cup {None} : Begin(c, t, role, reply)
         \/ \E k \in Key, shown \in Shown : View(c, t, k, shown)
         \/ \E status \in Outcome : FinishCheck(c, t, status)
         \/ \E k \in Key : AssertActive(c, t, k)

Next ==
  \/ Recovery \/ FileSystem \/ Requests
  \/ \E call \in calls : FinishAppend(call)
  \/ \E req \in asking : SaveImages(req) \/ ModelInput(req)
  \/ \E req \in running : ModelResult(req)
  \/ ImportCheck \/ ImportAppend \/ CommitCheck \/ CommitImport
  \/ ExportCheck \/ ExportRead

\* The client starts a stopped harness on its next request, and a file write returns.  No
\* request has to be made, and nothing has to fail.
Fairness ==
  /\ WF_vars(Open) /\ WF_vars(FinishOpen)
  /\ \A c \in Conv : WF_vars(InterruptTurn(c))
  /\ WF_vars(CompleteAppend) /\ WF_vars(ReplaceFile) /\ WF_vars(RemoveImages)

Spec == Init /\ [][Next]_vars /\ Fairness

----------------------------------------------------------------------------
(* Properties.                                                             *)

Extends(longer, ev) == Len(ev) <= Len(longer) /\ SubSeq(longer, 1, Len(ev)) = ev

\* Every row a reader can be shown is on disk, and nothing else is: append pushes to memory
\* only after the flush, and delete replaces memory only after the file.
ReadableIsDurable ==
  phase # "down" =>
    \A c \in Conv : ~(Deleting /\ lock.conv = c) => mem[c] = disk[c]

\* The rows of every file are numbered 1, 2, 3, ... so that open accepts it.
RowsAreContiguous == \A c \in Conv : Contiguous(disk[c])

\* An event id names one row, and the turns of a conversation never overlap, across finish
\* races, retries of a crashed append and recovery.  (The rows of an import were checked
\* where they were first written.)
TurnsNeverOverlap ==
  \A c \in Conv : UniqueIds(disk[c]) /\ (Imported(disk[c]) \/ OneTurnAtATime(disk[c]))

\* Views, model inputs and ends are rows of the turn that was open when they were written.
EventsInsideTheirTurn == \A c \in Conv : Imported(disk[c]) \/ InsideItsTurn(disk[c])

\* A committed row is never rewritten or dropped, except by the tombstone of a conversation
\* with no open turn, and nothing follows a tombstone.
FilesOnlyGrow ==
  [][\A c \in Conv :
       \/ Extends(disk'[c], disk[c]) /\ (Deleted(disk[c]) => disk'[c] = disk[c])
       \/ disk'[c] = <<Numbered(Tombstone, 1)>> /\ ActiveTurns(disk[c]) = {}]_vars

\* When open returns, no published conversation has a turn left open by the previous run.
NoTurnSurvivesRestart ==
  [][phase # "up" /\ phase' = "up" =>
       \A c \in Conv : Published(mem'[c]) => ActiveTurns(mem'[c]) = {}]_vars

\* An export the client finished is the whole journal at one revision, with no open turn,
\* although every page was read under another acquisition of the mutex.
ExportIsSnapshot ==
  exp.phase = "done" =>
    /\ Len(exp.got) = exp.revision
    /\ Contiguous(exp.got) /\ ActiveTurns(exp.got) = {} /\ ~Importing(exp.got)

\* An import is published with every row of its document, in an order that keeps turns
\* apart, and no turn open.
ImportsPublishWhole ==
  \A c \in Conv : \A n \in DOMAIN mem[c] :
    mem[c][n].kind = "import_complete" =>
      LET before == SubSeq(mem[c], 1, n - 1) IN
        /\ ActiveTurns(before) = {} /\ OneTurnAtATime(before) /\ InsideItsTurn(before)
        /\ \E doc \in Documents : \A i \in DOMAIN doc : HasId(before, doc[i].id)

\* Deletion retains only the tombstone: no image file of a deleted conversation is left.
DeletionRemovesImages ==
  phase = "up" => \A c \in images : ~Deleted(mem[c])

\* A turn that was open when the process stopped ends as interrupted.
StoppedTurnsEnd ==
  \A c \in Conv, t \in Turn :
    phase = "down" /\ Published(disk[c]) /\ t \in ActiveTurns(disk[c])
      ~> HasId(disk[c], <<"end", t>>)

----------------------------------------------------------------------------
(* The store implements the turn lifecycle, read off the files.            *)

Visible(ev) == IF Published(ev) THEN ev ELSE <<>>

TurnOutcome(ev, t) ==
  IF ~HasId(ev, <<"begin", t>>) THEN "none"
  ELSE IF ~HasId(ev, <<"end", t>>) THEN "open"
  ELSE ev[CHOOSE i \in DOMAIN ev : ev[i].id = <<"end", t>>].data[1]

ActiveOf(ev) == IF ActiveTurns(ev) = {} THEN None ELSE CHOOSE t \in ActiveTurns(ev) : TRUE

Turns == INSTANCE TurnLifecycle WITH
  active  <- [c \in Conv |-> ActiveOf(Visible(disk[c]))],
  outcome <- [c \in Conv |-> [t \in Turn |-> TurnOutcome(Visible(disk[c]), t)]],
  gone    <- {c \in Conv : Deleted(disk[c])}

\* Every step of the store, crashes included, is a step of the lifecycle or changes nothing
\* a caller can tell.
ImplementsTurns == Turns!Spec
============================================================================
