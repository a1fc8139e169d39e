--------------------------- MODULE SessionsProofs ---------------------------
(***************************************************************************)
(* Theorems about Sessions, for any number of conversations, turns,        *)
(* documents and crashes.                                                  *)
(*                                                                         *)
(* The argument: rows are written only under the mutex, after the handler  *)
(* found them admissible in the journal in memory, and the journal in      *)
(* memory is the file.  So whatever the file becomes, it is a well-formed  *)
(* journal with one admissible row more, or a tombstone.                   *)
(*                                                                         *)
(* The second part is about what an export returns, what an import         *)
(* publishes, what a restart leaves open, and that the store implements    *)
(* TurnLifecycle.  An export is read under one acquisition of the mutex    *)
(* per page, with everything else in between, restarts included.  What     *)
(* makes it a snapshot is that the rows a reader can be shown only grow,   *)
(* so a journal that has the length it had on the first page is the        *)
(* journal of the first page.  No assumption on the file system is needed. *)
(***************************************************************************)
EXTENDS Sessions, JournalProofs, SequenceTheorems

\* What the types leave open: the cursors of imp and exp point into a document and at a
\* conversation whenever they are used, and an input row names its request.
Cursors ==
  /\ imp.phase # "idle" => imp.conv \in Conv
  /\ imp.phase \in {"between", "page"} => imp.pos >= 1
  /\ imp.phase = "page" => imp.pos <= Len(imp.doc)
  /\ exp.phase # "idle" => exp.conv \in Conv
  /\ lock.draft.kind = "model_input" /\ imp.phase # "writing"
       => lock.draft.turn \in Turn /\ lock.draft.id[2] \in Key

Typed == TypeOK /\ Cursors

\* The empty journal is a journal, of rows and of drafts.
LEMMA NoRowsTyped == NoRows \in Seq(Event) /\ NoRows \in Seq(Drafts)
BY DEF NoRows

\* The records of imp and exp.
ImportState == [phase: ImportPhase, conv: Conv \cup {None}, doc: Documents \cup {NoRows}, pos: Nat]
ExportState == [phase: ExportPhase, conv: Conv \cup {None}, revision: Nat, got: Seq(Event)]

\* The import and the export at rest are well-typed.
LEMMA IdleTyped ==
  /\ NoImport \in ImportState /\ NoImport.phase = "idle"
  /\ NoExport \in ExportState /\ NoExport.phase = "idle"
BY NoRowsTyped DEF NoImport, NoExport, ImportState, ExportState, ImportPhase, ExportPhase

\* The import cursor moves to the next row.
LEMMA ImportAdvanced ==
  ASSUME NEW m \in ImportState
  PROVE  LET next == [m EXCEPT !.phase = "between", !.pos = @ + 1]
         IN  /\ next \in ImportState
             /\ next.phase = "between" /\ next.conv = m.conv /\ next.pos >= 1
<1> DEFINE between == [m EXCEPT !.phase = "between"]
           next == [m EXCEPT !.phase = "between", !.pos = @ + 1]
<1>1. between \in ImportState /\ between.pos = m.pos /\ m.pos \in Nat
  BY DEF ImportState, ImportPhase
<1>2. next = [between EXCEPT !.pos = between.pos + 1]
  OBVIOUS
<1>3. next.phase = "between" /\ next.conv = m.conv /\ next.pos = m.pos + 1
  BY DEF ImportState
<1> HIDE DEF between, next
<1>4. [between EXCEPT !.pos = between.pos + 1] \in ImportState
  BY <1>1 DEF ImportState
<1>5. next \in ImportState /\ next.phase = "between" /\ next.conv = m.conv /\ next.pos >= 1
  BY <1>1, <1>2, <1>3, <1>4
<1>6. QED
  BY <1>5 DEF next

\* The store starts well-typed.
LEMMA TypedInit == Init => Typed
<1>1. Tombstone \in Drafts
  BY BuiltDrafts
<1>2. QED
  BY <1>1, NoneIsNoConv, BoundsAreNumbers, NoRowsTyped
     DEF Init, Typed, TypeOK, Cursors, Free, Tombstone, Draft, NoImport, NoExport, ImportPhase, ExportPhase

\* The half of TypeOK about the store and the half about its clients.
StoreTyped ==
  /\ phase \in {"down", "recovering", "up"}
  /\ disk \in [Conv -> Seq(Event)] /\ mem \in [Conv -> Seq(Event)]
  /\ due \subseteq Conv /\ torn \subseteq Conv /\ images \subseteq Conv
  /\ lock \in [conv: Conv \cup {None}, draft: Drafts]
  /\ faults \in 0 .. MaxFaults

ClientsTyped ==
  /\ asking \subseteq Conv \X Turn \X Key /\ running \subseteq Conv \X Turn \X Key
  /\ calls \subseteq [conv: Conv, turn: Turn, status: Outcome]
  /\ imp \in ImportState
  /\ exp \in ExportState

\* The types, split into those of the store, of its clients and of the cursors.
LEMMA TypedParts == Typed <=> StoreTyped /\ ClientsTyped /\ Cursors
BY DEF Typed, TypeOK, StoreTyped, ClientsTyped, ImportState, ExportState

\* The same split of the next state.
LEMMA TypedPartsPrimed == Typed' <=> StoreTyped' /\ ClientsTyped' /\ Cursors'
BY DEF Typed, TypeOK, StoreTyped, ClientsTyped, ImportState, ExportState

\* A step that leaves the clients and the mutex alone keeps their types.
LEMMA ClientsStutter ==
  ASSUME ClientsTyped, Cursors, UNCHANGED clients,
         lock' = lock \/ lock'.draft.kind # "model_input"
  PROVE  (ClientsTyped /\ Cursors)'
BY DEF ClientsTyped, Cursors, clients

\* A step that leaves the store alone keeps its types.
LEMMA StoreStutter == (StoreTyped /\ UNCHANGED store) => StoreTyped'
BY DEF StoreTyped, store

\* A step of the export alone.
LEMMA ExportOnly ==
  ASSUME StoreTyped, ClientsTyped, Cursors, UNCHANGED store, UNCHANGED <<asking, running, calls, imp>>,
         exp' \in ExportState,
         exp'.phase # "idle" => exp'.conv \in Conv
  PROVE  StoreTyped' /\ ClientsTyped' /\ Cursors'
<1>1. StoreTyped'
  BY StoreStutter
<1>2. ClientsTyped'
  BY DEF ClientsTyped
<1>3. Cursors'
  BY DEF Cursors, store
<1>4. QED
  BY <1>1, <1>2, <1>3

\* Taking the mutex for a draft.
LEMMA StartWriteStore ==
  ASSUME StoreTyped, NEW c \in Conv, NEW draft \in Drafts, StartWrite(c, draft)
  PROVE  StoreTyped' /\ lock'.draft = draft
BY DEF StoreTyped, StartWrite

\* append keeps the types of the store: it only takes the mutex.
LEMMA AppendEventStore ==
  ASSUME StoreTyped, NEW c \in Conv, NEW draft \in Drafts, NEW active \in BOOLEAN,
         AppendEvent(c, draft, active)
  PROVE  StoreTyped' /\ lock'.draft = draft
BY StartWriteStore DEF AppendEvent

\* The row under the mutex is an event.
LEMMA RowIsEvent == ASSUME StoreTyped, lock.conv \in Conv PROVE Row \in Event
BY NumberedFields DEF StoreTyped, Row

\* Every step of the store and of its clients keeps the types.
LEMMA TypedNext == Typed /\ [Next]_vars => Typed'
<1>. SUFFICES ASSUME StoreTyped, ClientsTyped, Cursors, [Next]_vars
              PROVE  StoreTyped' /\ ClientsTyped' /\ Cursors'
  BY TypedParts, TypedPartsPrimed
<1>1. ASSUME CompleteAppend PROVE StoreTyped' /\ ClientsTyped' /\ Cursors'
  <2>1. lock.conv \in Conv /\ Row \in Event
    BY <1>1, RowIsEvent DEF CompleteAppend, Writing, StoreTyped
  <2>2. StoreTyped'
    BY <1>1, <2>1, BuiltDrafts, NoneIsNoConv DEF CompleteAppend, StoreTyped, Free
  <2>3. running' \subseteq Conv \X Turn \X Key
    BY <1>1, <2>1 DEF CompleteAppend, ClientsTyped, Cursors
  <2>4. lock'.draft.kind # "model_input"
    BY <1>1 DEF CompleteAppend, Free, Tombstone, Draft
  <2>5. CASE imp.phase = "writing"
    <3>1. imp' = [imp EXCEPT !.phase = "between", !.pos = @ + 1]
      BY <1>1, <2>5 DEF CompleteAppend
    <3>2. imp' \in ImportState /\ imp'.phase = "between" /\ imp'.conv = imp.conv /\ imp'.pos >= 1
      BY <3>1, ImportAdvanced DEF ClientsTyped
    <3>3. ClientsTyped'
      BY <1>1, <2>3, <3>2 DEF CompleteAppend, ClientsTyped
    <3>5. Cursors'
      BY <1>1, <2>4, <2>5, <3>2 DEF CompleteAppend, Cursors
    <3>6. QED
      BY <2>2, <3>3, <3>5
  <2>6. CASE imp.phase # "writing"
    BY <1>1, <2>2, <2>3, <2>4, <2>6 DEF CompleteAppend, ClientsTyped, Cursors, ImportState, ImportPhase
  <2>7. QED
    BY <2>5, <2>6
<1>2. ASSUME FailWrite PROVE StoreTyped' /\ ClientsTyped' /\ Cursors'
  <2>1. StoreTyped'
    BY <1>2, BuiltDrafts, BoundsAreNumbers DEF FailWrite, StoreTyped, Free
  <2>2. QED
    BY <1>2, <2>1, IdleTyped DEF FailWrite, ClientsTyped, Cursors, ImportState, ImportPhase, Free, Tombstone, Draft
<1>3. ASSUME Crash \/ FailOpen PROVE StoreTyped' /\ ClientsTyped' /\ Cursors'
  <2>1. Stop
    BY <1>3 DEF Crash, FailOpen
  <2>2. disk' \in [Conv -> Seq(Event)] /\ torn' \subseteq Conv
    <3>1. CASE UNCHANGED <<disk, torn>>
      BY <3>1 DEF StoreTyped
    <3>2. CASE Writing
      <4>1. lock.conv \in Conv /\ Row \in Event
        BY <3>2, RowIsEvent DEF Writing, StoreTyped
      <4>2. Append(disk[lock.conv], Row) \in Seq(Event)
        BY <4>1 DEF StoreTyped
      <4>3. QED
        BY <1>3, <4>1, <4>2 DEF Crash, FailOpen, StoreTyped
    <3>3. QED
      BY <1>3, <3>1, <3>2 DEF Crash, FailOpen
  <2>3. StoreTyped'
    BY <2>1, <2>2, BuiltDrafts, BoundsAreNumbers DEF Stop, StoreTyped, Free
  <2>4. QED
    BY <2>1, <2>3, IdleTyped
       DEF Stop, ClientsTyped, Cursors,
           Free, Tombstone, Draft
<1>4. ASSUME Open PROVE StoreTyped' /\ ClientsTyped' /\ Cursors'
  <2>1. StoreTyped'
    BY <1>4 DEF Open, StoreTyped
  <2>2. QED
    BY <1>4, <2>1, ClientsStutter DEF Open, clients
<1>5. ASSUME NEW c \in Conv, InterruptTurn(c) PROVE StoreTyped' /\ ClientsTyped' /\ Cursors'
  <2>1. PICK t \in ActiveTurns(mem[c]) : lock' = lock \/ lock' = [conv |-> c, draft |-> EndDraft(t, "interrupted")]
    BY <1>5 DEF InterruptTurn
  <2>2. EndDraft(t, "interrupted") \in Drafts
    BY <2>1, BuiltDrafts DEF ActiveTurns, Outcome
  <2>3. StoreTyped'
    BY <1>5, <2>1, <2>2 DEF InterruptTurn, StoreTyped
  <2>4. QED
    BY <1>5, <2>1, <2>3, ClientsStutter DEF InterruptTurn, EndDraft, Draft
<1>6. ASSUME FinishOpen PROVE StoreTyped' /\ ClientsTyped' /\ Cursors'
  <2>1. StoreTyped'
    BY <1>6 DEF FinishOpen, StoreTyped
  <2>2. QED
    BY <1>6, <2>1, ClientsStutter DEF FinishOpen, clients
<1>7. ASSUME ReplaceFile \/ RemoveImages \/ FailRemoval PROVE StoreTyped' /\ ClientsTyped' /\ Cursors'
  <2>1. <<Numbered(Tombstone, 1)>> \in Seq(Event)
    BY BuiltDrafts, NumberedFields
  <2>2. CASE ReplaceFile
    <3>1. StoreTyped'
      BY <2>1, <2>2 DEF ReplaceFile, StoreTyped
    <3>2. QED
      BY <2>2, <3>1, ClientsStutter DEF ReplaceFile, clients
  <2>3. CASE RemoveImages \/ FailRemoval
    <3>1. lock' = Free /\ Free \in [conv: Conv \cup {None}, draft: Drafts]
      BY <2>3, BuiltDrafts DEF RemoveImages, FailRemoval, Free
    <3>2. mem' \in [Conv -> Seq(Event)]
      BY <2>1, <2>3 DEF RemoveImages, FailRemoval, StoreTyped
    <3>3. images' \subseteq Conv
      BY <2>3 DEF RemoveImages, FailRemoval, StoreTyped
    <3>4. faults' \in 0 .. MaxFaults
      BY <2>3, BoundsAreNumbers DEF RemoveImages, FailRemoval, StoreTyped
    <3>5. StoreTyped'
      BY <2>3, <3>1, <3>2, <3>3, <3>4 DEF RemoveImages, FailRemoval, StoreTyped
    <3>6. QED
      BY <2>3, <3>1, <3>5, ClientsStutter DEF RemoveImages, FailRemoval, clients, Free, Tombstone, Draft
  <2>4. QED
    BY <1>7, <2>2, <2>3
<1>8. ASSUME NEW c \in Conv, Create(c) \/ Delete(c) PROVE StoreTyped' /\ ClientsTyped' /\ Cursors'
  <2>1. StoreTyped' /\ lock'.draft.kind # "model_input"
    BY <1>8, BuiltDrafts, DraftKinds, StartWriteStore DEF Create, Delete
  <2>2. QED
    BY <1>8, <2>1, ClientsStutter DEF Create, Delete
<1>9. ASSUME NEW c \in Conv, NEW k \in Key, Rename(c, k) PROVE StoreTyped' /\ ClientsTyped' /\ Cursors'
  <2>1. StoreTyped' /\ lock'.draft.kind # "model_input"
    BY <1>9, BuiltDrafts, DraftKinds, AppendEventStore DEF Rename
  <2>2. QED
    BY <1>9, <2>1, ClientsStutter DEF Rename
<1>10. ASSUME NEW c \in Conv, NEW i \in 1 .. LegacyItems, ImportLegacy(c, i)
       PROVE  StoreTyped' /\ ClientsTyped' /\ Cursors'
  <2>1. LegacyDraft(i, LegacyItems) \in Drafts
    BY BuiltDrafts, BoundsAreNumbers
  <2>2. StoreTyped' /\ lock'.draft.kind # "model_input"
    BY <1>10, <2>1, DraftKinds, AppendEventStore DEF ImportLegacy
  <2>3. QED
    BY <1>10, <2>2, ClientsStutter DEF ImportLegacy
<1>11. ASSUME NEW c \in Conv, NEW t \in Turn, NEW role \in Role, NEW reply \in Key \cup {None},
              Begin(c, t, role, reply)
       PROVE  StoreTyped' /\ ClientsTyped' /\ Cursors'
  <2>1. StoreTyped' /\ lock'.draft.kind # "model_input"
    BY <1>11, BuiltDrafts, DraftKinds, AppendEventStore DEF Begin
  <2>2. QED
    BY <1>11, <2>1, ClientsStutter DEF Begin
<1>12. ASSUME NEW c \in Conv, NEW t \in Turn, NEW k \in Key, NEW shown \in Shown, View(c, t, k, shown)
       PROVE  StoreTyped' /\ ClientsTyped' /\ Cursors'
  <2>1. StoreTyped' /\ lock'.draft.kind # "model_input"
    BY <1>12, BuiltDrafts, DraftKinds, AppendEventStore DEF View
  <2>2. QED
    BY <1>12, <2>1, ClientsStutter DEF View
<1>13. ASSUME NEW c \in Conv, NEW t \in Turn, NEW k \in Key, AssertActive(c, t, k)
       PROVE  StoreTyped' /\ ClientsTyped' /\ Cursors'
  BY <1>13, StoreStutter DEF AssertActive, ClientsTyped, Cursors, store
<1>14. ASSUME NEW req \in asking, SaveImages(req) PROVE StoreTyped' /\ ClientsTyped' /\ Cursors'
  <2>1. StoreTyped'
    BY <1>14 DEF SaveImages, StoreTyped, ClientsTyped
  <2>2. QED
    BY <1>14, <2>1, ClientsStutter DEF SaveImages
<1>15. ASSUME NEW req \in asking, ModelInput(req) PROVE StoreTyped' /\ ClientsTyped' /\ Cursors'
  <2>1. req[1] \in Conv /\ InputDraft(req[2], req[3]) \in Drafts
    BY BuiltDrafts DEF ClientsTyped
  <2>2. StoreTyped'
    BY <1>15, <2>1, AppendEventStore, StoreStutter DEF ModelInput
  <2>3. lock' = lock \/ lock'.draft = InputDraft(req[2], req[3])
    BY <1>15, <2>1, AppendEventStore DEF ModelInput, store
  <2>4. req[2] \in Turn /\ req[3] \in Key
    BY DEF ClientsTyped
  <2>5. InputDraft(req[2], req[3]).turn = req[2] /\ InputDraft(req[2], req[3]).id[2] = req[3]
    BY DEF InputDraft, Draft
  <2>6. QED
    BY <1>15, <2>2, <2>3, <2>4, <2>5 DEF ModelInput, ClientsTyped, Cursors
<1>16. ASSUME NEW req \in running, ModelResult(req) PROVE StoreTyped' /\ ClientsTyped' /\ Cursors'
  <2>1. req[1] \in Conv /\ ResultDraft(req[2], req[3]) \in Drafts
    BY BuiltDrafts DEF ClientsTyped
  <2>2. StoreTyped'
    BY <1>16, <2>1, AppendEventStore, StoreStutter DEF ModelResult
  <2>3. lock' = lock \/ lock'.draft.kind # "model_input"
    BY <1>16, <2>1, DraftKinds, AppendEventStore DEF ModelResult, store
  <2>4. QED
    BY <1>16, <2>2, <2>3 DEF ModelResult, ClientsTyped, Cursors
<1>17. ASSUME NEW c \in Conv, NEW t \in Turn, NEW status \in Outcome, FinishCheck(c, t, status)
       PROVE  StoreTyped' /\ ClientsTyped' /\ Cursors'
  BY <1>17, StoreStutter DEF FinishCheck, ClientsTyped, Cursors, store
<1>18. ASSUME NEW call \in calls, FinishAppend(call) PROVE StoreTyped' /\ ClientsTyped' /\ Cursors'
  <2>1. call.conv \in Conv /\ EndDraft(call.turn, call.status) \in Drafts
    BY BuiltDrafts DEF ClientsTyped
  <2>2. StoreTyped'
    BY <1>18, <2>1, AppendEventStore, StoreStutter DEF FinishAppend
  <2>3. lock' = lock \/ lock'.draft.kind # "model_input"
    BY <1>18, <2>1, DraftKinds, AppendEventStore DEF FinishAppend, store
  <2>4. QED
    BY <1>18, <2>2, <2>3 DEF FinishAppend, ClientsTyped, Cursors
<1>19. ASSUME NEW c \in Conv, NEW doc \in Documents, BeginImport(c, doc)
       PROVE  StoreTyped' /\ ClientsTyped' /\ Cursors'
  <2>1. StoreTyped'
    BY <1>19, BuiltDrafts, StartWriteStore DEF BeginImport
  <2>2. QED
    BY <1>19, <2>1 DEF BeginImport, ClientsTyped, Cursors, ImportState, ImportPhase
<1>20. ASSUME ImportAppend PROVE StoreTyped' /\ ClientsTyped' /\ Cursors'
  <2>1. imp.conv \in Conv /\ imp.doc[imp.pos] \in Drafts /\ imp.pos \in Nat
    <3>1. imp.doc \in Seq(Drafts)
      BY DocumentsAreJournals, NoRowsTyped DEF ClientsTyped, ImportState
    <3>2. imp.pos \in 1 .. Len(imp.doc)
      BY <1>20, <3>1 DEF ImportAppend, ClientsTyped, ImportState, Cursors
    <3>3. QED
      BY <1>20, <3>1, <3>2 DEF ImportAppend, Cursors
  <2>2. StoreTyped'
    BY <1>20, <2>1, AppendEventStore, StoreStutter DEF ImportAppend
  <2>3. CASE imp' = [imp EXCEPT !.phase = "writing"]
    BY <1>20, <2>1, <2>2, <2>3 DEF ImportAppend, ClientsTyped, Cursors, ImportState, ImportPhase
  <2>4. CASE UNCHANGED store /\ imp' = [imp EXCEPT !.phase = "between", !.pos = @ + 1]
    <3>1. imp' \in ImportState /\ imp'.phase = "between" /\ imp'.conv = imp.conv /\ imp'.pos >= 1
      BY <2>4, ImportAdvanced DEF ClientsTyped
    <3>3. ClientsTyped'
      BY <1>20, <3>1 DEF ImportAppend, ClientsTyped
    <3>4. lock = Free
      BY <1>20, <2>4 DEF ImportAppend, AppendEvent, StartWrite, store
    <3>5. Cursors'
      BY <1>20, <2>1, <2>4, <3>1, <3>4, DraftKinds DEF ImportAppend, Cursors, store, Free
    <3>6. QED
      BY <2>2, <3>3, <3>5
  <2>5. CASE UNCHANGED store /\ lock = Free /\ imp' = NoImport
    BY <1>20, <2>1, <2>2, <2>5, IdleTyped
       DEF ImportAppend, ClientsTyped, Cursors, ImportState, ImportPhase, store, Free, Tombstone, Draft
  <2>6. QED
    BY <1>20, <2>3, <2>4, <2>5 DEF ImportAppend
<1>21. ASSUME ImportCheck \/ CommitCheck PROVE StoreTyped' /\ ClientsTyped' /\ Cursors'
  <2>1. StoreTyped'
    BY <1>21, StoreStutter DEF ImportCheck, CommitCheck
  <2>2. QED
    BY <1>21, <2>1, IdleTyped
       DEF ImportCheck, CommitCheck, ClientsTyped, Cursors, ImportState, ImportPhase, store,
           Free, Tombstone, Draft
<1>22. ASSUME CommitImport PROVE StoreTyped' /\ ClientsTyped' /\ Cursors'
  <2>1. StoreTyped'
    BY <1>22, BuiltDrafts, AppendEventStore, StoreStutter DEF CommitImport, Cursors
  <2>2. QED
    <3>1. lock'.draft.kind # "model_input"
      <4>1. CASE Live(mem[imp.conv])
        BY <1>22, <4>1, BuiltDrafts, DraftKinds, AppendEventStore DEF CommitImport, Cursors
      <4>2. CASE ~Live(mem[imp.conv])
        BY <1>22, <4>2, DraftKinds DEF CommitImport, store, Free
      <4>3. QED
        BY <4>1, <4>2
    <3>2. QED
      BY <1>22, <2>1, <3>1, IdleTyped DEF CommitImport, ClientsTyped, Cursors, ImportState, ImportPhase
<1>23. ASSUME NEW c \in Conv, ExportStart(c) PROVE StoreTyped' /\ ClientsTyped' /\ Cursors'
  <2>1. exp' = [phase |-> "between", conv |-> c, revision |-> 0, got |-> NoRows]
    BY <1>23 DEF ExportStart, NoExport
  <2>2. QED
    BY <1>23, <2>1, NoRowsTyped, ExportOnly DEF ExportStart, ExportState, ExportPhase
<1>24. ASSUME ExportCheck PROVE StoreTyped' /\ ClientsTyped' /\ Cursors'
  <2>1. mem[exp.conv] \in Seq(Event) /\ Len(mem[exp.conv]) \in Nat /\ exp.conv \in Conv
    BY <1>24 DEF ExportCheck, Cursors, StoreTyped
  <2>2. CASE exp' = NoExport
    BY <1>24, <2>2, IdleTyped, ExportOnly DEF ExportCheck
  <2>3. CASE exp' = [exp EXCEPT !.phase = "read", !.revision = Len(mem[exp.conv])]
    <3>1. exp' \in ExportState
          /\ exp'.conv \in Conv
      BY <2>1, <2>3 DEF ClientsTyped, ExportState, ExportPhase
    <3>2. QED
      BY <1>24, <3>1, ExportOnly DEF ExportCheck
  <2>4. QED
    BY <1>24, <2>2, <2>3 DEF ExportCheck
<1>25. ASSUME ExportRead PROVE StoreTyped' /\ ClientsTyped' /\ Cursors'
  <2>1. mem[exp.conv] \in Seq(Event) /\ Len(mem[exp.conv]) \in Nat /\ exp.conv \in Conv
    BY <1>25 DEF ExportRead, Cursors, StoreTyped
  <2>2. exp.got \in Seq(Event) /\ Len(exp.got) \in Nat
    BY DEF ClientsTyped, ExportState
  <2>3. CASE exp' = NoExport
    BY <1>25, <2>3, IdleTyped, ExportOnly DEF ExportRead
  <2>4. CASE exp' # NoExport
    <3>1. PICK next \in Nat, after \in ExportPhase :
            /\ next <= Len(mem[exp.conv])
            /\ exp' = [exp EXCEPT !.got = @ \o SubSeq(mem[exp.conv], Len(exp.got) + 1, next),
                                 !.phase = after]
      <4>1. PICK next \in Nat :
              /\ next = IF Len(exp.got) + PageSize < Len(mem[exp.conv])
                          THEN Len(exp.got) + PageSize ELSE Len(mem[exp.conv])
              /\ next <= Len(mem[exp.conv])
        BY <2>1, <2>2, BoundsAreNumbers
      <4>2. exp' = [exp EXCEPT !.got = @ \o SubSeq(mem[exp.conv], Len(exp.got) + 1, next),
                               !.phase = IF next < Len(mem[exp.conv]) THEN "between" ELSE "done"]
        BY <1>25, <2>4, <4>1 DEF ExportRead
      <4>3. QED
        BY <4>1, <4>2 DEF ExportPhase
    <3>2. SubSeq(mem[exp.conv], Len(exp.got) + 1, next) \in Seq(Event)
      BY <2>1, <2>2, <3>1
    <3>3. exp.got \o SubSeq(mem[exp.conv], Len(exp.got) + 1, next) \in Seq(Event)
      BY <2>2, <3>2
    <3>4. exp' \in ExportState
          /\ exp'.conv \in Conv
      BY <2>1, <3>1, <3>3 DEF ClientsTyped, ExportState
    <3>5. QED
      BY <1>25, <3>4, ExportOnly DEF ExportRead
  <2>5. QED
    BY <2>3, <2>4
<1>26. ASSUME UNCHANGED vars PROVE StoreTyped' /\ ClientsTyped' /\ Cursors'
  BY <1>26, StoreStutter, ClientsStutter DEF vars, store, clients
<1>27. QED
  BY <1>1, <1>2, <1>3, <1>4, <1>5, <1>6, <1>7, <1>8, <1>9, <1>10, <1>11, <1>12, <1>13, <1>14,
     <1>15, <1>16, <1>17, <1>18, <1>19, <1>20, <1>21, <1>22, <1>23, <1>24, <1>25, <1>26
     DEF Next, Recovery, FileSystem, Requests

\* Every variable keeps its type, whatever is lost, torn or retried.
THEOREM TypeCorrect == Spec => []TypeOK
<1>1. Typed => TypeOK
  BY DEF Typed
<1>2. QED
  BY <1>1, TypedInit, TypedNext, PTL DEF Spec

----------------------------------------------------------------------------
(* The journals.                                                           *)

\* Memory is the file, except between the tombstone's rename and the end of delete.
Synced(c) == mem[c] = disk[c] \/ (Deleting /\ lock.conv = c /\ disk[c] = TombstoneRows)

\* The row being written was admissible when the mutex was taken, and still is.
Admitted ==
  Writing /\ lock.draft # Tombstone =>
    /\ lock.draft.kind # "deleted"
    /\ ~Deleted(mem[lock.conv]) /\ ~HasId(mem[lock.conv], lock.draft.id)
    /\ Imported(mem[lock.conv]) \/ Admissible(mem[lock.conv], lock.draft)

\* A conversation is deleted while no turn is open in it.
Deletable == Deleting => ~Deleted(mem[lock.conv]) /\ ActiveTurns(mem[lock.conv]) = {}

\* Rows are imported into a journal that was begun as an import.
PageIsImport ==
  imp.phase = "page" =>
    /\ phase = "up" /\ mem[imp.conv] # <<>>
    /\ Imported(mem[imp.conv]) \/ Deleted(mem[imp.conv])

Sound ==
  /\ phase = "down" => lock = Free
  /\ phase # "down" => \A c \in Conv : Synced(c)
  /\ Admitted /\ Deletable /\ PageIsImport
  /\ \A c \in Conv : WellFormed(disk[c])

\* A free mutex holds no write, so no deletion either.
LEMMA FreeIsNotWriting == lock = Free => ~Writing /\ ~Deleting
BY DEF Free, Writing, Deleting

\* The empty store is sound.
LEMMA SoundInit == Init => Sound
<1>. SUFFICES ASSUME Init PROVE Sound
  OBVIOUS
<1>1. lock = Free /\ ~Writing /\ ~Deleting /\ phase = "down"
  BY FreeIsNotWriting DEF Init
<1>2. imp.phase = "idle"
  BY DEF Init, NoImport
<1>3. \A c \in Conv : WellFormed(disk[c])
  BY EmptyWellFormed DEF Init
<1>4. QED
  BY <1>1, <1>2, <1>3 DEF Sound, Admitted, Deletable, PageIsImport

\* A step that leaves the store alone, and the import cursor unless it leaves the page.
LEMMA SoundStutter ==
  ASSUME Sound, UNCHANGED <<phase, disk, mem, lock>>, imp'.phase = "page" => imp' = imp
  PROVE  Sound'
<1>1. Admitted' /\ Deletable'
  BY DEF Sound, Admitted, Deletable, Writing, Deleting
<1>2. PageIsImport'
  BY DEF Sound, PageIsImport
<1>3. (\A c \in Conv : Synced(c)) => (\A c \in Conv : Synced(c))'
  BY DEF Synced, Writing, Deleting
<1>4. QED
  BY <1>1, <1>2, <1>3 DEF Sound

\* Taking the mutex for a row that is admissible, or for a tombstone.
LEMMA SoundStartWrite ==
  ASSUME Typed, Sound, phase # "down", NEW c \in Conv, NEW draft \in Drafts,
         lock = Free, lock' = [conv |-> c, draft |-> draft], UNCHANGED <<phase, disk, mem>>,
         imp'.phase = "page" => imp' = imp,
         ~Deleted(mem[c]),
         draft = Tombstone => ActiveTurns(mem[c]) = {},
         draft # Tombstone => /\ draft.kind # "deleted" /\ ~HasId(mem[c], draft.id)
                              /\ Imported(mem[c]) \/ Admissible(mem[c], draft)
  PROVE  Sound'
<1>1. lock'.conv = c /\ lock'.draft = draft
  OBVIOUS
<1>2. ~Writing /\ ~Deleting
  BY FreeIsNotWriting
<1>3. \A d \in Conv : mem[d] = disk[d]
  BY <1>2 DEF Sound, Synced
<1>4. Admitted'
  BY <1>1 DEF Admitted
<1>5. Deletable'
  BY <1>1 DEF Deletable, Deleting
<1>6. PageIsImport'
  BY DEF Sound, PageIsImport
<1>7. QED
  BY <1>3, <1>4, <1>5, <1>6 DEF Sound, Synced

\* append takes the mutex for a row it found admissible.
LEMMA SoundAppendEvent ==
  ASSUME Typed, Sound, phase # "down", NEW c \in Conv, NEW draft \in Drafts, NEW active \in BOOLEAN,
         AppendEvent(c, draft, active), imp'.phase = "page" => imp' = imp,
         draft.kind # "deleted", Imported(mem[c]) \/ Admissible(mem[c], draft)
  PROVE  Sound'
<1>1. draft # Tombstone
  BY DraftKinds
<1>2. QED
  BY <1>1, SoundStartWrite DEF AppendEvent, StartWrite, Live

\* What the guard of append makes of an event that needs an active request.
LEMMA MayRecordAdmits ==
  ASSUME NEW ev, NEW draft, draft.turn \in Turn, MayRecord(ev, draft)
  PROVE  Admissible(ev, draft)
BY DEF MayRecord, Admissible, ScopedKind

\* The write is over: the file and memory hold the row, and the mutex is free.
LEMMA SoundCompleteAppend == ASSUME Typed, Sound, CompleteAppend PROVE Sound'
<1> DEFINE c == lock.conv
           new == Extended(mem[c], lock.draft)
<1>1. /\ c \in Conv /\ lock.draft \in Drafts /\ phase # "down" /\ ~Deleting
      /\ mem \in [Conv -> Seq(Event)] /\ disk \in [Conv -> Seq(Event)]
  BY FreeIsNotWriting DEF CompleteAppend, Writing, Deleting, Typed, TypeOK, Sound
<1>2. \A d \in Conv : mem[d] = disk[d]
  BY <1>1 DEF Sound, Synced
<1>3. mem' = [mem EXCEPT ![c] = new] /\ disk' = [disk EXCEPT ![c] = new]
  BY <1>1, <1>2 DEF CompleteAppend, Row, Extended
<1>4. WellFormed(new)
  BY <1>1, <1>2, ExtendedWellFormed DEF Sound, Admitted, CompleteAppend
<1>5. lock' = Free /\ phase' = phase
  BY DEF CompleteAppend
<1>6. ~Writing' /\ ~Deleting'
  BY <1>5 DEF Free, Writing, Deleting
<1>7. \A d \in Conv : mem'[d] = disk'[d]
  BY <1>1, <1>2, <1>3
<1>8. \A d \in Conv : WellFormed(disk'[d])
  BY <1>1, <1>3, <1>4 DEF Sound
<1>9. PageIsImport'
  <2>1. SUFFICES ASSUME imp'.phase = "page" PROVE PageIsImport'
    BY DEF PageIsImport
  <2>2. imp' = imp
    BY <2>1 DEF CompleteAppend, Typed, TypeOK
  <2>3. imp.conv \in Conv
    BY <2>1, <2>2 DEF Typed, Cursors
  <2>4. \A d \in Conv : mem'[d] = mem[d] \/ (d = c /\ mem'[d] = new)
    BY <1>1, <1>3
  <2>5. QED
    BY <1>1, <1>5, <2>1, <2>2, <2>3, <2>4, ExtendedFirst DEF Sound, PageIsImport
<1>10. QED
  BY <1>1, <1>5, <1>6, <1>7, <1>8, <1>9 DEF Sound, Synced, Admitted, Deletable

\* A crash, or a write that fails inside open, leaves every file well-formed.
LEMMA SoundStop == ASSUME Typed, Sound, Crash \/ FailOpen PROVE Sound'
<1>1. /\ phase' = "down" /\ lock' = Free /\ imp'.phase # "page"
  BY DEF Crash, FailOpen, Stop, NoImport, Typed, TypeOK
<1>2. ~Writing' /\ ~Deleting'
  BY <1>1 DEF Free, Writing, Deleting
<1>3. \A c \in Conv : WellFormed(disk'[c])
  <2>1. CASE disk' = disk
    BY <2>1 DEF Sound
  <2>2. CASE /\ Crash /\ Writing /\ lock.draft # Tombstone
             /\ disk' = [disk EXCEPT ![lock.conv] = Append(@, Row)]
    <3> DEFINE c == lock.conv
    <3>1. /\ c \in Conv /\ lock.draft \in Drafts /\ phase # "down" /\ ~Deleting
          /\ mem \in [Conv -> Seq(Event)] /\ disk \in [Conv -> Seq(Event)]
      BY <2>2 DEF Crash, Writing, Deleting, Typed, TypeOK
    <3>2. mem[c] = disk[c]
      BY <3>1 DEF Sound, Synced
    <3>3. disk' = [disk EXCEPT ![c] = Extended(mem[c], lock.draft)]
      BY <2>2, <3>1, <3>2 DEF Row, Extended
    <3>4. WellFormed(Extended(mem[c], lock.draft))
      BY <2>2, <3>1, <3>2, ExtendedWellFormed DEF Sound, Admitted
    <3>5. QED
      BY <3>1, <3>3, <3>4 DEF Sound
  <2>3. QED
    BY <2>1, <2>2 DEF Crash, FailOpen
<1>4. QED
  BY <1>1, <1>2, <1>3 DEF Sound, Admitted, Deletable, PageIsImport

\* A failed write frees the mutex; delete has renamed nothing yet.
LEMMA SoundFailWrite == ASSUME Typed, Sound, FailWrite PROVE Sound'
<1>1. /\ phase = "up" /\ phase' = phase /\ lock' = Free /\ disk' = disk /\ mem' = mem
      /\ imp'.phase = "page" => imp' = imp
  BY DEF FailWrite, NoImport
<1>2. ~Writing' /\ ~Deleting'
  BY <1>1 DEF Free, Writing, Deleting
<1>3. \A c \in Conv : mem[c] = disk[c]
  BY <1>1 DEF FailWrite, Sound, Synced, Deleting, Replaced, TombstoneRows
<1>4. QED
  BY <1>1, <1>2, <1>3 DEF Sound, Synced, Admitted, Deletable, PageIsImport

\* The two halves of delete.
LEMMA SoundReplaceFile == ASSUME Typed, Sound, ReplaceFile PROVE Sound'
<1>1. /\ Deleting /\ lock.conv \in Conv /\ disk \in [Conv -> Seq(Event)]
      /\ disk' = [disk EXCEPT ![lock.conv] = TombstoneRows]
      /\ UNCHANGED <<phase, mem, lock, imp>>
  BY DEF ReplaceFile, Deleting, Writing, Typed, TypeOK, TombstoneRows
<1>2. \A c \in Conv : WellFormed(disk'[c])
  BY <1>1, TombstoneWellFormed DEF Sound
<1>3. phase # "down" => \A c \in Conv : Synced(c)'
  BY <1>1 DEF Sound, Synced, Deleting, Writing
<1>4. Admitted' /\ Deletable' /\ PageIsImport'
  BY <1>1 DEF Sound, Admitted, Deletable, PageIsImport, Deleting, Writing
<1>5. QED
  BY <1>1, <1>2, <1>3, <1>4 DEF Sound

\* The images are gone and memory follows the file.
LEMMA SoundRemoveImages == ASSUME Typed, Sound, RemoveImages PROVE Sound'
<1>1. /\ Deleting /\ lock.conv \in Conv /\ mem \in [Conv -> Seq(Event)]
      /\ mem' = [mem EXCEPT ![lock.conv] = TombstoneRows] /\ lock' = Free
      /\ UNCHANGED <<phase, disk, imp>>
  BY DEF RemoveImages, Deleting, Writing, Typed, TypeOK, TombstoneRows
<1>2. ~Writing' /\ ~Deleting' /\ phase # "down"
  BY <1>1, FreeIsNotWriting DEF Free, Writing, Deleting, Sound
<1>3. disk[lock.conv] = TombstoneRows
  BY DEF RemoveImages, Replaced, TombstoneRows
<1>4. \A c \in Conv : mem'[c] = disk'[c]
  BY <1>1, <1>2, <1>3 DEF Sound, Synced
<1>5. PageIsImport'
  BY <1>1, TombstoneWellFormed DEF Sound, PageIsImport, Typed, Cursors
<1>6. QED
  BY <1>1, <1>2, <1>4, <1>5 DEF Sound, Synced, Admitted, Deletable

\* open puts the files in memory; nothing is being written.
LEMMA SoundOpen == ASSUME Typed, Sound, Open PROVE Sound'
<1>1. phase = "down" /\ lock = Free /\ UNCHANGED <<disk, lock, imp>> /\ mem' = disk /\ phase' = "recovering"
  BY DEF Open, Sound
<1>2. ~Writing' /\ ~Deleting'
  BY <1>1 DEF Free, Writing, Deleting
<1>3. imp'.phase # "page"
  BY <1>1 DEF Sound, PageIsImport
<1>4. QED
  BY <1>1, <1>2, <1>3 DEF Sound, Synced, Admitted, Deletable, PageIsImport

\* Recovery ends a turn by the rules every other writer obeys.
LEMMA SoundInterruptTurn == ASSUME Typed, Sound, NEW c \in Conv, InterruptTurn(c) PROVE Sound'
<1>1. UNCHANGED <<phase, disk, mem, imp>> /\ phase = "recovering" /\ lock = Free /\ ~Deleted(mem[c])
  BY DEF InterruptTurn, clients, Live
<1>2. CASE UNCHANGED lock
  BY <1>1, <1>2, SoundStutter
<1>3. CASE lock' # lock
  <2>1. PICK t \in ActiveTurns(mem[c]) :
          /\ ~HasId(mem[c], <<"end", t>>) /\ MayRecord(mem[c], EndDraft(t, "interrupted"))
          /\ lock' = [conv |-> c, draft |-> EndDraft(t, "interrupted")]
    BY <1>3 DEF InterruptTurn
  <2> DEFINE draft == EndDraft(t, "interrupted")
  <2>2. t \in Turn /\ draft \in Drafts
    BY BuiltDrafts DEF ActiveTurns, Outcome
  <2>3. draft.id = <<"end", t>> /\ draft.turn = t /\ draft.kind = "turn_end" /\ draft # Tombstone
    BY DEF EndDraft, Tombstone, Draft
  <2>4. Admissible(mem[c], draft)
    BY <2>1, <2>2, <2>3, MayRecordAdmits
  <2>5. QED
    BY <1>1, <2>1, <2>2, <2>3, <2>4, SoundStartWrite
<1>4. QED
  BY <1>2, <1>3

\* A conversation is created, by the client or by an import, where there is none.
LEMMA SoundCreate ==
  ASSUME Typed, Sound, NEW c \in Conv, NEW how \in {"local", "importing"},
         phase = "up", mem[c] = <<>>, StartWrite(c, CreatedDraft(how)), imp'.phase = "page" => imp' = imp
  PROVE  Sound'
<1> DEFINE draft == CreatedDraft(how)
<1>1. draft \in Drafts /\ draft.kind = "created" /\ draft # Tombstone
  BY BuiltDrafts DEF CreatedDraft, Tombstone, Draft
<1>2. ~Deleted(mem[c]) /\ ~HasId(mem[c], draft.id)
  BY EmptyWellFormed
<1>3. Admissible(mem[c], draft)
  BY <1>1 DEF Admissible, ScopedKind
<1>4. QED
  BY <1>1, <1>2, <1>3, SoundStartWrite DEF StartWrite

\* delete takes the mutex where no turn is open.
LEMMA SoundDelete == ASSUME Typed, Sound, NEW c \in Conv, Delete(c) PROVE Sound'
<1>1. /\ phase = "up" /\ ~Deleted(mem[c]) /\ ActiveTurns(mem[c]) = {} /\ Tombstone \in Drafts
      /\ lock = Free /\ lock' = [conv |-> c, draft |-> Tombstone]
      /\ UNCHANGED <<phase, disk, mem, imp>>
  BY BuiltDrafts DEF Delete, StartWrite, Live, clients
<1>2. QED
  BY <1>1, SoundStartWrite

\* A row that is no turn marker, needs no open turn and is no tombstone.
LEMMA PlainDrafts ==
  /\ \A ev, k : Admissible(ev, RenameDraft(k)) /\ RenameDraft(k).kind # "deleted"
  /\ \A ev, t, r : Admissible(ev, ResultDraft(t, r)) /\ ResultDraft(t, r).kind # "deleted"
  /\ \A ev : Admissible(ev, CommitDraft) /\ CommitDraft.kind # "deleted"
  /\ \A ev, i, n : Admissible(ev, LegacyDraft(i, n)) /\ LegacyDraft(i, n).kind # "deleted"
<1>1. /\ \A k : RenameDraft(k).kind = "renamed"
      /\ \A t, r : ResultDraft(t, r).kind = "model_result"
      /\ CommitDraft.kind = "import_complete"
      /\ \A i, n : LegacyDraft(i, n).kind \in {"legacy_context", "legacy_metadata"}
  BY DEF RenameDraft, ResultDraft, CommitDraft, LegacyDraft, Draft
<1>2. QED
  BY <1>1 DEF Admissible, ScopedKind

\* The rows that name a turn, and what kind of row they are.
LEMMA TurnDrafts ==
  /\ \A t, role, to : BeginDraft(t, role, to).turn = t /\ BeginDraft(t, role, to).kind # "deleted"
  /\ \A t, v, shown : ViewDraft(t, v, shown).turn = t /\ ViewDraft(t, v, shown).kind # "deleted"
  /\ \A t, r : InputDraft(t, r).turn = t /\ InputDraft(t, r).kind # "deleted"
  /\ \A t, status : EndDraft(t, status).turn = t /\ EndDraft(t, status).kind # "deleted"
BY DEF BeginDraft, ViewDraft, InputDraft, EndDraft, Draft

\* An event that needs an active request is appended by the rules.
LEMMA SoundRecord ==
  ASSUME Typed, Sound, phase # "down", NEW c \in Conv, NEW draft \in Drafts,
         draft.turn \in Turn, draft.kind # "deleted",
         NEW active \in BOOLEAN, active, AppendEvent(c, draft, active), imp'.phase = "page" => imp' = imp
  PROVE  Sound'
<1>1. Admissible(mem[c], draft)
  BY MayRecordAdmits DEF AppendEvent
<1>2. QED
  BY <1>1, SoundAppendEvent

\* An import goes on only in a journal that was begun as an import ...
LEMMA SoundImportCheck == ASSUME Typed, Sound, ImportCheck PROVE Sound'
<1>1. UNCHANGED <<phase, disk, mem, lock>> /\ phase = "up"
  BY DEF ImportCheck, store
<1>2. CASE imp' = NoImport
  BY <1>1, <1>2, SoundStutter DEF NoImport
<1>3. CASE imp' # NoImport
  <2>1. /\ Live(mem[imp.conv]) /\ Importing(mem[imp.conv])
        /\ imp' = [imp EXCEPT !.phase = "page"]
    BY <1>3 DEF ImportCheck
  <2>2. imp'.conv = imp.conv
    BY <2>1 DEF Typed, TypeOK
  <2>3. PageIsImport'
    BY <1>1, <2>1, <2>2 DEF PageIsImport, Live, Importing
  <2>4. Admitted' /\ Deletable'
    BY <1>1 DEF Sound, Admitted, Deletable, Writing, Deleting
  <2>5. phase' # "down" => \A c \in Conv : Synced(c)'
    BY <1>1 DEF Sound, Synced, Writing, Deleting
  <2>6. QED
    BY <1>1, <2>3, <2>4, <2>5 DEF Sound
<1>4. QED
  BY <1>2, <1>3

\* ... so what it appends needs no rule but a fresh id.
LEMMA SoundImportAppend == ASSUME Typed, Sound, ImportAppend PROVE Sound'
<1> DEFINE row == imp.doc[imp.pos]
<1>1. imp.conv \in Conv /\ row \in Drafts /\ row.kind # "deleted"
  <2>1. imp.pos \in DOMAIN imp.doc /\ imp.conv \in Conv
    BY DEF ImportAppend, Typed, TypeOK, Cursors
  <2>2. imp.doc \in Documents
    BY <2>1 DEF Typed, TypeOK, NoRows
  <2>3. QED
    BY <2>1, <2>2, DocumentsAreJournals DEF ImportedKind, TurnKind, ScopedKind
<1>2. phase = "up" /\ imp.phase = "page"
  BY DEF ImportAppend
<1>3. CASE /\ AppendEvent(imp.conv, row, FALSE)
           /\ imp' = [imp EXCEPT !.phase = "writing"]
  <2>1. Imported(mem[imp.conv])
    BY <1>2, <1>3 DEF Sound, PageIsImport, AppendEvent, Live
  <2>2. imp'.phase # "page"
    BY <1>3 DEF Typed, TypeOK
  <2>3. QED
    BY <1>1, <1>2, <1>3, <2>1, <2>2, SoundAppendEvent
<1>4. CASE UNCHANGED store /\ imp' = [imp EXCEPT !.phase = "between", !.pos = @ + 1]
  <2>1. imp'.phase # "page"
    BY <1>4 DEF Typed, TypeOK
  <2>2. QED
    BY <1>4, <2>1, SoundStutter DEF store
<1>5. CASE UNCHANGED store /\ imp' = NoImport
  <2>1. imp'.phase # "page"
    BY <1>5 DEF NoImport
  <2>2. QED
    BY <1>5, <2>1, SoundStutter DEF store
<1>6. QED
  BY <1>3, <1>4, <1>5 DEF ImportAppend

\* Every step keeps the journals sound, as long as image files can be removed.
LEMMA SoundNext == ASSUME RemovalFails = FALSE, Typed, Sound, [Next]_vars PROVE Sound'
<1>1. ASSUME FileSystem PROVE Sound'
  BY <1>1, SoundCompleteAppend, SoundFailWrite, SoundReplaceFile, SoundRemoveImages
     DEF FileSystem, FailRemoval
<1>2. ASSUME Recovery PROVE Sound'
  <2>1. ASSUME FinishOpen PROVE Sound'
    <3>1. phase = "recovering" /\ phase' = "up" /\ UNCHANGED <<disk, mem, lock, imp>>
      BY <2>1 DEF FinishOpen
    <3>2. Admitted' /\ Deletable'
      BY <3>1 DEF Sound, Admitted, Deletable, Writing, Deleting
    <3>3. PageIsImport' /\ \A c \in Conv : Synced(c)'
      BY <3>1 DEF Sound, PageIsImport, Synced, Writing, Deleting
    <3>4. QED
      BY <3>1, <3>2, <3>3 DEF Sound
  <2>2. QED
    BY <1>2, <2>1, SoundOpen, SoundInterruptTurn, SoundStop DEF Recovery
<1>3. ASSUME NEW c \in Conv, Create(c) \/ Delete(c) PROVE Sound'
  <2>1. CASE Create(c)
    BY <2>1, SoundCreate DEF Create, Serving, clients
  <2>2. QED
    BY <1>3, <2>1, SoundDelete
<1>4. ASSUME NEW c \in Conv, NEW doc \in Documents, BeginImport(c, doc) PROVE Sound'
  <2>1. imp'.phase # "page"
    BY <1>4 DEF BeginImport
  <2>2. QED
    BY <1>4, <2>1, SoundCreate DEF BeginImport, Serving
<1>5. ASSUME NEW c \in Conv, NEW k \in Key, Rename(c, k) PROVE Sound'
  BY <1>5, BuiltDrafts, PlainDrafts, SoundAppendEvent DEF Rename, Serving, clients
<1>6. ASSUME NEW c \in Conv, NEW i \in 1 .. LegacyItems, ImportLegacy(c, i) PROVE Sound'
  <2>1. LegacyDraft(i, LegacyItems) \in Drafts
    BY BuiltDrafts, BoundsAreNumbers
  <2>2. QED
    BY <1>6, <2>1, PlainDrafts, SoundAppendEvent DEF ImportLegacy, Serving, clients
<1>7. ASSUME NEW c \in Conv, NEW t \in Turn, NEW role \in Role, NEW reply \in Key \cup {None},
             Begin(c, t, role, reply)
      PROVE  Sound'
  <2> DEFINE draft == BeginDraft(t, role, reply)
  <2>1. draft \in Drafts /\ draft.turn \in Turn /\ draft.kind # "deleted"
    BY BuiltDrafts, TurnDrafts
  <2>2. AppendEvent(c, draft, TRUE) /\ phase = "up" /\ imp' = imp
    BY <1>7 DEF Begin, Serving, clients
  <2>3. QED
    BY <2>1, <2>2, SoundRecord
<1>8. ASSUME NEW c \in Conv, NEW t \in Turn, NEW k \in Key, NEW shown \in Shown, View(c, t, k, shown)
      PROVE  Sound'
  <2> DEFINE draft == ViewDraft(t, k, shown)
  <2>1. draft \in Drafts /\ draft.turn \in Turn /\ draft.kind # "deleted"
    BY BuiltDrafts, TurnDrafts
  <2>2. AppendEvent(c, draft, TRUE) /\ phase = "up" /\ imp' = imp
    BY <1>8 DEF View, Serving, clients
  <2>3. QED
    BY <2>1, <2>2, SoundRecord
<1>9. ASSUME NEW c \in Conv, NEW t \in Turn,
             \/ \E k \in Key : AssertActive(c, t, k)
             \/ \E status \in Outcome : FinishCheck(c, t, status)
      PROVE  Sound'
  BY <1>9, SoundStutter DEF AssertActive, FinishCheck, store
<1>10. ASSUME NEW req \in asking, SaveImages(req) PROVE Sound'
  BY <1>10, SoundStutter DEF SaveImages, clients
<1>11. ASSUME NEW req \in asking, ModelInput(req) PROVE Sound'
  <2>1. /\ req[1] \in Conv /\ req[2] \in Turn /\ InputDraft(req[2], req[3]) \in Drafts
        /\ phase = "up" /\ imp' = imp
    BY <1>11, BuiltDrafts DEF Typed, TypeOK, ModelInput
  <2>2. CASE UNCHANGED store
    BY <2>1, <2>2, SoundStutter DEF store
  <2>3. CASE AppendEvent(req[1], InputDraft(req[2], req[3]), TRUE)
    <3>1. InputDraft(req[2], req[3]).turn \in Turn /\ InputDraft(req[2], req[3]).kind # "deleted"
      BY <2>1, TurnDrafts
    <3>2. QED
      BY <2>1, <2>3, <3>1, SoundRecord
  <2>4. QED
    BY <1>11, <2>2, <2>3 DEF ModelInput
<1>12. ASSUME NEW req \in running, ModelResult(req) PROVE Sound'
  <2>1. /\ req[1] \in Conv /\ ResultDraft(req[2], req[3]) \in Drafts
        /\ phase = "up" /\ imp' = imp
    BY <1>12, BuiltDrafts DEF Typed, TypeOK, ModelResult
  <2>2. CASE UNCHANGED store
    BY <2>1, <2>2, SoundStutter DEF store
  <2>3. CASE AppendEvent(req[1], ResultDraft(req[2], req[3]), FALSE)
    BY <2>1, <2>3, PlainDrafts, SoundAppendEvent
  <2>4. QED
    BY <1>12, <2>2, <2>3 DEF ModelResult
<1>13. ASSUME NEW call \in calls, FinishAppend(call) PROVE Sound'
  <2> DEFINE draft == EndDraft(call.turn, call.status)
  <2>1. /\ call.conv \in Conv /\ call.turn \in Turn /\ draft \in Drafts
        /\ phase = "up" /\ imp' = imp
    BY <1>13, BuiltDrafts DEF Typed, TypeOK, FinishAppend
  <2>2. CASE UNCHANGED store
    BY <2>1, <2>2, SoundStutter DEF store
  <2>3. CASE AppendEvent(call.conv, draft, TRUE)
    <3>1. draft.turn \in Turn /\ draft.kind # "deleted"
      BY <2>1, TurnDrafts
    <3>2. QED
      BY <2>1, <2>3, <3>1, SoundRecord
  <2>4. QED
    BY <1>13, <2>2, <2>3 DEF FinishAppend
<1>14. ASSUME CommitCheck PROVE Sound'
  <2>1. imp'.phase # "page"
    BY <1>14 DEF CommitCheck, NoImport, Typed, TypeOK
  <2>2. QED
    BY <1>14, <2>1, SoundStutter DEF CommitCheck, store
<1>15. ASSUME CommitImport PROVE Sound'
  <2>1. /\ imp.conv \in Conv /\ CommitDraft \in Drafts /\ phase = "up" /\ imp'.phase # "page"
    BY <1>15, BuiltDrafts DEF CommitImport, NoImport, Typed, Cursors
  <2>2. CASE UNCHANGED store
    BY <2>1, <2>2, SoundStutter DEF store
  <2>3. CASE AppendEvent(imp.conv, CommitDraft, FALSE)
    BY <2>1, <2>3, PlainDrafts, SoundAppendEvent
  <2>4. QED
    BY <1>15, <2>2, <2>3 DEF CommitImport
<1>16. ASSUME (\E c \in Conv : ExportStart(c)) \/ ExportCheck \/ ExportRead PROVE Sound'
  <2>1. UNCHANGED store /\ UNCHANGED imp
    BY <1>16 DEF ExportStart, ExportCheck, ExportRead
  <2>2. QED
    BY <2>1, SoundStutter DEF store
<1>17. ASSUME UNCHANGED vars PROVE Sound'
  BY <1>17, SoundStutter DEF vars
<1>18. QED
  BY <1>1, <1>2, <1>3, <1>4, <1>5, <1>6, <1>7, <1>8, <1>9, <1>10, <1>11, <1>12, <1>13, <1>14,
     <1>15, <1>16, <1>17, SoundImportCheck, SoundImportAppend
     DEF Next, Requests

----------------------------------------------------------------------------
(* What every behaviour of the store satisfies, whatever is retried, torn or *)
(* lost, as long as image files can be removed.  FailRemoval is the one step *)
(* that breaks Sound: it leaves a tombstone on disk under a live journal.    *)

\* The inductive invariant: Sound says of the row being written and of the import page what
\* makes the next row safe, and of every file that it is well-formed.
LEMMA JournalsAreSound == ASSUME RemovalFails = FALSE PROVE Spec => [](Typed /\ Sound)
<1>1. Init => Typed /\ Sound
  BY TypedInit, SoundInit
<1>2. Typed /\ Sound /\ [Next]_vars => (Typed /\ Sound)'
  BY TypedNext, SoundNext
<1>3. QED
  BY <1>1, <1>2, PTL DEF Spec

\* A restart never meets a gap in the sequence numbers, so open never refuses the store.
THEOREM ContiguousRows == ASSUME RemovalFails = FALSE PROVE Spec => []RowsAreContiguous
<1>1. Sound => RowsAreContiguous
  BY DEF Sound, WellFormed, RowsAreContiguous
<1>2. QED
  BY <1>1, JournalsAreSound, PTL

\* What a reader is shown is what a restart will find.
THEOREM DurableReads == ASSUME RemovalFails = FALSE PROVE Spec => []ReadableIsDurable
<1>1. Sound => ReadableIsDurable
  BY DEF Sound, Synced, ReadableIsDurable
<1>2. QED
  BY <1>1, JournalsAreSound, PTL

\* No race of begin, finish and recovery makes two turns of a conversation overlap, and no
\* retry writes a row twice.
THEOREM SeparateTurns == ASSUME RemovalFails = FALSE PROVE Spec => []TurnsNeverOverlap
<1>1. Sound => TurnsNeverOverlap
  BY DEF Sound, WellFormed, TurnsNeverOverlap
<1>2. QED
  BY <1>1, JournalsAreSound, PTL

\* What is displayed, asked and ended is inside the turn that was open at the time.
THEOREM EnclosedEvents == ASSUME RemovalFails = FALSE PROVE Spec => []EventsInsideTheirTurn
<1>1. Sound => EventsInsideTheirTurn
  BY DEF Sound, WellFormed, EventsInsideTheirTurn
<1>2. QED
  BY <1>1, JournalsAreSound, PTL

\* A file is a prefix of itself.
LEMMA ExtendsItself == ASSUME NEW ev \in Seq(Event) PROVE Extends(ev, ev)
BY DEF Extends

\* A file is a prefix of itself with one row more.
LEMMA ExtendsByOne ==
  ASSUME NEW ev \in Seq(Event), NEW row \in Event PROVE Extends(Append(ev, row), ev)
<1>1. Len(ev) \in Nat /\ Len(Append(ev, row)) = Len(ev) + 1
  OBVIOUS
<1>2. SubSeq(Append(ev, row), 1, Len(ev)) = ev
  OBVIOUS
<1>3. QED
  BY <1>1, <1>2 DEF Extends

\* The steps that touch a file: a flush, also one the process did not outlive, and a rename.
AppendsRow ==
  Writing /\ lock.draft # Tombstone /\ disk' = [disk EXCEPT ![lock.conv] = Append(@, Row)]

\* A step leaves the files alone, appends the row under the mutex, or renames a tombstone.
LEMMA StepsOfFiles == [Next]_vars => disk' = disk \/ AppendsRow \/ ReplaceFile
<1>. SUFFICES ASSUME [Next]_vars, ~ReplaceFile PROVE disk' = disk \/ AppendsRow
  OBVIOUS
<1>1. CASE FileSystem
  BY <1>1 DEF FileSystem, CompleteAppend, FailWrite, RemoveImages, FailRemoval, AppendsRow
<1>2. CASE Recovery
  BY <1>2 DEF Recovery, Open, FinishOpen, FailOpen, Crash, InterruptTurn, AppendsRow
<1>3. CASE Requests
  <2>1. ASSUME NEW c \in Conv,
               \/ Create(c) \/ Delete(c) \/ ExportStart(c)
               \/ \E doc \in Documents : BeginImport(c, doc)
        PROVE  disk' = disk
    BY <2>1 DEF Create, Delete, ExportStart, BeginImport, StartWrite, store
  <2>2. ASSUME NEW c \in Conv, NEW draft, NEW active \in BOOLEAN, AppendEvent(c, draft, active)
        PROVE  disk' = disk
    BY <2>2 DEF AppendEvent, StartWrite
  <2>3. ASSUME NEW c \in Conv,
               \/ \E k \in Key : Rename(c, k)
               \/ \E i \in 1 .. LegacyItems : ImportLegacy(c, i)
        PROVE  disk' = disk
    BY <2>2, <2>3 DEF Rename, ImportLegacy
  <2>4. ASSUME NEW c \in Conv, NEW t \in Turn,
               \/ \E role \in Role, reply \in Key \cup {None} : Begin(c, t, role, reply)
               \/ \E k \in Key, shown \in Shown : View(c, t, k, shown)
        PROVE  disk' = disk
    BY <2>2, <2>4 DEF Begin, View
  <2>5. ASSUME NEW c \in Conv, NEW t \in Turn,
               \/ \E status \in Outcome : FinishCheck(c, t, status)
               \/ \E k \in Key : AssertActive(c, t, k)
        PROVE  disk' = disk
    BY <2>5 DEF FinishCheck, AssertActive, store
  <2>6. QED
    BY <1>3, <2>1, <2>3, <2>4, <2>5 DEF Requests
<1>4. CASE (\E call \in calls : FinishAppend(call)) \/ (\E req \in running : ModelResult(req))
           \/ (\E req \in asking : SaveImages(req) \/ ModelInput(req))
  BY <1>4 DEF FinishAppend, ModelResult, SaveImages, ModelInput, AppendEvent, StartWrite, store
<1>5. CASE ImportCheck \/ ImportAppend \/ CommitCheck \/ CommitImport \/ ExportCheck \/ ExportRead
  BY <1>5 DEF ImportCheck, ImportAppend, CommitCheck, CommitImport, ExportCheck, ExportRead,
              AppendEvent, StartWrite, store
<1>6. CASE UNCHANGED vars
  BY <1>6 DEF vars
<1>7. QED
  BY <1>1, <1>2, <1>3, <1>4, <1>5, <1>6 DEF Next

\* What one step may do to the file of one conversation.
Grows(c) ==
  \/ Extends(disk'[c], disk[c]) /\ (Deleted(disk[c]) => disk'[c] = disk[c])
  \/ disk'[c] = <<Numbered(Tombstone, 1)>> /\ ActiveTurns(disk[c]) = {}

\* Every step only extends a file, and the tombstone replaces one with no open turn.
LEMMA GrowsNext == ASSUME Typed, Sound, [Next]_vars, NEW c \in Conv PROVE Grows(c)
<1>1. disk \in [Conv -> Seq(Event)] /\ disk[c] \in Seq(Event) /\ Extends(disk[c], disk[c])
  BY ExtendsItself DEF Typed, TypeOK
<1>2. CASE disk' = disk
  BY <1>1, <1>2 DEF Grows
<1>3. CASE AppendsRow
  <2>1. lock.conv \in Conv /\ Row \in Event /\ phase # "down"
    BY <1>3, RowIsEvent, TypedParts, FreeIsNotWriting DEF AppendsRow, Writing, StoreTyped, Sound
  <2>2. disk'[c] = disk[c] \/ (c = lock.conv /\ disk'[c] = Append(disk[c], Row))
    BY <1>1, <1>3, <2>1 DEF AppendsRow
  <2>3. ~Deleted(disk[lock.conv])
    BY <1>3, <2>1 DEF AppendsRow, Sound, Admitted, Synced, Deleting
  <2>4. QED
    BY <1>1, <2>1, <2>2, <2>3, ExtendsByOne DEF Grows
<1>4. CASE ReplaceFile
  <2>1. /\ lock.conv \in Conv /\ phase # "down" /\ disk[lock.conv] # TombstoneRows /\ Deleting
        /\ disk' = [disk EXCEPT ![lock.conv] = <<Numbered(Tombstone, 1)>>]
    BY <1>4, FreeIsNotWriting DEF ReplaceFile, Replaced, TombstoneRows, Deleting, Writing, Sound, Typed, TypeOK
  <2>2. mem[lock.conv] = disk[lock.conv]
    BY <2>1 DEF Sound, Synced
  <2>3. ActiveTurns(disk[lock.conv]) = {}
    BY <2>1, <2>2 DEF Sound, Deletable
  <2>4. QED
    BY <1>1, <2>1, <2>3 DEF Grows
<1>5. QED
  BY <1>2, <1>3, <1>4, StepsOfFiles

\* No crash, retry or race rewrites or drops a committed row; only deletion, of a
\* conversation with no open turn, replaces the file.
THEOREM GrowingFiles == ASSUME RemovalFails = FALSE PROVE Spec => FilesOnlyGrow
<1>1. Typed /\ Sound /\ [Next]_vars
        => [\A c \in Conv :
              \/ Extends(disk'[c], disk[c]) /\ (Deleted(disk[c]) => disk'[c] = disk[c])
              \/ disk'[c] = <<Numbered(Tombstone, 1)>> /\ ActiveTurns(disk[c]) = {}]_vars
  BY GrowsNext DEF Grows
<1>2. QED
  BY <1>1, JournalsAreSound, PTL DEF Spec, FilesOnlyGrow

----------------------------------------------------------------------------
(* The rows a reader can be shown, across restarts.                        *)

\* The journal in memory, or, while the process is down, the one a restart will read.
Rows(c) == IF phase = "down" THEN disk[c] ELSE mem[c]

\* Memory is the file, or the file is a tombstone that delete did not get past.  A stopped
\* process writes nothing.
Backed ==
  /\ phase = "down" => lock = Free
  /\ phase # "down" => \A c \in Conv : mem[c] = disk[c] \/ Deleted(disk[c])

\* Journals in memory are numbered: open checks it, and append numbers the row it adds.
Counted == phase # "down" => \A c \in Conv : Contiguous(mem[c])

\* What the export has read is a prefix of the journal, and the revision it compares with was
\* the journal's at a moment when no turn was open.
ExportCursor ==
  /\ exp.phase \in {"between", "read"} =>
       \/ Deleted(Rows(exp.conv))
       \/ Extends(Rows(exp.conv), exp.got) /\ exp.revision <= Len(Rows(exp.conv))
  /\ exp.phase = "read" =>
       /\ phase = "up"
       /\ \/ Deleted(mem[exp.conv]) \/ exp.revision # Len(mem[exp.conv])
          \/ ActiveTurns(mem[exp.conv]) = {} /\ ~Importing(mem[exp.conv])

Readable == Backed /\ Counted /\ ExportCursor /\ ExportIsSnapshot

\* The steps that touch the process, its files or its journals.
LEMMA StepsOfJournals ==
  [Next]_vars => \/ UNCHANGED <<disk, mem, phase>>
                 \/ UNCHANGED <<disk, mem>> /\ FinishOpen
                 \/ CompleteAppend \/ ReplaceFile \/ RemoveImages \/ Crash \/ FailOpen \/ Open
<1>. SUFFICES ASSUME [Next]_vars, ~CompleteAppend, ~ReplaceFile, ~RemoveImages, ~Crash, ~FailOpen,
                     ~Open, ~FinishOpen
              PROVE  UNCHANGED <<disk, mem, phase>>
  BY DEF FinishOpen
<1>1. CASE FileSystem
  BY <1>1 DEF FileSystem, FailWrite, FailRemoval
<1>2. CASE Recovery
  BY <1>2 DEF Recovery, InterruptTurn
<1>3. CASE Requests
  <2>1. ASSUME NEW c \in Conv,
               \/ Create(c) \/ Delete(c) \/ ExportStart(c)
               \/ \E doc \in Documents : BeginImport(c, doc)
        PROVE  UNCHANGED <<disk, mem, phase>>
    BY <2>1 DEF Create, Delete, ExportStart, BeginImport, StartWrite, store
  <2>2. ASSUME NEW c \in Conv, NEW draft, NEW active \in BOOLEAN, AppendEvent(c, draft, active)
        PROVE  UNCHANGED <<disk, mem, phase>>
    BY <2>2 DEF AppendEvent, StartWrite
  <2>3. ASSUME NEW c \in Conv,
               \/ \E k \in Key : Rename(c, k)
               \/ \E i \in 1 .. LegacyItems : ImportLegacy(c, i)
        PROVE  UNCHANGED <<disk, mem, phase>>
    BY <2>2, <2>3 DEF Rename, ImportLegacy
  <2>4. ASSUME NEW c \in Conv, NEW t \in Turn,
               \/ \E role \in Role, reply \in Key \cup {None} : Begin(c, t, role, reply)
               \/ \E k \in Key, shown \in Shown : View(c, t, k, shown)
        PROVE  UNCHANGED <<disk, mem, phase>>
    BY <2>2, <2>4 DEF Begin, View
  <2>5. ASSUME NEW c \in Conv, NEW t \in Turn,
               \/ \E status \in Outcome : FinishCheck(c, t, status)
               \/ \E k \in Key : AssertActive(c, t, k)
        PROVE  UNCHANGED <<disk, mem, phase>>
    BY <2>5 DEF FinishCheck, AssertActive, store
  <2>6. QED
    BY <1>3, <2>1, <2>3, <2>4, <2>5 DEF Requests
<1>4. CASE (\E call \in calls : FinishAppend(call)) \/ (\E req \in running : ModelResult(req))
           \/ (\E req \in asking : SaveImages(req) \/ ModelInput(req))
  BY <1>4 DEF FinishAppend, ModelResult, SaveImages, ModelInput, AppendEvent, StartWrite, store
<1>5. CASE ImportCheck \/ ImportAppend \/ CommitCheck \/ CommitImport \/ ExportCheck \/ ExportRead
  BY <1>5 DEF ImportCheck, ImportAppend, CommitCheck, CommitImport, ExportCheck, ExportRead,
              AppendEvent, StartWrite, store
<1>6. CASE UNCHANGED vars
  BY <1>6 DEF vars
<1>7. QED
  BY <1>1, <1>2, <1>3, <1>4, <1>5, <1>6 DEF Next

\* The steps that touch the export.
LEMMA StepsOfExport ==
  [Next]_vars => \/ UNCHANGED exp
                 \/ Stop
                 \/ UNCHANGED store /\ ((\E c \in Conv : ExportStart(c)) \/ ExportCheck \/ ExportRead)
<1>. SUFFICES ASSUME [Next]_vars, ~Stop,
                     ~(\E c \in Conv : ExportStart(c)), ~ExportCheck, ~ExportRead
              PROVE  UNCHANGED exp
  BY DEF ExportStart, ExportCheck, ExportRead
<1>1. CASE FileSystem
  BY <1>1 DEF FileSystem, CompleteAppend, FailWrite, ReplaceFile, RemoveImages, FailRemoval
<1>2. CASE Recovery
  BY <1>2 DEF Recovery, InterruptTurn, Open, FinishOpen, FailOpen, Crash, clients
<1>3. CASE Requests
  BY <1>3 DEF Requests, Create, Delete, BeginImport, Rename, ImportLegacy, Begin, View,
              FinishCheck, AssertActive, clients
<1>4. CASE (\E call \in calls : FinishAppend(call)) \/ (\E req \in running : ModelResult(req))
           \/ (\E req \in asking : SaveImages(req) \/ ModelInput(req))
  BY <1>4 DEF FinishAppend, ModelResult, SaveImages, ModelInput, clients
<1>5. CASE ImportCheck \/ ImportAppend \/ CommitCheck \/ CommitImport
  BY <1>5 DEF ImportCheck, ImportAppend, CommitCheck, CommitImport
<1>6. CASE UNCHANGED vars
  BY <1>6 DEF vars
<1>7. QED
  BY <1>1, <1>2, <1>3, <1>4, <1>5, <1>6 DEF Next

\* A deleted journal stays deleted when a row is added.
LEMMA AppendKeepsDeleted ==
  ASSUME NEW ev \in Seq(Event), NEW row \in Event, Deleted(ev)
  PROVE  Deleted(Append(ev, row))
<1>1. PICK i \in DOMAIN ev : ev[i].kind = "deleted"
  BY DEF Deleted, HasKind
<1>2. i \in 1 .. Len(ev) /\ Append(ev, row)[i] = ev[i] /\ i \in DOMAIN Append(ev, row)
  OBVIOUS
<1>3. QED
  BY <1>1, <1>2 DEF Deleted, HasKind

\* A journal in memory gets the row under the mutex; the row is numbered as memory counts.
LEMMA RowExtends ==
  ASSUME Typed, Writing
  PROVE  /\ lock.conv \in Conv /\ lock.draft \in Drafts /\ Row \in Event
         /\ mem[lock.conv] \in Seq(Event)
         /\ Append(mem[lock.conv], Row) = Extended(mem[lock.conv], lock.draft)
<1>1. lock.conv \in Conv /\ lock.draft \in Drafts
  BY DEF Typed, TypeOK, Writing
<1>2. QED
  BY <1>1, RowIsEvent, TypedParts DEF Row, Extended, Typed, TypeOK

\* The journal of a process that runs is the one in memory, and of one that stopped its file.
LEMMA RowsOf ==
  /\ \A c : phase = "down" => Rows(c) = disk[c]
  /\ \A c : phase # "down" => Rows(c) = mem[c]
  /\ \A c : phase' = "down" => Rows(c)' = disk'[c]
  /\ \A c : phase' # "down" => Rows(c)' = mem'[c]
BY DEF Rows

\* The row under the mutex enters the journal of c.
RowEnters(c) ==
  /\ Writing /\ lock.draft # Tombstone /\ c = lock.conv
  /\ Rows(c)' = Extended(Rows(c), lock.draft)

\* What a step does to the rows of c: nothing, the row under the mutex more, or a tombstone.
Grown(c) == Rows(c)' = Rows(c) \/ RowEnters(c) \/ Deleted(Rows(c)')

\* Every step, a crash and the next open included, only makes the rows a reader is shown grow.
LEMMA RowsGrow ==
  ASSUME Typed, Backed, [Next]_vars, NEW c \in Conv
  PROVE  Grown(c)
<1>1. mem \in [Conv -> Seq(Event)] /\ disk \in [Conv -> Seq(Event)]
  BY DEF Typed, TypeOK
<1>2. CASE UNCHANGED <<disk, mem, phase>>
  BY <1>2 DEF Rows, Grown
<1>3. CASE UNCHANGED <<disk, mem>> /\ FinishOpen
  BY <1>3 DEF Rows, FinishOpen, Grown
<1>4. CASE CompleteAppend
  <2>1. Writing /\ lock.draft # Tombstone /\ phase' = phase /\ phase # "down"
    BY <1>4, FreeIsNotWriting DEF CompleteAppend, Backed
  <2>2. mem' = [mem EXCEPT ![lock.conv] = Extended(mem[lock.conv], lock.draft)]
    BY <1>4, <2>1, RowExtends DEF CompleteAppend
  <2>3. mem'[c] = mem[c] \/ (c = lock.conv /\ mem'[c] = Extended(mem[c], lock.draft))
    BY <1>1, <2>2
  <2>4. QED
    BY <2>1, <2>3, RowsOf DEF Grown, RowEnters
<1>5. CASE ReplaceFile
  <2>1. phase' = phase /\ mem' = mem /\ phase # "down"
    BY <1>5, FreeIsNotWriting DEF ReplaceFile, Deleting, Backed
  <2>2. QED
    BY <2>1, RowsOf DEF Grown
<1>6. CASE RemoveImages
  <2>1. phase' = phase /\ phase # "down" /\ mem' = [mem EXCEPT ![lock.conv] = TombstoneRows]
    BY <1>6, FreeIsNotWriting DEF RemoveImages, Deleting, Backed, TombstoneRows
  <2>2. mem'[c] = mem[c] \/ mem'[c] = TombstoneRows
    BY <1>1, <2>1
  <2>3. QED
    BY <2>1, <2>2, RowsOf, TombstoneWellFormed DEF Grown
<1>7. CASE Crash
  <2>1. phase # "down" /\ phase' = "down" /\ Rows(c) = mem[c] /\ Rows(c)' = disk'[c]
    BY <1>7, RowsOf DEF Crash, Stop
  <2>2. CASE disk' = disk
    BY <2>1, <2>2 DEF Backed, Grown
  <2>3. CASE /\ Writing /\ lock.draft # Tombstone
             /\ disk' = [disk EXCEPT ![lock.conv] = Append(@, Row)]
    <3>1. disk'[c] = disk[c] \/ (c = lock.conv /\ disk'[c] = Append(disk[c], Row))
      BY <1>1, <2>3
    <3>2. CASE disk'[c] = disk[c]
      BY <2>1, <3>2 DEF Backed, Grown
    <3>3. CASE c = lock.conv /\ disk'[c] = Append(disk[c], Row)
      <4>1. CASE Deleted(disk[c])
        <5>1. disk[c] \in Seq(Event) /\ Row \in Event
          BY <1>1, <2>3, RowExtends
        <5>2. Deleted(disk'[c])
          BY <3>3, <4>1, <5>1, AppendKeepsDeleted
        <5>3. QED
          BY <2>1, <5>2 DEF Grown
      <4>2. CASE mem[c] = disk[c]
        BY <2>1, <2>3, <3>3, <4>2, RowExtends DEF Grown, RowEnters
      <4>3. QED
        BY <2>1, <4>1, <4>2 DEF Backed
    <3>4. QED
      BY <3>1, <3>2, <3>3
  <2>4. QED
    BY <1>7, <2>2, <2>3 DEF Crash
<1>8. CASE FailOpen
  <2>1. phase # "down" /\ phase' = "down" /\ disk' = disk
    BY <1>8 DEF FailOpen, Stop
  <2>2. QED
    BY <2>1, RowsOf DEF Backed, Grown
<1>9. CASE Open
  <2>1. phase = "down" /\ phase' # "down" /\ mem' = disk
    BY <1>9 DEF Open
  <2>2. QED
    BY <2>1, RowsOf DEF Grown
<1>10. QED
  BY <1>2, <1>3, <1>4, <1>5, <1>6, <1>7, <1>8, <1>9, StepsOfJournals

\* A stopped process serves nobody: it can only be opened, while its clients start an export.
LEMMA StoppedSteps ==
  ASSUME phase = "down", lock = Free, [Next]_vars
  PROVE  Open \/ UNCHANGED store
<1>1. ~Writing /\ ~Deleting
  BY FreeIsNotWriting
<1>2. CASE Recovery
  BY <1>1, <1>2 DEF Recovery, FinishOpen, FailOpen, Crash, InterruptTurn
<1>3. CASE FileSystem
  BY <1>1, <1>3 DEF FileSystem, CompleteAppend, FailWrite, ReplaceFile, RemoveImages, FailRemoval
<1>4. CASE Requests
  BY <1>4 DEF Requests, Create, Delete, BeginImport, Rename, ImportLegacy, Begin, View,
              FinishCheck, AssertActive, Serving, ExportStart
<1>5. CASE (\E call \in calls : FinishAppend(call)) \/ (\E req \in running : ModelResult(req))
           \/ (\E req \in asking : SaveImages(req) \/ ModelInput(req))
  BY <1>5 DEF FinishAppend, ModelResult, SaveImages, ModelInput
<1>6. CASE ImportCheck \/ ImportAppend \/ CommitCheck \/ CommitImport \/ ExportCheck \/ ExportRead
  BY <1>6 DEF ImportCheck, ImportAppend, CommitCheck, CommitImport, ExportCheck, ExportRead
<1>7. CASE UNCHANGED vars
  BY <1>7 DEF vars, store
<1>8. QED
  BY <1>2, <1>3, <1>4, <1>5, <1>6, <1>7 DEF Next

\* A tombstone in a file is there for good.
LEMMA BackedNext == ASSUME Typed, Backed, [Next]_vars PROVE Backed'
<1>1. mem \in [Conv -> Seq(Event)] /\ disk \in [Conv -> Seq(Event)]
  BY DEF Typed, TypeOK
<1>2. CASE phase = "down"
  BY <1>2, StoppedSteps DEF Backed, Open, store
<1>3. CASE phase # "down"
  <2>1. CASE UNCHANGED <<disk, mem, phase>>
    BY <1>3, <2>1 DEF Backed
  <2>2. CASE UNCHANGED <<disk, mem>> /\ FinishOpen
    BY <1>3, <2>2 DEF Backed, FinishOpen
  <2>3. CASE CompleteAppend
    <3>1. /\ disk' = [disk EXCEPT ![lock.conv] = Append(disk[lock.conv], Row)]
          /\ mem'  = [mem EXCEPT ![lock.conv] = Append(mem[lock.conv], Row)]
          /\ Writing /\ phase' = phase
      BY <2>3 DEF CompleteAppend
    <3>2. ASSUME NEW c \in Conv PROVE mem'[c] = disk'[c] \/ Deleted(disk'[c])
      <4>1. CASE c = lock.conv
        <5>1. disk'[c] = Append(disk[c], Row) /\ mem'[c] = Append(mem[c], Row)
          BY <1>1, <3>1, <4>1
        <5>2. disk[c] \in Seq(Event) /\ Row \in Event
          BY <1>1, <3>1, RowExtends
        <5>3. QED
          BY <1>3, <5>1, <5>2, AppendKeepsDeleted DEF Backed
      <4>2. CASE c # lock.conv
        BY <1>1, <1>3, <3>1, <4>2 DEF Backed
      <4>3. QED
        BY <4>1, <4>2
    <3>3. QED
      BY <1>3, <3>1, <3>2 DEF Backed
  <2>4. CASE ReplaceFile
    <3>1. disk' = [disk EXCEPT ![lock.conv] = TombstoneRows] /\ mem' = mem /\ phase' = phase
      BY <2>4 DEF ReplaceFile, TombstoneRows
    <3>2. QED
      BY <1>1, <1>3, <3>1, TombstoneWellFormed DEF Backed
  <2>5. CASE RemoveImages
    <3>1. /\ mem' = [mem EXCEPT ![lock.conv] = TombstoneRows] /\ disk' = disk /\ phase' = phase
          /\ disk[lock.conv] = TombstoneRows
      BY <2>5 DEF RemoveImages, Replaced, TombstoneRows
    <3>2. QED
      BY <1>1, <1>3, <3>1, TombstoneWellFormed DEF Backed
  <2>6. CASE Crash \/ FailOpen
    BY <2>6 DEF Crash, FailOpen, Stop, Backed
  <2>7. QED
    BY <1>3, <2>1, <2>2, <2>3, <2>4, <2>5, <2>6, StepsOfJournals DEF Open
<1>4. QED
  BY <1>2, <1>3

\* Whatever is appended is numbered.
LEMMA CountedNext == ASSUME Typed, Backed, Counted, [Next]_vars PROVE Counted'
<1>1. mem \in [Conv -> Seq(Event)] /\ disk \in [Conv -> Seq(Event)]
  BY DEF Typed, TypeOK
<1>2. CASE phase = "down"
  BY <1>2, StoppedSteps DEF Backed, Counted, Open, store
<1>3. CASE phase # "down"
  <2>1. CASE UNCHANGED mem
    BY <1>3, <2>1 DEF Counted
  <2>2. CASE CompleteAppend
    <3>1. mem' = [mem EXCEPT ![lock.conv] = Extended(mem[lock.conv], lock.draft)]
      BY <2>2, RowExtends DEF CompleteAppend
    <3>2. Contiguous(Extended(mem[lock.conv], lock.draft))
      BY <1>3, <2>2, RowExtends, ExtendedContiguous DEF CompleteAppend, Counted
    <3>3. QED
      BY <1>1, <1>3, <3>1, <3>2 DEF Counted
  <2>3. CASE RemoveImages
    <3>1. mem' = [mem EXCEPT ![lock.conv] = TombstoneRows]
      BY <2>3 DEF RemoveImages, TombstoneRows
    <3>2. QED
      BY <1>1, <1>3, <3>1, TombstoneWellFormed DEF Counted, WellFormed
  <2>4. CASE Crash \/ FailOpen
    BY <2>4 DEF Crash, FailOpen, Stop, Counted
  <2>5. QED
    BY <1>3, <2>1, <2>2, <2>3, <2>4, StepsOfJournals DEF Open, ReplaceFile
<1>4. QED
  BY <1>2, <1>3

----------------------------------------------------------------------------
(* Exports.                                                                *)

\* A prefix stays a prefix when a row is added.
LEMMA ExtendsExtended ==
  ASSUME NEW ev \in Seq(Event), NEW got \in Seq(Event), NEW draft \in Drafts, Extends(ev, got)
  PROVE  Extends(Extended(ev, draft), got)
<1> DEFINE new == Extended(ev, draft)
<1>1. /\ new \in Seq(Event) /\ Len(ev) \in Nat /\ Len(got) \in Nat /\ Len(new) = Len(ev) + 1
      /\ \A i \in 1 .. Len(ev) : new[i] = ev[i]
  BY ExtendedRows
<1>2. Len(got) <= Len(ev) /\ SubSeq(ev, 1, Len(got)) = got
  BY DEF Extends
<1> HIDE DEF new
<1>3. \A i \in 1 .. Len(got) : new[i] = got[i]
  <2>1. ASSUME NEW i \in 1 .. Len(got) PROVE new[i] = got[i]
    <3>1. SubSeq(ev, 1, Len(got))[i] = ev[i]
      BY <1>1, <1>2, <2>1
    <3>2. QED
      BY <1>1, <1>2, <3>1
  <2>2. QED
    BY <2>1
<1>4. SubSeq(new, 1, Len(got)) = got
  <2>1. \A i \in 1 .. Len(got) : new[i] \in Event
    BY <1>3
  <2>2. /\ SubSeq(new, 1, Len(got)) \in Seq(Event)
        /\ Len(SubSeq(new, 1, Len(got))) = Len(got)
        /\ \A i \in 1 .. Len(got) : SubSeq(new, 1, Len(got))[i] = new[i]
    BY <1>1, <1>2
  <2>3. QED
    BY <1>3, <2>2, SeqEqual
<1>5. QED
  BY <1>1, <1>2, <1>4 DEF Extends, new

\* A process that is up stays up or stops.
LEMMA UpOrDown ==
  ASSUME phase = "up", [Next]_vars PROVE phase' \in {"up", "down"}
BY StepsOfJournals
   DEF FinishOpen, CompleteAppend, ReplaceFile, RemoveImages, Crash, FailOpen, Stop, Open

\* What has been read stays a prefix of the journal while the export waits, and a revision
\* that was overtaken stays overtaken.
LEMMA CursorHolds ==
  ASSUME Typed, Backed, ExportCursor, [Next]_vars, UNCHANGED exp,
         phase' # "down" \/ exp.phase # "read"
  PROVE  ExportCursor'
<1>1. SUFFICES ASSUME exp.phase \in {"between", "read"} PROVE ExportCursor'
  BY DEF ExportCursor
<1>2. exp.got \in Seq(Event) /\ exp.revision \in Nat
  BY <1>1 DEF Typed, TypeOK
<1>3. PICK c \in Conv : c = exp.conv
  BY <1>1 DEF Typed, Cursors
<1>4. Rows(c) \in Seq(Event) /\ Grown(c)
  BY RowsGrow DEF Typed, TypeOK, Rows
<1>5. ASSUME exp.phase = "read"
      PROVE  phase = "up" /\ phase' = "up" /\ Rows(c) = mem[c] /\ Rows(c)' = mem'[c]
  BY <1>5, UpOrDown, RowsOf DEF ExportCursor
<1>6. /\ exp'.conv = c
      /\ Deleted(Rows(c)) \/ (Extends(Rows(c), exp.got) /\ exp.revision <= Len(Rows(c)))
  BY <1>1, <1>3 DEF ExportCursor
<1>7. CASE Deleted(Rows(c)')
  BY <1>5, <1>6, <1>7 DEF ExportCursor
<1>8. CASE Rows(c)' = Rows(c)
  BY <1>3, <1>5, <1>6, <1>8 DEF ExportCursor
<1>9. CASE RowEnters(c)
  <2>1. PICK draft \in Drafts : Rows(c)' = Extended(Rows(c), draft)
    BY <1>9, RowExtends DEF RowEnters
  <2>2. CASE Deleted(Rows(c))
    BY <1>4, <1>7, <2>1, <2>2, ExtendedFirst
  <2>3. CASE Extends(Rows(c), exp.got) /\ exp.revision <= Len(Rows(c))
    <3>1. Extends(Rows(c)', exp.got)
      BY <1>2, <1>4, <2>1, <2>3, ExtendsExtended
    <3>2. exp.revision < Len(Rows(c)')
      BY <1>2, <1>4, <2>1, <2>3, ExtendedRows
    <3>3. QED
      BY <1>2, <1>5, <1>6, <3>1, <3>2 DEF ExportCursor
  <2>4. QED
    BY <1>6, <2>2, <2>3
<1>10. QED
  BY <1>4, <1>7, <1>8, <1>9 DEF Grown

\* A page read from a journal whose prefix is known makes the prefix longer.
LEMMA PageExtends ==
  ASSUME NEW ev \in Seq(Event), NEW got \in Seq(Event), Extends(ev, got),
         NEW next \in Nat, Len(got) <= next, next <= Len(ev)
  PROVE  /\ got \o SubSeq(ev, Len(got) + 1, next) \in Seq(Event)
         /\ Extends(ev, got \o SubSeq(ev, Len(got) + 1, next))
         /\ next = Len(ev) => got \o SubSeq(ev, Len(got) + 1, next) = ev
<1>1. Len(ev) \in Nat /\ Len(got) \in Nat /\ Len(got) <= Len(ev) /\ got = SubSeq(ev, 1, Len(got))
  BY DEF Extends
<1>2. SubSeq(ev, 1, Len(got)) \o SubSeq(ev, Len(got) + 1, next) = SubSeq(ev, 1, next)
  <2>1. 1 \in 1 .. Len(ev) + 1 /\ Len(got) \in (1 - 1) .. Len(ev) /\ next \in Len(got) .. Len(ev)
    BY <1>1
  <2>2. QED
    BY <2>1, ConcatAdjacentSubSeq
<1>3. got \o SubSeq(ev, Len(got) + 1, next) = SubSeq(ev, 1, next)
  BY <1>1, <1>2
<1>4. SubSeq(ev, 1, next) \in Seq(Event) /\ Len(SubSeq(ev, 1, next)) = next
  BY <1>1
<1>5. next = Len(ev) => SubSeq(ev, 1, next) = ev
  BY SubSeqFull
<1>6. QED
  BY <1>3, <1>4, <1>5 DEF Extends

\* The first request of an export starts with nothing read; a check notes the revision; a
\* page that is read under the same revision is the next part of the journal.
LEMMA ExportSteps ==
  ASSUME Typed, Readable, UNCHANGED store,
         (\E c \in Conv : ExportStart(c)) \/ ExportCheck \/ ExportRead
  PROVE  ExportCursor' /\ ExportIsSnapshot'
<1>1. UNCHANGED <<phase, disk, mem>> /\ \A c : Rows(c)' = Rows(c)
  BY DEF store, Rows
<1>2. ASSUME NEW c \in Conv, ExportStart(c) PROVE ExportCursor' /\ ExportIsSnapshot'
  <2>1. exp' = [phase |-> "between", conv |-> c, revision |-> 0, got |-> <<>>]
    BY <1>2 DEF ExportStart, NoExport, NoRows
  <2>2. Rows(c) \in Seq(Event)
    BY DEF Rows, Typed, TypeOK
  <2>3. Extends(Rows(c), <<>>) /\ 0 <= Len(Rows(c))
    <3>1. SubSeq(Rows(c), 1, 0) = <<>>
      BY SubSeqEmpty
    <3>2. QED
      BY <2>2, <3>1 DEF Extends
  <2>4. QED
    BY <1>1, <2>1, <2>3 DEF ExportCursor, ExportIsSnapshot
<1>3. ASSUME exp' = NoExport PROVE ExportCursor' /\ ExportIsSnapshot'
  BY <1>3 DEF NoExport, ExportCursor, ExportIsSnapshot
<1>4. ASSUME ExportCheck PROVE ExportCursor' /\ ExportIsSnapshot'
  <2> DEFINE ev == mem[exp.conv]
  <2>1. phase = "up" /\ exp.phase = "between"
    BY <1>4 DEF ExportCheck
  <2>2. ASSUME /\ Live(ev) /\ ActiveTurns(ev) = {} /\ ~Importing(ev)
               /\ exp' = [exp EXCEPT !.phase = "read", !.revision = Len(ev)]
        PROVE  ExportCursor' /\ ExportIsSnapshot'
    <3>1. /\ exp'.phase = "read" /\ exp'.revision = Len(ev) /\ exp'.conv = exp.conv
          /\ exp'.got = exp.got
      BY <2>2 DEF Typed, TypeOK
    <3>2. Rows(exp.conv) = ev /\ Extends(ev, exp.got)
      BY <2>1, <2>2, RowsOf DEF Readable, ExportCursor, Live
    <3>3. Len(ev) \in Nat
      BY <2>1 DEF Typed, TypeOK, Cursors
    <3>4. QED
      BY <1>1, <2>1, <2>2, <3>1, <3>2, <3>3 DEF ExportCursor, ExportIsSnapshot
  <2>3. QED
    BY <1>3, <1>4, <2>2 DEF ExportCheck
<1>5. ASSUME ExportRead PROVE ExportCursor' /\ ExportIsSnapshot'
  <2> DEFINE ev == mem[exp.conv]
  <2>1. phase = "up" /\ exp.phase = "read" /\ exp.conv \in Conv /\ Rows(exp.conv) = ev
    BY <1>5, RowsOf DEF ExportRead, Typed, Cursors
  <2>2. ev \in Seq(Event) /\ exp.got \in Seq(Event) /\ Len(ev) \in Nat /\ Len(exp.got) \in Nat
    BY <2>1 DEF Typed, TypeOK
  <2>3. PICK next : next = IF Len(exp.got) + PageSize < Len(ev) THEN Len(exp.got) + PageSize ELSE Len(ev)
    OBVIOUS
  <2>4. ASSUME /\ Live(ev) /\ Len(ev) = exp.revision
               /\ exp' = [exp EXCEPT !.got = @ \o SubSeq(ev, Len(exp.got) + 1, next),
                                     !.phase = IF next < Len(ev) THEN "between" ELSE "done"]
        PROVE  ExportCursor' /\ ExportIsSnapshot'
    <3> DEFINE got == exp.got \o SubSeq(ev, Len(exp.got) + 1, next)
    <3>1. Extends(ev, exp.got) /\ ActiveTurns(ev) = {} /\ ~Importing(ev)
      BY <2>1, <2>4 DEF Readable, ExportCursor, Live
    <3>2. next \in Nat /\ Len(exp.got) <= next /\ next <= Len(ev) /\ (~(next < Len(ev)) => next = Len(ev))
      BY <2>2, <2>3, <3>1, BoundsAreNumbers DEF Extends
    <3>3. Extends(ev, got) /\ (next = Len(ev) => got = ev)
      BY <2>2, <3>1, <3>2, PageExtends
    <3>4. /\ exp'.phase = (IF next < Len(ev) THEN "between" ELSE "done") /\ exp'.got = got
          /\ exp'.conv = exp.conv /\ exp'.revision = exp.revision
      BY <2>4 DEF Typed, TypeOK
    <3>5. Contiguous(ev)
      BY <2>1 DEF Readable, Counted
    <3>6. ExportIsSnapshot'
      <4>1. SUFFICES ASSUME exp'.phase = "done" PROVE ExportIsSnapshot'
        BY DEF ExportIsSnapshot
      <4>2. exp'.got = ev
        BY <3>2, <3>3, <3>4, <4>1
      <4>3. QED
        BY <2>4, <3>1, <3>4, <3>5, <4>2 DEF ExportIsSnapshot
    <3>7. ExportCursor'
      <4>1. exp'.phase # "read"
        BY <3>4
      <4>3. Rows(exp.conv)' = ev
        BY <1>1, <2>1, <3>4 DEF Rows
      <4>2. Extends(ev, exp'.got) /\ exp'.revision <= Len(ev)
        BY <2>2, <2>4, <3>3, <3>4
      <4>4. QED
        BY <4>1, <4>2, <4>3 DEF ExportCursor
    <3>8. QED
      BY <3>6, <3>7
  <2>5. QED
    BY <1>3, <1>5, <2>3, <2>4 DEF ExportRead
<1>6. QED
  BY <1>2, <1>4, <1>5

\* The store starts with nothing to read.
LEMMA ReadableInit == Init => Readable
BY DEF Init, Readable, Backed, Counted, ExportCursor, ExportIsSnapshot, NoExport

\* Every step keeps the export a prefix of a numbered journal.
LEMMA ReadableNext == Typed /\ Readable /\ [Next]_vars => Readable'
<1>. SUFFICES ASSUME Typed, Readable, [Next]_vars PROVE Readable'
  OBVIOUS
<1>1. Backed' /\ Counted'
  BY BackedNext, CountedNext DEF Readable
<1>2. CASE UNCHANGED exp /\ (phase' # "down" \/ exp.phase # "read")
  <2>1. ExportCursor'
    BY <1>2, CursorHolds DEF Readable
  <2>2. ExportIsSnapshot'
    BY <1>2 DEF Readable, ExportIsSnapshot
  <2>3. QED
    BY <1>1, <2>1, <2>2 DEF Readable
<1>3. CASE Stop
  <2>1. CASE exp.phase = "read"
    BY <1>1, <1>3, <2>1 DEF Stop, NoExport, ExportCursor, ExportIsSnapshot, Readable
  <2>2. CASE exp.phase # "read"
    BY <1>2, <1>3, <2>2 DEF Stop
  <2>3. QED
    BY <2>1, <2>2
<1>4. CASE UNCHANGED exp /\ phase' = "down" /\ exp.phase = "read"
  <2>1. phase = "up"
    BY <1>4 DEF Readable, ExportCursor
  <2>2. Stop
    BY <1>4, <2>1, StepsOfJournals
       DEF FinishOpen, CompleteAppend, ReplaceFile, RemoveImages, Crash, FailOpen, Open
  <2>3. QED
    BY <1>3, <2>2
<1>5. CASE UNCHANGED store /\ ((\E c \in Conv : ExportStart(c)) \/ ExportCheck \/ ExportRead)
  BY <1>1, <1>5, ExportSteps DEF Readable
<1>6. QED
  BY <1>2, <1>3, <1>4, <1>5, StepsOfExport

\* An export the client finished is the whole journal at one revision, with no open turn,
\* whatever was appended, deleted, imported or restarted between its pages (export_page).
\* The theorem needs no assumption: it holds also where image files cannot be removed.
THEOREM ExportsAreSnapshots == Spec => []ExportIsSnapshot
<1>1. Init => Typed /\ Readable
  BY TypedInit, ReadableInit
<1>2. Typed /\ Readable /\ [Next]_vars => (Typed /\ Readable)'
  BY TypedNext, ReadableNext
<1>3. Typed /\ Readable => ExportIsSnapshot
  BY DEF Readable
<1>4. QED
  BY <1>1, <1>2, <1>3, PTL DEF Spec

----------------------------------------------------------------------------
(* Ordered journals.                                                       *)
(*                                                                         *)
(* An import appends the rows of its document without asking whether each  *)
(* fits the turn before it (import_events checks kinds and sizes), so what *)
(* an import publishes is as well-ordered as the document.  The theorems   *)
(* below are about documents that an export wrote: their ids are distinct, *)
(* and each row was admissible after the rows before it.                   *)

ExportedDocuments ==
  \A d \in Documents :
    /\ UniqueIds(d)
    /\ \A p \in DOMAIN d : IdFits(d[p]) /\ Admissible(SubSeq(d, 1, p - 1), d[p])

\* The journal an import may publish: every turn closed and apart, and a whole document in it.
Complete(ev) ==
  /\ ActiveTurns(ev) = {} /\ OneTurnAtATime(ev) /\ InsideItsTurn(ev)
  /\ \E doc \in Documents : \A i \in DOMAIN doc : HasId(ev, doc[i].id)

\* Turns apart, ids that say what their rows are, and imports published whole.
Ordered(ev) ==
  /\ TurnsAreNamed(ev) /\ OneTurnAtATime(ev) /\ InsideItsTurn(ev)
  /\ \A i \in DOMAIN ev : IdFits(ev[i])
  /\ \A n \in DOMAIN ev : ev[n].kind = "import_complete" => Complete(SubSeq(ev, 1, n - 1))

\* The empty journal and the tombstone are ordered.
LEMMA OrderedStarts == Ordered(<<>>) /\ Ordered(TombstoneRows)
<1>1. Ordered(<<>>)
  BY DEF Ordered, TurnsAreNamed, OneTurnAtATime, InsideItsTurn
<1>2. /\ Tombstone \in Drafts /\ Numbered(Tombstone, 1).kind = "deleted"
      /\ IdFits(Numbered(Tombstone, 1))
  BY BuiltDrafts, DraftKinds, NumberedFields, NumberedFits, BuiltIdsFit
<1>3. DOMAIN TombstoneRows = 1 .. 1 /\ TombstoneRows[1] = Numbered(Tombstone, 1)
  BY DEF TombstoneRows
<1>4. Ordered(TombstoneRows)
  BY <1>2, <1>3 DEF Ordered, TurnsAreNamed, OneTurnAtATime, InsideItsTurn, ScopedKind
<1>5. QED
  BY <1>1, <1>4

\* The rows before a row are those of the journal it was appended to.
LEMMA ExtendedBefore ==
  ASSUME NEW ev \in Seq(Event), NEW draft \in Drafts
  PROVE  /\ \A n \in 1 .. Len(ev) : SubSeq(Extended(ev, draft), 1, n - 1) = SubSeq(ev, 1, n - 1)
         /\ SubSeq(Extended(ev, draft), 1, Len(ev)) = ev
<1> DEFINE new == Extended(ev, draft)
<1>1. /\ new \in Seq(Event) /\ Len(ev) \in Nat /\ Len(new) = Len(ev) + 1
      /\ \A i \in 1 .. Len(ev) : new[i] = ev[i]
  BY ExtendedRows
<1> HIDE DEF new
<1>2. ASSUME NEW m \in 0 .. Len(ev) PROVE SubSeq(new, 1, m) = SubSeq(ev, 1, m)
  <2>1. SubSeq(new, 1, m) \in Seq(Event) /\ Len(SubSeq(new, 1, m)) = m
    BY <1>1
  <2>2. SubSeq(ev, 1, m) \in Seq(Event) /\ Len(SubSeq(ev, 1, m)) = m
    BY <1>1
  <2>3. \A i \in 1 .. m : SubSeq(new, 1, m)[i] = SubSeq(ev, 1, m)[i]
    BY <1>1
  <2>4. QED
    BY <2>1, <2>2, <2>3, SeqEqual
<1>3. SubSeq(ev, 1, Len(ev)) = ev
  BY SubSeqFull
<1>4. \A n \in 1 .. Len(ev) : n - 1 \in 0 .. Len(ev)
  BY <1>1
<1>5. Len(ev) \in 0 .. Len(ev)
  BY <1>1
<1>6. QED
  BY <1>2, <1>3, <1>4, <1>5 DEF new

\* An admissible row keeps a journal ordered; the row that publishes an import must find it
\* complete.
LEMMA ExtendedOrdered ==
  ASSUME NEW ev \in Seq(Event), NEW draft \in Drafts, Ordered(ev),
         Admissible(ev, draft), IdFits(draft),
         draft.kind = "import_complete" => Complete(ev)
  PROVE  Ordered(Extended(ev, draft))
<1> DEFINE new == Extended(ev, draft)
<1>1. DOMAIN ev = 1 .. Len(ev) /\ DOMAIN new = 1 .. Len(ev) + 1 /\ Len(ev) \in Nat
  BY ExtendedRows
<1>2. (\A i \in 1 .. Len(ev) : new[i] = ev[i]) /\ new[Len(ev) + 1] = Numbered(draft, Len(ev) + 1)
  BY ExtendedRows
<1>3. TurnsAreNamed(new) /\ OneTurnAtATime(new) /\ InsideItsTurn(new)
  BY ExtendedTurnsAreNamed, ExtendedOneTurn, ExtendedInsideItsTurn DEF Ordered
<1>4. \A i \in DOMAIN new : IdFits(new[i])
  BY <1>1, <1>2, NumberedFits DEF Ordered
<1>5. ASSUME NEW n \in DOMAIN new, new[n].kind = "import_complete"
      PROVE  Complete(SubSeq(new, 1, n - 1))
  <2>1. CASE n \in 1 .. Len(ev)
    BY <1>1, <1>2, <1>5, <2>1, ExtendedBefore DEF Ordered
  <2>2. CASE n = Len(ev) + 1
    <3>1. draft.kind = "import_complete" /\ n - 1 = Len(ev)
      BY <1>1, <1>2, <1>5, <2>2, NumberedFields
    <3>2. QED
      BY <3>1, ExtendedBefore
  <2>3. QED
    BY <1>1, <2>1, <2>2
<1>6. QED
  BY <1>3, <1>4, <1>5 DEF Ordered

\* The end of a turn is in its journal only once the turn is over.
LEMMA OpenTurnHasNoEnd ==
  ASSUME NEW ev \in Seq(Event), UniqueIds(ev), Ordered(ev), NEW t \in ActiveTurns(ev)
  PROVE  HasId(ev, <<"begin", t>>) /\ ~HasId(ev, <<"end", t>>)
<1>1. PICK i \in DOMAIN ev : LastMarker(ev, i) /\ ev[i].kind = "turn_begin" /\ ev[i].turn = t
  BY DEF ActiveTurns
<1>2. ev[i].id = <<"begin", t>>
  BY <1>1 DEF Ordered, IdFits
<1>3. ASSUME NEW j \in DOMAIN ev, ev[j].id = <<"end", t>> PROVE FALSE
  <2>1. ev[j].kind = "turn_end" /\ <<"end", t>> = <<"end", ev[j].turn>>
    BY <1>3 DEF Ordered, IdFits
  <2>2. PICK k \in DOMAIN ev : Encloses(ev, k, j)
    BY <2>1 DEF Ordered, InsideItsTurn
  <2>3. k < j /\ ev[k].kind = "turn_begin" /\ ev[k].turn = t
    BY <2>1, <2>2 DEF Encloses
  <2>4. ev[k].id = <<"begin", t>>
    BY <2>2, <2>3 DEF Ordered, IdFits
  <2>5. k = i
    BY <1>2, <2>4 DEF UniqueIds
  <2>6. QED
    BY <1>1, <2>1, <2>3, <2>5 DEF LastMarker, TurnKind
<1>4. QED
  BY <1>2, <1>3 DEF HasId

\* Where no turn is open, every turn that began has an end, with an outcome.
LEMMA ClosedTurnsHaveEnds ==
  ASSUME NEW ev \in Seq(Event), Ordered(ev), ActiveTurns(ev) = {}, NEW t, HasId(ev, <<"begin", t>>)
  PROVE  HasId(ev, <<"end", t>>)
<1>1. PICK i \in DOMAIN ev : ev[i].id = <<"begin", t>>
  BY DEF HasId
<1>2. ev[i].kind = "turn_begin" /\ ev[i].turn = t
  BY <1>1 DEF Ordered, IdFits
<1>3. ~LastMarker(ev, i)
  BY <1>2, LastBeginIsActive DEF Ordered
<1>4. PICK j \in DOMAIN ev : Closes(ev, i, j)
  BY <1>2, <1>3 DEF Ordered, OneTurnAtATime
<1>5. ev[j].id = <<"end", t>>
  BY <1>2, <1>4 DEF Closes, Ordered, IdFits
<1>6. QED
  BY <1>5 DEF HasId

\* A turn that never began has no end.
LEMMA EndsHaveBegins ==
  ASSUME NEW ev \in Seq(Event), Ordered(ev), NEW t, HasId(ev, <<"end", t>>)
  PROVE  HasId(ev, <<"begin", t>>)
<1>1. PICK j \in DOMAIN ev : ev[j].id = <<"end", t>>
  BY DEF HasId
<1>2. ev[j].kind = "turn_end" /\ ev[j].turn = t
  BY <1>1 DEF Ordered, IdFits
<1>3. PICK i \in DOMAIN ev : Encloses(ev, i, j)
  BY <1>2 DEF Ordered, InsideItsTurn
<1>4. ev[i].id = <<"begin", t>>
  BY <1>2, <1>3 DEF Encloses, Ordered, IdFits
<1>5. QED
  BY <1>4 DEF HasId

----------------------------------------------------------------------------
(* What an import has written when it has come to row k of its document.   *)

\* ev is still an import: it holds the first k rows of doc, and of what belongs to turns
\* nothing else.
Holds(ev, doc, k) ==
  /\ Importing(ev)
  /\ \A q \in 1 .. k : HasId(ev, doc[q].id)
  /\ ActiveTurns(ev) = ActiveTurns(SubSeq(doc, 1, k))
  /\ \A i \in DOMAIN ev : ev[i].id[1] \in TurnPrefix => \E q \in 1 .. k : doc[q].id = ev[i].id

\* The rows with an id of a turn, in a journal with one row more.
LEMMA ExtendedTurnRows ==
  ASSUME NEW ev \in Seq(Event), NEW draft \in Drafts, NEW i \in DOMAIN Extended(ev, draft)
  PROVE  \/ i \in DOMAIN ev /\ Extended(ev, draft)[i].id = ev[i].id
         \/ Extended(ev, draft)[i].id = draft.id
<1>1. /\ DOMAIN ev = 1 .. Len(ev) /\ DOMAIN Extended(ev, draft) = 1 .. Len(ev) + 1 /\ Len(ev) \in Nat
      /\ \A j \in 1 .. Len(ev) : Extended(ev, draft)[j] = ev[j]
      /\ Extended(ev, draft)[Len(ev) + 1].id = draft.id
  BY ExtendedRows, NumberedFields
<1>2. QED
  BY <1>1

\* An import stays one until its commit.
LEMMA ExtendedImporting ==
  ASSUME NEW ev \in Seq(Event), NEW draft \in Drafts, Importing(ev), draft.kind # "import_complete"
  PROVE  Importing(Extended(ev, draft))
BY ExtendedImported, ExtendedKinds DEF Importing, Imported

\* A rename, a migrated row or a late result leaves the import where it was.
LEMMA HoldsOther ==
  ASSUME NEW ev \in Seq(Event), NEW draft \in Drafts, NEW doc, NEW k \in Nat, Holds(ev, doc, k),
         IdFits(draft), draft.id[1] \notin TurnPrefix, draft.kind # "import_complete"
  PROVE  Holds(Extended(ev, draft), doc, k)
<1> DEFINE new == Extended(ev, draft)
<1>1. Importing(new)
  BY ExtendedImporting DEF Holds
<1>2. \A q \in 1 .. k : HasId(new, doc[q].id)
  BY ExtendedIds DEF Holds
<1>3. ActiveTurns(new) = ActiveTurns(ev)
  <2>1. Numbered(draft, Len(ev) + 1) \in Event /\ Numbered(draft, Len(ev) + 1).kind \notin TurnKind
    BY NumberedFields DEF IdFits
  <2>2. QED
    BY <2>1, ActiveAppend DEF Extended, ActiveAfter, TurnKind
<1>4. ASSUME NEW i \in DOMAIN new, new[i].id[1] \in TurnPrefix
      PROVE  \E q \in 1 .. k : doc[q].id = new[i].id
  BY <1>4, ExtendedTurnRows DEF Holds
<1>5. QED
  BY <1>1, <1>2, <1>3, <1>4 DEF Holds

\* The rows of a document up to the next one.
LEMMA DocumentRows ==
  ASSUME NEW doc \in Documents, NEW k \in Nat, k + 1 <= Len(doc)
  PROVE  /\ doc \in Seq(Drafts) /\ SubSeq(doc, 1, k) \in Seq(Drafts) /\ k + 1 \in DOMAIN doc
         /\ doc[k + 1] \in Drafts /\ doc[k + 1].kind \in ImportedKind
         /\ SubSeq(doc, 1, k + 1) = Append(SubSeq(doc, 1, k), doc[k + 1])
<1>1. doc \in Seq(Drafts) /\ Len(doc) \in Nat /\ DOMAIN doc = 1 .. Len(doc)
  BY DocumentsAreJournals
<1>2. k + 1 \in 1 .. Len(doc) /\ doc[k + 1] \in Drafts /\ doc[k + 1].kind \in ImportedKind
  BY <1>1, DocumentsAreJournals
<1>3. SubSeq(doc, 1, k) \in Seq(Drafts)
  BY <1>1
<1>4. SubSeq(doc, 1, k + 1) = SubSeq(doc, 1, (k + 1) - 1) \o << doc[k + 1] >>
  <2>1. 1 \in 1 .. Len(doc) /\ k + 1 \in 1 .. Len(doc)
    BY <1>1, <1>2
  <2>2. QED
    BY <1>1, <2>1, SubSeqRecursiveSecond
<1>5. Append(SubSeq(doc, 1, k), doc[k + 1]) = SubSeq(doc, 1, k) \o << doc[k + 1] >>
  BY <1>2, <1>3, AppendIsConcat
<1>6. QED
  BY <1>1, <1>2, <1>3, <1>4, <1>5

\* The next row of the document, which the journal admits as the document did.
LEMMA HoldsNext ==
  ASSUME NEW ev \in Seq(Event), NEW doc \in Documents, NEW k \in Nat, k + 1 <= Len(doc),
         Holds(ev, doc, k)
  PROVE  Holds(Extended(ev, doc[k + 1]), doc, k + 1)
<1> DEFINE row == doc[k + 1]
           new == Extended(ev, row)
<1>1. /\ SubSeq(doc, 1, k) \in Seq(Drafts) /\ row \in Drafts /\ row.kind \in ImportedKind
      /\ SubSeq(doc, 1, k + 1) = Append(SubSeq(doc, 1, k), row)
  BY DocumentRows
<1>2. Importing(new)
  BY <1>1, ExtendedImporting DEF Holds, ImportedKind, TurnKind, ScopedKind
<1>3. \A q \in 1 .. k + 1 : HasId(new, doc[q].id)
  <2>1. \A q \in 1 .. k + 1 : q \in 1 .. k \/ q = k + 1
    OBVIOUS
  <2>2. QED
    BY <1>1, <2>1, ExtendedIds DEF Holds
<1>4. ActiveTurns(new) = ActiveTurns(SubSeq(doc, 1, k + 1))
  <2>1. /\ Numbered(row, Len(ev) + 1) \in Event /\ Numbered(row, Len(ev) + 1).kind = row.kind
        /\ Numbered(row, Len(ev) + 1).turn = row.turn
    BY <1>1, NumberedFields
  <2>2. ActiveTurns(new) = ActiveAfter(ev, Numbered(row, Len(ev) + 1))
    BY <2>1, ActiveAppend DEF Extended
  <2>3. ActiveTurns(SubSeq(doc, 1, k + 1)) = ActiveAfter(SubSeq(doc, 1, k), row)
    BY <1>1, ActiveAppend
  <2>4. QED
    BY <2>1, <2>2, <2>3 DEF ActiveAfter, Holds
<1>5. ASSUME NEW i \in DOMAIN new, new[i].id[1] \in TurnPrefix
      PROVE  \E q \in 1 .. k + 1 : doc[q].id = new[i].id
  <2>1. CASE i \in DOMAIN ev /\ new[i].id = ev[i].id
    <3>1. PICK q \in 1 .. k : doc[q].id = ev[i].id
      BY <1>5, <2>1 DEF Holds
    <3>2. q \in 1 .. k + 1
      OBVIOUS
    <3>3. QED
      BY <2>1, <3>1, <3>2
  <2>2. CASE new[i].id = row.id
    <3>1. k + 1 \in 1 .. k + 1
      OBVIOUS
    <3>2. QED
      BY <2>2, <3>1
  <2>3. QED
    BY <1>1, <1>5, <2>1, <2>2, ExtendedTurnRows
<1>6. QED
  BY <1>2, <1>3, <1>4, <1>5 DEF Holds

\* A row that is passed over because its id is there already is no row of a turn.
LEMMA HoldsSkip ==
  ASSUME NEW ev \in Seq(Event), NEW doc \in Documents, NEW k \in Nat, k + 1 <= Len(doc),
         Holds(ev, doc, k), ExportedDocuments, HasId(ev, doc[k + 1].id)
  PROVE  Holds(ev, doc, k + 1)
<1> DEFINE row == doc[k + 1]
<1>1. /\ SubSeq(doc, 1, k) \in Seq(Drafts) /\ row \in Drafts /\ k + 1 \in DOMAIN doc
      /\ SubSeq(doc, 1, k + 1) = Append(SubSeq(doc, 1, k), row) /\ doc \in Seq(Drafts)
  BY DocumentRows
<1>2. row.id[1] \notin TurnPrefix
  <2>1. SUFFICES ASSUME row.id[1] \in TurnPrefix PROVE FALSE
    OBVIOUS
  <2>2. PICK i \in DOMAIN ev : ev[i].id = row.id
    BY DEF HasId
  <2>3. PICK q \in 1 .. k : doc[q].id = row.id
    BY <2>1, <2>2 DEF Holds
  <2>4. q \in DOMAIN doc /\ q # k + 1
    BY <1>1
  <2>5. QED
    BY <1>1, <2>3, <2>4 DEF ExportedDocuments, UniqueIds
<1>3. row.kind \notin TurnKind
  BY <1>1, <1>2 DEF ExportedDocuments, IdFits
<1>4. ActiveTurns(SubSeq(doc, 1, k + 1)) = ActiveTurns(SubSeq(doc, 1, k))
  BY <1>1, <1>3, ActiveAppend DEF ActiveAfter, TurnKind
<1>5. \A q \in 1 .. k + 1 : q \in 1 .. k \/ q = k + 1
  OBVIOUS
<1>6. \A q \in 1 .. k : q \in 1 .. k + 1
  OBVIOUS
<1>7. QED
  BY <1>4, <1>5, <1>6 DEF Holds

\* A conversation begun as an import holds nothing of the document yet.
LEMMA HoldsNothing ==
  ASSUME NEW doc
  PROVE  Holds(Extended(<<>>, CreatedDraft("importing")), doc, 0)
<1> DEFINE draft == CreatedDraft("importing")
           new == Extended(<<>>, draft)
<1>1. /\ draft \in Drafts /\ draft.kind = "created" /\ draft.data[1] = "importing"
      /\ draft.id[1] \notin TurnPrefix /\ <<>> \in Seq(Event)
  BY BuiltDrafts, BuiltIdsFit DEF CreatedDraft, Draft
<1>2. Importing(new)
  <2>1. ~HasKind(<<>>, "import_complete")
    BY DEF HasKind
  <2>2. QED
    BY <1>1, <2>1, ExtendedImported, ExtendedKinds DEF Importing
<1>3. ActiveTurns(new) = {} /\ ActiveTurns(SubSeq(doc, 1, 0)) = {}
  <2>1. Numbered(draft, Len(<<>>) + 1) \in Event /\ Numbered(draft, Len(<<>>) + 1).kind = "created"
    BY <1>1, NumberedFields
  <2>2. SubSeq(doc, 1, 0) = <<>>
    BY SubSeqEmpty
  <2>3. QED
    BY <1>1, <2>1, <2>2, ActiveAppend, EmptyHasNoTurn DEF Extended, ActiveAfter
<1>4. \A i \in DOMAIN new : new[i].id[1] \notin TurnPrefix
  <2>1. DOMAIN new = 1 .. 1 /\ new[1].id = draft.id
    <3>1. Len(<<>>) = 0
      OBVIOUS
    <3>2. DOMAIN new = 1 .. Len(<<>>) + 1 /\ new[Len(<<>>) + 1] = Numbered(draft, Len(<<>>) + 1)
      BY <1>1, ExtendedRows
    <3>3. Numbered(draft, Len(<<>>) + 1).id = draft.id
      BY <1>1, <3>1, NumberedFields
    <3> HIDE DEF new, draft
    <3>4. QED
      BY <3>1, <3>2, <3>3
  <2> HIDE DEF new, draft
  <2>2. QED
    BY <1>1, <2>1
<1>5. \A q \in 1 .. 0 : HasId(new, doc[q].id)
  OBVIOUS
<1> HIDE DEF new
<1>6. Holds(new, doc, 0)
  BY <1>2, <1>3, <1>4, <1>5 DEF Holds
<1>7. QED
  BY <1>6 DEF new

----------------------------------------------------------------------------
(* The invariant of imports.                                               *)

\* What the handlers made sure of when they took the mutex for a row.
Allowed(ev, draft) ==
  /\ Admissible(ev, draft) /\ IdFits(draft)
  /\ draft.kind = "created" <=> ev = <<>>
  /\ draft.kind = "import_complete" => Complete(ev) /\ Importing(ev)

\* It still holds while the row is written, and in an import only the import writes turns.
RowRules ==
  Writing /\ lock.draft # Tombstone =>
    /\ Allowed(mem[lock.conv], lock.draft)
    /\ lock.draft.kind = "import_complete" => imp.phase = "idle"
    /\ lock.draft.id[1] \in TurnPrefix /\ Importing(mem[lock.conv]) => imp.phase = "writing"

\* The first k rows of the document are in, unless the conversation was deleted meanwhile.
At(k) == Deleted(Rows(imp.conv)) \/ Holds(Rows(imp.conv), imp.doc, k)

\* Where the import stands, between its requests, inside one, and while a row is written.
ImportCursor ==
  /\ imp.phase \in {"between", "page", "commit"} => At(imp.pos - 1) /\ imp.pos - 1 <= Len(imp.doc)
  /\ imp.phase \in {"page", "commit", "writing"} => phase = "up"
  /\ imp.phase = "commit" =>
       imp.pos - 1 = Len(imp.doc) /\ ActiveTurns(SubSeq(imp.doc, 1, Len(imp.doc))) = {}
  /\ imp.phase = "writing" =>
       /\ Writing /\ lock.conv = imp.conv /\ imp.doc \in Documents
       /\ IF imp.pos = 0
            THEN lock.draft = CreatedDraft("importing") /\ mem[imp.conv] = <<>>
            ELSE /\ imp.pos <= Len(imp.doc) /\ lock.draft = imp.doc[imp.pos]
                 /\ Holds(mem[imp.conv], imp.doc, imp.pos - 1)
  /\ imp.phase # "idle" => imp.doc \in Documents /\ imp.pos \in Nat
  /\ imp.phase = "commit" => imp.pos >= 1

AllOrdered == \A c \in Conv : Ordered(disk[c]) /\ Ordered(mem[c])

Whole == RowRules /\ ImportCursor /\ AllOrdered

\* Nothing is written to a file but what is in memory, so a crash loses no order either.
LEMMA SoundBacked == Sound => Backed
<1>1. Deleted(TombstoneRows)
  BY TombstoneWellFormed
<1>2. QED
  BY <1>1 DEF Sound, Backed, Synced

\* While a row is written, memory is the file.
LEMMA WritingSynced ==
  ASSUME Typed, Sound, Writing, lock.draft # Tombstone
  PROVE  phase # "down" /\ \A c \in Conv : mem[c] = disk[c]
BY FreeIsNotWriting DEF Sound, Synced, Deleting

\* Every journal stays ordered.
LEMMA OrderedNext == ASSUME Typed, Sound, RowRules, AllOrdered, [Next]_vars PROVE AllOrdered'
<1>1. mem \in [Conv -> Seq(Event)] /\ disk \in [Conv -> Seq(Event)]
  BY DEF Typed, TypeOK
<1>2. ASSUME Writing, lock.draft # Tombstone
      PROVE  Ordered(Extended(mem[lock.conv], lock.draft))
  BY <1>2, RowExtends, ExtendedOrdered DEF RowRules, Allowed, AllOrdered
<1>3. CASE UNCHANGED <<disk, mem>>
  BY <1>3 DEF AllOrdered
<1>4. CASE CompleteAppend
  <2>1. Writing /\ lock.draft # Tombstone
    BY <1>4 DEF CompleteAppend
  <2>2. /\ mem' = [mem EXCEPT ![lock.conv] = Extended(mem[lock.conv], lock.draft)]
        /\ disk' = [disk EXCEPT ![lock.conv] = Extended(mem[lock.conv], lock.draft)]
    BY <1>4, <2>1, RowExtends, WritingSynced DEF CompleteAppend
  <2>3. QED
    BY <1>1, <1>2, <2>1, <2>2 DEF AllOrdered
<1>5. CASE ReplaceFile
  <2>1. disk' = [disk EXCEPT ![lock.conv] = TombstoneRows] /\ mem' = mem
    BY <1>5 DEF ReplaceFile, TombstoneRows
  <2>2. QED
    BY <1>1, <2>1, OrderedStarts DEF AllOrdered
<1>6. CASE RemoveImages
  <2>1. mem' = [mem EXCEPT ![lock.conv] = TombstoneRows] /\ disk' = disk
    BY <1>6 DEF RemoveImages, TombstoneRows
  <2>2. QED
    BY <1>1, <2>1, OrderedStarts DEF AllOrdered
<1>7. CASE Crash \/ FailOpen
  <2>1. mem' = [c \in Conv |-> <<>>]
    BY <1>7 DEF Crash, FailOpen, Stop
  <2>2. CASE disk' = disk
    BY <2>1, <2>2, OrderedStarts DEF AllOrdered
  <2>3. CASE /\ Writing /\ lock.draft # Tombstone
             /\ disk' = [disk EXCEPT ![lock.conv] = Append(@, Row)]
    <3>1. disk' = [disk EXCEPT ![lock.conv] = Extended(mem[lock.conv], lock.draft)]
      BY <2>3, RowExtends, WritingSynced
    <3>2. QED
      BY <1>1, <1>2, <2>1, <2>3, <3>1, OrderedStarts DEF AllOrdered
  <2>4. QED
    BY <1>7, <2>2, <2>3 DEF Crash, FailOpen
<1>8. CASE Open
  BY <1>8 DEF Open, AllOrdered
<1>9. QED
  BY <1>3, <1>4, <1>5, <1>6, <1>7, <1>8, StepsOfJournals

\* What the import has written stays written, and nobody else writes a turn there.
LEMMA AtKept ==
  ASSUME Typed, Sound, RowRules, [Next]_vars, UNCHANGED imp,
         imp.phase \in {"between", "page", "commit"}, NEW k \in Nat, At(k)
  PROVE  At(k)'
<1>1. PICK c \in Conv : c = imp.conv
  BY DEF Typed, Cursors
<1>2. Rows(c) \in Seq(Event) /\ Grown(c)
  BY SoundBacked, RowsGrow DEF Typed, TypeOK, Rows
<1>3. Deleted(Rows(c)) \/ Holds(Rows(c), imp.doc, k)
  BY <1>1 DEF At
<1>4. SUFFICES Deleted(Rows(c)') \/ Holds(Rows(c)', imp.doc, k)
  BY <1>1 DEF At
<1>5. ASSUME RowEnters(c) PROVE Deleted(Rows(c)') \/ Holds(Rows(c)', imp.doc, k)
  <2>1. lock.draft \in Drafts /\ Rows(c)' = Extended(Rows(c), lock.draft) /\ c = lock.conv
    BY <1>5, RowExtends DEF RowEnters
  <2>2. CASE Deleted(Rows(c))
    BY <1>2, <2>1, <2>2, ExtendedFirst
  <2>3. CASE Holds(Rows(c), imp.doc, k)
    <3>1. Rows(c) = mem[c] /\ Importing(mem[c])
      BY <1>5, <2>3, WritingSynced, RowsOf DEF RowEnters, Holds
    <3>2. IdFits(lock.draft) /\ lock.draft.id[1] \notin TurnPrefix /\ lock.draft.kind # "import_complete"
      BY <1>5, <2>1, <3>1 DEF RowEnters, RowRules, Allowed
    <3>3. QED
      BY <1>2, <2>1, <2>3, <3>2, HoldsOther
  <2>4. QED
    BY <1>3, <2>2, <2>3
<1>6. QED
  BY <1>2, <1>3, <1>5 DEF Grown

\* While a row is written nothing else moves.
LEMMA HeldMutex ==
  ASSUME Typed, Sound, Writing, lock.draft # Tombstone, [Next]_vars
  PROVE  UNCHANGED <<lock, mem, phase, imp>> \/ CompleteAppend \/ FailWrite \/ Stop
<1>1. lock # Free /\ ~Deleting /\ phase # "down"
  BY FreeIsNotWriting, WritingSynced DEF Deleting
<1>2. CASE FileSystem
  BY <1>1, <1>2 DEF FileSystem, ReplaceFile, RemoveImages, FailRemoval
<1>3. CASE Recovery
  BY <1>1, <1>3 DEF Recovery, Open, InterruptTurn, FinishOpen, FailOpen, Crash
<1>4. CASE Requests
  <2>1. ASSUME NEW c \in Conv, ExportStart(c) PROVE UNCHANGED <<lock, mem, phase, imp>>
    BY <2>1 DEF ExportStart, store
  <2>2. QED
    BY <1>1, <1>4, <2>1 DEF Requests, Create, Delete, BeginImport, Rename, ImportLegacy, Begin, View,
              FinishCheck, AssertActive, Serving, StartWrite
<1>5. CASE (\E call \in calls : FinishAppend(call)) \/ (\E req \in running : ModelResult(req))
           \/ (\E req \in asking : SaveImages(req) \/ ModelInput(req))
  BY <1>1, <1>5 DEF FinishAppend, ModelResult, SaveImages, ModelInput, clients
<1>6. CASE ImportCheck \/ ImportAppend \/ CommitCheck \/ CommitImport \/ ExportCheck \/ ExportRead
  BY <1>1, <1>6 DEF ImportCheck, ImportAppend, CommitCheck, CommitImport, ExportCheck, ExportRead,
                    AppendEvent, StartWrite
<1>7. CASE UNCHANGED vars
  BY <1>7 DEF vars
<1>8. QED
  BY <1>2, <1>3, <1>4, <1>5, <1>6, <1>7 DEF Next

\* Taking the mutex for a row that is allowed.
LEMMA RulesStart ==
  ASSUME NEW c \in Conv, NEW draft \in Drafts, StartWrite(c, draft), Allowed(mem[c], draft),
         draft.kind = "import_complete" => imp'.phase = "idle",
         draft.id[1] \in TurnPrefix /\ Importing(mem[c]) => imp'.phase = "writing"
  PROVE  RowRules'
<1>1. lock'.conv = c /\ lock'.draft = draft /\ mem' = mem
  BY DEF StartWrite
<1>2. QED
  BY <1>1 DEF RowRules

\* A row that needs an active request is not written to an import.
LEMMA RulesRecord ==
  ASSUME NEW c \in Conv, NEW draft \in Drafts, AppendEvent(c, draft, TRUE), draft.turn \in Turn,
         IdFits(draft), draft.kind \in TurnKind \cup ScopedKind
  PROVE  RowRules'
<1>1. StartWrite(c, draft) /\ mem[c] # <<>> /\ ~Importing(mem[c]) /\ Admissible(mem[c], draft)
  BY MayRecordAdmits DEF AppendEvent, Live, MayRecord
<1>2. Allowed(mem[c], draft) /\ draft.kind # "import_complete"
  BY <1>1 DEF Allowed, TurnKind, ScopedKind
<1>3. QED
  BY <1>1, <1>2, RulesStart

\* A row that belongs to no turn may be written to any journal.
LEMMA RulesPlain ==
  ASSUME NEW c \in Conv, NEW draft \in Drafts, AppendEvent(c, draft, FALSE),
         Admissible(mem[c], draft), IdFits(draft), draft.id[1] \notin TurnPrefix,
         draft.kind \notin {"created", "import_complete"}
  PROVE  RowRules'
<1>1. StartWrite(c, draft) /\ mem[c] # <<>>
  BY DEF AppendEvent, Live
<1>2. Allowed(mem[c], draft)
  BY <1>1 DEF Allowed
<1>3. QED
  BY <1>1, <1>2, RulesStart

\* A step that leaves the mutex alone, or frees it, starts no row.
LEMMA RulesKept ==
  ASSUME Typed, Sound, RowRules, [Next]_vars, lock' = lock \/ lock' = Free
  PROVE  RowRules'
<1>1. CASE lock' = Free
  BY <1>1 DEF Free, RowRules, Writing
<1>2. CASE lock' = lock /\ Writing /\ lock.draft # Tombstone
  <2>1. CASE UNCHANGED <<lock, mem, phase, imp>>
    BY <2>1 DEF RowRules, Writing
  <2>2. CASE CompleteAppend \/ FailWrite \/ Stop
    BY <1>1, <2>2 DEF CompleteAppend, FailWrite, Stop
  <2>3. QED
    BY <1>2, <2>1, <2>2, HeldMutex
<1>3. CASE lock' = lock /\ ~(Writing /\ lock.draft # Tombstone)
  BY <1>3 DEF RowRules, Writing
<1>4. QED
  BY <1>1, <1>2, <1>3

\* The row of the document that comes next is allowed: the journal is where the document is.
LEMMA DocumentAllowed ==
  ASSUME ExportedDocuments, NEW doc \in Documents, NEW k \in Nat, k + 1 <= Len(doc),
         NEW ev, Holds(ev, doc, k)
  PROVE  /\ Allowed(ev, doc[k + 1]) /\ doc[k + 1].kind # "import_complete"
         /\ doc[k + 1] # Tombstone
<1>1. /\ doc[k + 1] \in Drafts /\ doc[k + 1].kind \in ImportedKind /\ k + 1 \in DOMAIN doc
  BY DocumentRows
<1>2. IdFits(doc[k + 1]) /\ Admissible(SubSeq(doc, 1, (k + 1) - 1), doc[k + 1])
  BY <1>1 DEF ExportedDocuments
<1>3. (k + 1) - 1 = k
  OBVIOUS
<1>4. Admissible(ev, doc[k + 1])
  BY <1>2, <1>3 DEF Admissible, Holds
<1>5. ev # <<>>
  BY DEF Holds, Importing, Imported
<1>6. QED
  BY <1>1, <1>2, <1>4, <1>5, DraftKinds DEF Allowed, ImportedKind, TurnKind, ScopedKind

\* Whoever takes the mutex for a row, the row is allowed.
LEMMA RulesNext ==
  ASSUME ExportedDocuments, Typed, Sound, Whole, [Next]_vars
  PROVE  RowRules'
<1>0. RowRules /\ ImportCursor /\ AllOrdered
  BY DEF Whole
<1>1. CASE FileSystem \/ ImportCheck \/ CommitCheck \/ ExportCheck \/ ExportRead \/ UNCHANGED vars
  BY <1>0, <1>1, RulesKept
     DEF FileSystem, CompleteAppend, FailWrite, ReplaceFile, RemoveImages, FailRemoval,
         ImportCheck, CommitCheck, ExportCheck, ExportRead, store, vars
<1>2. CASE Recovery
  <2>1. ASSUME NEW c \in Conv, InterruptTurn(c), lock' # lock PROVE RowRules'
    <3>1. PICK t \in ActiveTurns(mem[c]) :
            /\ MayRecord(mem[c], EndDraft(t, "interrupted"))
            /\ lock' = [conv |-> c, draft |-> EndDraft(t, "interrupted")]
      BY <2>1 DEF InterruptTurn
    <3> DEFINE draft == EndDraft(t, "interrupted")
    <3>2. t \in Turn /\ draft.turn = t /\ draft.kind = "turn_end" /\ draft \in Drafts /\ IdFits(draft)
      BY BuiltDrafts, BuiltIdsFit DEF ActiveTurns, Outcome, EndDraft, Draft
    <3>3. Live(mem[c]) /\ mem' = mem
      BY <2>1 DEF InterruptTurn
    <3>4. ~Importing(mem[c]) /\ Admissible(mem[c], draft)
      BY <3>1, <3>2, MayRecordAdmits DEF MayRecord
    <3>5. Allowed(mem[c], draft)
      BY <3>2, <3>3, <3>4 DEF Allowed, Live
    <3>6. lock'.conv = c /\ lock'.draft = draft
      BY <3>1
    <3>7. QED
      BY <3>2, <3>3, <3>4, <3>5, <3>6 DEF RowRules
  <2>2. QED
    BY <1>0, <1>2, <2>1, RulesKept DEF Recovery, Open, FinishOpen, FailOpen, Crash, Stop
<1>3. ASSUME NEW c \in Conv, Create(c) PROVE RowRules'
  <2> DEFINE draft == CreatedDraft("local")
  <2>1. draft \in Drafts /\ draft.kind = "created" /\ IdFits(draft) /\ draft.id[1] \notin TurnPrefix
    BY BuiltDrafts, BuiltIdsFit, DraftKinds
  <2>2. StartWrite(c, draft) /\ mem[c] = <<>>
    BY <1>3 DEF Create
  <2>3. Allowed(mem[c], draft)
    BY <2>1, <2>2 DEF Allowed, Admissible, ScopedKind
  <2>4. QED
    BY <2>1, <2>2, <2>3, RulesStart
<1>4. ASSUME NEW c \in Conv, Delete(c) PROVE RowRules'
  BY <1>4 DEF Delete, StartWrite, RowRules
<1>5. ASSUME NEW c \in Conv, NEW k \in Key, Rename(c, k) PROVE RowRules'
  BY <1>5, BuiltDrafts, BuiltIdsFit, DraftKinds, PlainDrafts, RulesPlain DEF Rename
<1>6. ASSUME NEW c \in Conv, NEW i \in 1 .. LegacyItems, ImportLegacy(c, i) PROVE RowRules'
  <2> DEFINE draft == LegacyDraft(i, LegacyItems)
  <2>1. draft \in Drafts /\ IdFits(draft) /\ draft.id[1] \notin TurnPrefix /\ Admissible(mem[c], draft)
    BY BuiltDrafts, BuiltIdsFit, PlainDrafts, BoundsAreNumbers
  <2>2. draft.kind \notin {"created", "import_complete"}
    BY DEF LegacyDraft, Draft
  <2>3. QED
    BY <1>6, <2>1, <2>2, RulesPlain DEF ImportLegacy
<1>7. ASSUME NEW c \in Conv, NEW t \in Turn, NEW role \in Role, NEW reply \in Key \cup {None},
             Begin(c, t, role, reply)
      PROVE  RowRules'
  <2> DEFINE draft == BeginDraft(t, role, reply)
  <2>1. draft \in Drafts /\ IdFits(draft) /\ draft.turn = t /\ draft.kind = "turn_begin"
    BY BuiltDrafts, BuiltIdsFit, TurnDrafts, DraftKinds
  <2>2. AppendEvent(c, draft, TRUE)
    BY <1>7 DEF Begin
  <2> HIDE DEF draft
  <2>3. QED
    BY <2>1, <2>2, RulesRecord DEF TurnKind
<1>8. ASSUME NEW c \in Conv, NEW t \in Turn, NEW k \in Key, NEW shown \in Shown, View(c, t, k, shown)
      PROVE  RowRules'
  <2> DEFINE draft == ViewDraft(t, k, shown)
  <2>1. draft \in Drafts /\ IdFits(draft) /\ draft.turn = t /\ draft.kind = "view"
    BY BuiltDrafts, BuiltIdsFit, TurnDrafts, DraftKinds
  <2>2. AppendEvent(c, draft, TRUE)
    BY <1>8 DEF View
  <2> HIDE DEF draft
  <2>3. QED
    BY <2>1, <2>2, RulesRecord DEF ScopedKind
<1>9. ASSUME NEW c \in Conv, NEW t \in Turn,
             \/ \E k \in Key : AssertActive(c, t, k)
             \/ \E status \in Outcome : FinishCheck(c, t, status)
      PROVE  RowRules'
  BY <1>0, <1>9, RulesKept DEF AssertActive, FinishCheck, store
<1>10. ASSUME NEW req \in asking, SaveImages(req) PROVE RowRules'
  BY <1>0, <1>10, RulesKept DEF SaveImages
<1>11. ASSUME NEW req \in asking, ModelInput(req) PROVE RowRules'
  <2>1. req[1] \in Conv /\ req[2] \in Turn /\ InputDraft(req[2], req[3]) \in Drafts
    BY BuiltDrafts DEF Typed, TypeOK
  <2>2. CASE UNCHANGED store
    BY <1>0, <2>2, RulesKept DEF store
  <2>3. CASE AppendEvent(req[1], InputDraft(req[2], req[3]), TRUE)
    <3> DEFINE draft == InputDraft(req[2], req[3])
    <3>1. IdFits(draft) /\ draft.turn = req[2] /\ draft.kind = "model_input"
      BY BuiltIdsFit, TurnDrafts, DraftKinds
    <3>2. draft \in Drafts /\ AppendEvent(req[1], draft, TRUE)
      BY <2>1, <2>3
    <3> HIDE DEF draft
    <3>3. QED
      BY <2>1, <3>1, <3>2, RulesRecord DEF ScopedKind
  <2>4. QED
    BY <1>11, <2>2, <2>3 DEF ModelInput
<1>12. ASSUME NEW req \in running, ModelResult(req) PROVE RowRules'
  <2>1. req[1] \in Conv /\ ResultDraft(req[2], req[3]) \in Drafts
    BY BuiltDrafts DEF Typed, TypeOK
  <2>2. CASE UNCHANGED store
    BY <1>0, <2>2, RulesKept DEF store
  <2>3. CASE AppendEvent(req[1], ResultDraft(req[2], req[3]), FALSE)
    BY <2>1, <2>3, BuiltIdsFit, PlainDrafts, DraftKinds, RulesPlain
  <2>4. QED
    BY <1>12, <2>2, <2>3 DEF ModelResult
<1>13. ASSUME NEW call \in calls, FinishAppend(call) PROVE RowRules'
  <2> DEFINE draft == EndDraft(call.turn, call.status)
  <2>1. call.conv \in Conv /\ call.turn \in Turn /\ draft \in Drafts /\ IdFits(draft)
    BY BuiltDrafts, BuiltIdsFit DEF Typed, TypeOK
  <2>2. CASE UNCHANGED store
    BY <1>0, <2>2, RulesKept DEF store
  <2>3. CASE AppendEvent(call.conv, draft, TRUE)
    <3>1. draft.turn = call.turn /\ draft.kind = "turn_end"
      BY TurnDrafts, DraftKinds
    <3> HIDE DEF draft
    <3>2. QED
      BY <2>1, <2>3, <3>1, RulesRecord DEF TurnKind
  <2>4. QED
    BY <1>13, <2>2, <2>3 DEF FinishAppend
<1>14. ASSUME NEW c \in Conv, NEW doc \in Documents, BeginImport(c, doc) PROVE RowRules'
  <2> DEFINE draft == CreatedDraft("importing")
  <2>1. draft \in Drafts /\ draft.kind = "created" /\ IdFits(draft) /\ draft.id[1] \notin TurnPrefix
    BY BuiltDrafts, BuiltIdsFit, DraftKinds
  <2>2. StartWrite(c, draft) /\ mem[c] = <<>>
    BY <1>14 DEF BeginImport
  <2>3. Allowed(mem[c], draft)
    BY <2>1, <2>2 DEF Allowed, Admissible, ScopedKind
  <2>4. QED
    BY <2>1, <2>2, <2>3, RulesStart
<1>15. ASSUME ImportAppend PROVE RowRules'
  <2> DEFINE row == imp.doc[imp.pos]
  <2>1. PICK k \in Nat : k = imp.pos - 1 /\ imp.pos = k + 1 /\ k + 1 <= Len(imp.doc)
    BY <1>15 DEF ImportAppend, Typed, TypeOK, Cursors
  <2>2. imp.doc \in Documents /\ imp.conv \in Conv /\ phase = "up" /\ At(k)
    BY <1>0, <1>15, <2>1 DEF ImportAppend, ImportCursor, Typed, Cursors
  <2>3. CASE UNCHANGED store
    BY <1>0, <2>3, RulesKept DEF store
  <2>4. CASE AppendEvent(imp.conv, row, FALSE) /\ imp' = [imp EXCEPT !.phase = "writing"]
    <3>1. Holds(mem[imp.conv], imp.doc, k)
      BY <2>2, <2>4, RowsOf DEF At, AppendEvent, Live
    <3>2. Allowed(mem[imp.conv], row) /\ row.kind # "import_complete" /\ row \in Drafts
      BY <2>1, <2>2, <3>1, DocumentAllowed, DocumentRows
    <3>3. imp'.phase = "writing"
      BY <2>4 DEF Typed, TypeOK
    <3>4. QED
      BY <2>2, <2>4, <3>2, <3>3, RulesStart DEF AppendEvent
  <2>5. QED
    BY <1>15, <2>3, <2>4 DEF ImportAppend
<1>16. ASSUME CommitImport PROVE RowRules'
  <2>1. /\ imp.conv \in Conv /\ imp.doc \in Documents /\ At(Len(imp.doc)) /\ phase = "up"
        /\ ActiveTurns(SubSeq(imp.doc, 1, Len(imp.doc))) = {} /\ imp'.phase = "idle"
    BY <1>0, <1>16 DEF CommitImport, ImportCursor, Typed, Cursors, NoImport
  <2>2. CASE UNCHANGED store
    BY <1>0, <2>2, RulesKept DEF store
  <2>3. CASE AppendEvent(imp.conv, CommitDraft, FALSE)
    <3> DEFINE ev == mem[imp.conv]
    <3>1. Holds(ev, imp.doc, Len(imp.doc)) /\ StartWrite(imp.conv, CommitDraft) /\ ev # <<>>
      BY <2>1, <2>3, RowsOf DEF At, AppendEvent, Live
    <3>2. Complete(ev) /\ Importing(ev)
      <4>1. DOMAIN imp.doc = 1 .. Len(imp.doc)
        BY <2>1, DocumentsAreJournals
      <4>2. OneTurnAtATime(ev) /\ InsideItsTurn(ev)
        BY <1>0, <2>1 DEF AllOrdered, Ordered
      <4>3. QED
        BY <2>1, <3>1, <4>1, <4>2 DEF Complete, Holds
    <3>3. /\ CommitDraft \in Drafts /\ CommitDraft.kind = "import_complete" /\ IdFits(CommitDraft)
          /\ CommitDraft.id[1] \notin TurnPrefix /\ Admissible(ev, CommitDraft)
      BY BuiltDrafts, BuiltIdsFit, DraftKinds, PlainDrafts
    <3>4. Allowed(ev, CommitDraft)
      BY <3>1, <3>2, <3>3 DEF Allowed
    <3>5. QED
      BY <2>1, <3>1, <3>3, <3>4, RulesStart
  <2>4. QED
    BY <1>16, <2>2, <2>3 DEF CommitImport
<1>17. ASSUME NEW c \in Conv, ExportStart(c) PROVE RowRules'
  BY <1>0, <1>17, RulesKept DEF ExportStart, store
<1>18. QED
  BY <1>1, <1>2, <1>3, <1>4, <1>5, <1>6, <1>7, <1>8, <1>9, <1>10, <1>11, <1>12, <1>13, <1>14,
     <1>15, <1>16, <1>17 DEF Next, Requests

\* A step that is none of the import's own.
LEMMA CursorKept ==
  ASSUME Typed, Sound, RowRules, ImportCursor, [Next]_vars, UNCHANGED imp
  PROVE  ImportCursor'
<1>1. CASE imp.phase = "idle"
  BY <1>1 DEF ImportCursor
<1>2. ASSUME Stop PROVE imp.phase \in {"idle", "between"}
  BY <1>2 DEF Stop, NoImport, Typed, TypeOK, ImportPhase
<1>3. ASSUME imp.phase \in {"page", "commit", "writing"} PROVE phase' = "up"
  <2>1. phase = "up" /\ ~Stop
    BY <1>2, <1>3 DEF ImportCursor
  <2>2. QED
    BY <2>1, StepsOfJournals
       DEF FinishOpen, CompleteAppend, ReplaceFile, RemoveImages, Crash, FailOpen, Open
<1>4. CASE imp.phase \in {"between", "page", "commit"}
  <2>1. imp.doc \in Documents /\ imp.pos - 1 \in Nat
    BY <1>4 DEF ImportCursor, Typed, TypeOK, Cursors
  <2>2. PICK k \in Nat : k = imp.pos - 1
    BY <2>1
  <2>3. At(k) /\ At(k)'
    BY <1>4, <2>2, AtKept DEF ImportCursor
  <2>4. (imp.pos - 1)' = k
    BY <2>2
  <2>5. At(imp.pos - 1)'
    BY <2>3, <2>4 DEF At
  <2>6. QED
    BY <1>3, <1>4, <2>5 DEF ImportCursor
<1>5. CASE imp.phase = "writing"
  <2>1. Writing /\ lock.draft # Tombstone
    <3>1. imp.pos # 0 => imp.pos \in Nat /\ imp.pos <= Len(imp.doc) /\ imp.doc \in Documents
      BY <1>5 DEF ImportCursor
    <3>2. imp.pos # 0 => imp.doc[imp.pos].kind \in ImportedKind
      BY <3>1, DocumentsAreJournals
    <3>3. lock.draft.kind # "deleted"
      BY <1>5, <3>2, DraftKinds DEF ImportCursor, ImportedKind, TurnKind, ScopedKind
    <3>4. QED
      BY <1>5, <3>3, DraftKinds DEF ImportCursor
  <2>2. UNCHANGED <<lock, mem, phase>>
    <3>1. ~FailWrite /\ ~Stop
      BY <1>2, <1>5 DEF FailWrite, NoImport
    <3>2. ~CompleteAppend
      BY <1>5, ImportAdvanced DEF CompleteAppend, Typed, TypeOK, ImportState
    <3>3. QED
      BY <2>1, <3>1, <3>2, HeldMutex
  <2>3. QED
    BY <1>5, <2>2 DEF ImportCursor, Writing
<1>6. QED
  BY <1>1, <1>4, <1>5 DEF Typed, TypeOK, ImportPhase

\* The import at rest.
LEMMA CursorIdle == ASSUME imp'.phase = "idle" PROVE ImportCursor'
BY DEF ImportCursor

\* The steps that touch the import.
LEMMA StepsOfImport ==
  [Next]_vars => \/ UNCHANGED imp \/ imp' = NoImport
                 \/ CompleteAppend /\ imp.phase = "writing"
                 \/ \E c \in Conv, doc \in Documents : BeginImport(c, doc)
                 \/ ImportCheck \/ ImportAppend \/ CommitCheck
<1>. SUFFICES ASSUME [Next]_vars, ~(CompleteAppend /\ imp.phase = "writing"),
                     ~(\E c \in Conv, doc \in Documents : BeginImport(c, doc)),
                     ~ImportCheck, ~ImportAppend, ~CommitCheck
              PROVE  UNCHANGED imp \/ imp' = NoImport
  OBVIOUS
<1>1. CASE FileSystem
  BY <1>1 DEF FileSystem, CompleteAppend, FailWrite, ReplaceFile, RemoveImages, FailRemoval
<1>2. CASE Recovery
  BY <1>2 DEF Recovery, InterruptTurn, Open, FinishOpen, FailOpen, Crash, Stop, clients
<1>3. CASE Requests
  BY <1>3 DEF Requests, Create, Delete, Rename, ImportLegacy, Begin, View,
              FinishCheck, AssertActive, ExportStart, clients
<1>4. CASE (\E call \in calls : FinishAppend(call)) \/ (\E req \in running : ModelResult(req))
           \/ (\E req \in asking : SaveImages(req) \/ ModelInput(req))
  BY <1>4 DEF FinishAppend, ModelResult, SaveImages, ModelInput, clients
<1>5. CASE CommitImport \/ ExportCheck \/ ExportRead
  BY <1>5 DEF CommitImport, ExportCheck, ExportRead
<1>6. CASE UNCHANGED vars
  BY <1>6 DEF vars
<1>7. QED
  BY <1>1, <1>2, <1>3, <1>4, <1>5, <1>6 DEF Next

\* The row of the import is in: the cursor moves past it.
LEMMA CursorAppended ==
  ASSUME Typed, Sound, ImportCursor, CompleteAppend, imp.phase = "writing"
  PROVE  ImportCursor'
<1>1. /\ imp' = [imp EXCEPT !.phase = "between", !.pos = @ + 1]
      /\ phase' = phase /\ phase = "up" /\ Writing
  BY DEF CompleteAppend, ImportCursor
<1>2. PICK c \in Conv, doc \in Documents, k \in Nat : c = imp.conv /\ doc = imp.doc /\ k = imp.pos
  BY DEF ImportCursor, Typed, Cursors
<1>3. imp'.phase = "between" /\ imp'.conv = c /\ imp'.doc = doc /\ imp'.pos = k + 1
  <2> DEFINE between == [imp EXCEPT !.phase = "between"]
  <2>1. between \in ImportState /\ between.phase = "between" /\ between.conv = c
        /\ between.doc = doc /\ between.pos = k
    BY <1>2 DEF Typed, TypeOK, ImportState, ImportPhase
  <2>2. imp' = [between EXCEPT !.pos = k + 1]
    BY <1>1, <1>2
  <2> HIDE DEF between
  <2>3. QED
    BY <2>1, <2>2 DEF ImportState
<1>4. c = lock.conv /\ mem'[c] = Extended(mem[c], lock.draft) /\ mem[c] \in Seq(Event)
  BY <1>1, <1>2, RowExtends DEF CompleteAppend, ImportCursor, Typed, TypeOK
<1>5. Holds(mem'[c], doc, k) /\ k <= Len(doc)
  <2>1. CASE k = 0
    <3>1. lock.draft = CreatedDraft("importing") /\ mem[c] = <<>>
      BY <1>2, <2>1 DEF ImportCursor
    <3>2. doc \in Seq(Drafts)
      BY DocumentsAreJournals
    <3>3. QED
      BY <1>4, <2>1, <3>1, <3>2, HoldsNothing
  <2>2. CASE k # 0
    <3>1. PICK j \in Nat : j = k - 1 /\ k = j + 1
      BY <2>2
    <3>2. k <= Len(doc) /\ lock.draft = doc[k] /\ Holds(mem[c], doc, j)
      BY <1>2, <2>2, <3>1 DEF ImportCursor
    <3>3. QED
      BY <1>4, <3>1, <3>2, HoldsNext
  <2>3. QED
    BY <2>1, <2>2
<1>6. Rows(c)' = mem'[c]
  BY <1>1, RowsOf
<1>7. imp'.pos - 1 = k /\ imp'.pos \in Nat
  BY <1>3
<1>8. At(imp.pos - 1)'
  BY <1>3, <1>5, <1>6, <1>7 DEF At
<1>9. QED
  BY <1>3, <1>5, <1>7, <1>8 DEF ImportCursor

\* The checks of import_events and commit_import only note where the import is.
LEMMA CursorChecked ==
  ASSUME Typed, Sound, ImportCursor, ImportCheck \/ CommitCheck
  PROVE  ImportCursor'
<1>1. CASE imp' = NoImport
  BY <1>1, CursorIdle DEF NoImport
<1>2. UNCHANGED <<phase, mem, disk, lock>> /\ phase = "up" /\ imp.phase = "between"
  BY DEF ImportCheck, CommitCheck, store
<1>3. At(imp.pos - 1) /\ imp.pos - 1 <= Len(imp.doc) /\ imp.doc \in Documents /\ imp.pos \in Nat /\ imp.pos >= 1
  BY <1>2 DEF ImportCursor, Typed, Cursors
<1>4. CASE ImportCheck /\ imp' # NoImport
  <2>1. imp' = [imp EXCEPT !.phase = "page"]
    BY <1>4 DEF ImportCheck
  <2>2. imp'.phase = "page" /\ imp'.conv = imp.conv /\ imp'.doc = imp.doc /\ imp'.pos = imp.pos
    BY <2>1 DEF Typed, TypeOK
  <2>3. At(imp.pos - 1)'
    BY <1>2, <1>3, <2>2 DEF At, Rows
  <2>4. QED
    BY <1>2, <1>3, <2>2, <2>3 DEF ImportCursor
<1>5. CASE CommitCheck /\ imp' # NoImport
  <2>1. /\ imp' = [imp EXCEPT !.phase = "commit"] /\ imp.pos > Len(imp.doc)
        /\ Live(mem[imp.conv]) /\ ActiveTurns(mem[imp.conv]) = {}
    BY <1>5 DEF CommitCheck
  <2>2. imp'.phase = "commit" /\ imp'.conv = imp.conv /\ imp'.doc = imp.doc /\ imp'.pos = imp.pos
    BY <2>1 DEF Typed, TypeOK
  <2>3. At(imp.pos - 1)'
    BY <1>2, <1>3, <2>2 DEF At, Rows
  <2>4. imp.pos - 1 = Len(imp.doc)
    <3>1. Len(imp.doc) \in Nat
      BY <1>3, DocumentsAreJournals
    <3>2. QED
      BY <1>3, <2>1, <3>1
  <2>5. ActiveTurns(SubSeq(imp.doc, 1, Len(imp.doc))) = {}
    BY <1>2, <1>3, <2>1, <2>4, RowsOf DEF At, Live, Holds
  <2>6. QED
    BY <1>2, <1>3, <2>2, <2>3, <2>4, <2>5 DEF ImportCursor
<1>6. QED
  BY <1>1, <1>4, <1>5

\* import_events takes the mutex for the next row, or passes over one that is there.
LEMMA CursorAppends ==
  ASSUME ExportedDocuments, Typed, Sound, ImportCursor, ImportAppend
  PROVE  ImportCursor'
<1>1. CASE imp' = NoImport
  BY <1>1, CursorIdle DEF NoImport
<1>2. phase = "up" /\ imp.phase = "page" /\ UNCHANGED <<phase, mem, disk>>
  BY DEF ImportAppend, AppendEvent, StartWrite, store
<1>3. PICK c \in Conv, doc \in Documents, k \in Nat :
        c = imp.conv /\ doc = imp.doc /\ k = imp.pos - 1 /\ imp.pos = k + 1 /\ k + 1 <= Len(doc)
  BY <1>2 DEF ImportCursor, Typed, TypeOK, Cursors
<1>4. Deleted(mem[c]) \/ Holds(mem[c], doc, k)
  BY <1>2, <1>3, RowsOf DEF ImportCursor, At
<1>5. Rows(c)' = mem[c] /\ mem[c] \in Seq(Event)
  BY <1>2, RowsOf DEF Typed, TypeOK
<1>6. CASE AppendEvent(c, doc[k + 1], FALSE) /\ imp' = [imp EXCEPT !.phase = "writing"]
  <2>1. imp'.phase = "writing" /\ imp'.conv = c /\ imp'.doc = doc /\ imp'.pos = k + 1
    BY <1>3, <1>6 DEF Typed, TypeOK
  <2>2. lock' = [conv |-> c, draft |-> doc[k + 1]] /\ Holds(mem[c], doc, k)
    BY <1>4, <1>6 DEF AppendEvent, StartWrite, Live
  <2>3. lock'.conv = c /\ lock'.draft = doc[k + 1] /\ c # None
    BY <2>2, NoneIsNoConv
  <2>4. imp'.pos - 1 = k /\ imp'.pos # 0 /\ imp'.pos \in Nat
    BY <2>1
  <2>5. Writing'
    BY <2>3 DEF Writing
  <2>6. Holds(mem'[c], doc, k)
    BY <1>2, <2>2
  <2>7. QED
    BY <1>2, <1>3, <2>1, <2>3, <2>4, <2>5, <2>6 DEF ImportCursor
<1>7. CASE imp' = [imp EXCEPT !.phase = "between", !.pos = @ + 1] /\ HasId(mem[c], doc[k + 1].id) /\ Live(mem[c])
  <2>1. imp'.phase = "between" /\ imp'.conv = c /\ imp'.doc = doc /\ imp'.pos = k + 2
    <3> DEFINE between == [imp EXCEPT !.phase = "between"]
    <3>1. between \in ImportState /\ between.phase = "between" /\ between.conv = c
          /\ between.doc = doc /\ between.pos = k + 1
      BY <1>3 DEF Typed, TypeOK, ImportState, ImportPhase
    <3>2. imp' = [between EXCEPT !.pos = (k + 1) + 1]
      BY <1>3, <1>7
    <3> HIDE DEF between
    <3>3. QED
      BY <3>1, <3>2 DEF ImportState
  <2>2. Holds(mem[c], doc, k + 1)
    BY <1>3, <1>4, <1>5, <1>7, HoldsSkip DEF Live
  <2>3. imp'.pos - 1 = k + 1 /\ imp'.pos \in Nat
    BY <2>1
  <2>4. At(imp.pos - 1)'
    BY <1>5, <2>1, <2>2, <2>3 DEF At
  <2>5. QED
    BY <1>3, <2>1, <2>3, <2>4 DEF ImportCursor
<1>8. QED
  BY <1>1, <1>3, <1>6, <1>7 DEF ImportAppend

\* Every step keeps the cursor of the import where its journal is.
LEMMA CursorNext ==
  ASSUME ExportedDocuments, Typed, Sound, Whole, [Next]_vars
  PROVE  ImportCursor'
<1>1. RowRules /\ ImportCursor
  BY DEF Whole
<1>2. ASSUME NEW c \in Conv, NEW doc \in Documents, BeginImport(c, doc) PROVE ImportCursor'
  <2>1. /\ imp' = [phase |-> "writing", conv |-> c, doc |-> doc, pos |-> 0]
        /\ lock' = [conv |-> c, draft |-> CreatedDraft("importing")]
        /\ mem' = mem /\ mem[c] = <<>> /\ phase' = phase /\ phase = "up"
    BY <1>2 DEF BeginImport, StartWrite, Serving
  <2>2. lock'.conv = c /\ lock'.draft = CreatedDraft("importing") /\ c # None
    BY <2>1, NoneIsNoConv
  <2>3. QED
    BY <2>1, <2>2 DEF ImportCursor, Writing
<1>3. CASE imp' = NoImport
  BY <1>3, CursorIdle DEF NoImport
<1>4. QED
  BY <1>1, <1>2, <1>3, StepsOfImport, CursorKept, CursorAppended, CursorChecked, CursorAppends

\* The store starts empty.
LEMMA WholeInit == Init => Whole
<1>. SUFFICES ASSUME Init PROVE Whole
  OBVIOUS
<1>1. lock = Free /\ ~Writing /\ imp.phase = "idle"
  BY FreeIsNotWriting DEF Init, NoImport
<1>2. AllOrdered
  BY OrderedStarts DEF Init, AllOrdered
<1>3. QED
  BY <1>1, <1>2 DEF Whole, RowRules, ImportCursor

\* The invariant of imports, for a store that is Sound.
LEMMA ImportsAreWhole ==
  ASSUME RemovalFails = FALSE, ExportedDocuments
  PROVE  Spec => [](Typed /\ Sound /\ Whole)
<1>1. Init => Typed /\ Sound /\ Whole
  BY TypedInit, SoundInit, WholeInit
<1>2. Typed /\ Sound /\ Whole /\ [Next]_vars => (Typed /\ Sound /\ Whole)'
  <2>. SUFFICES ASSUME Typed, Sound, Whole, [Next]_vars PROVE Typed' /\ Sound' /\ Whole'
    OBVIOUS
  <2>2. Typed' /\ Sound'
    BY TypedNext, SoundNext
  <2>3. RowRules' /\ ImportCursor' /\ AllOrdered'
    BY RulesNext, CursorNext, OrderedNext DEF Whole
  <2>4. QED
    BY <2>2, <2>3 DEF Whole
<1>3. QED
  BY <1>1, <1>2, PTL DEF Spec

\* An import is published with every row of its document, turns apart and none open, although
\* its rows come one request at a time and the process may stop in between (import_events,
\* commit_import).
THEOREM ImportsPublished ==
  ASSUME RemovalFails = FALSE, ExportedDocuments
  PROVE  Spec => []ImportsPublishWhole
<1>1. Whole => ImportsPublishWhole
  BY DEF Whole, AllOrdered, Ordered, Complete, ImportsPublishWhole
<1>2. QED
  BY <1>1, ImportsAreWhole, PTL

----------------------------------------------------------------------------
(* Restarts.                                                               *)

\* While open repairs, every turn it found open is to be ended or is being ended, and
\* nothing else is written.
Repairing ==
  phase = "recovering" =>
    /\ Writing => lock.draft.kind = "turn_end"
    /\ \A c \in Conv : Published(mem[c]) /\ ActiveTurns(mem[c]) # {} =>
                         c \in due \/ (Writing /\ lock.conv = c)

\* The steps of a process that recovers.
LEMMA RecoverySteps ==
  ASSUME phase = "recovering", Repairing, [Next]_vars
  PROVE  (\E c \in Conv : InterruptTurn(c)) \/ FinishOpen \/ Stop \/ CompleteAppend \/ UNCHANGED store
<1>1. ~Deleting
  BY DraftKinds DEF Repairing, Deleting
<1>2. CASE Recovery
  BY <1>2 DEF Recovery, Open, FailOpen, Crash
<1>3. CASE FileSystem
  BY <1>1, <1>3 DEF FileSystem, FailWrite, ReplaceFile, RemoveImages, FailRemoval
<1>4. CASE Requests
  <2>1. ASSUME NEW c \in Conv, ExportStart(c) PROVE UNCHANGED store
    BY <2>1 DEF ExportStart
  <2>2. QED
    BY <1>4, <2>1 DEF Requests, Create, Delete, BeginImport, Rename, ImportLegacy, Begin, View,
              FinishCheck, AssertActive, Serving
<1>5. CASE (\E call \in calls : FinishAppend(call)) \/ (\E req \in running : ModelResult(req))
           \/ (\E req \in asking : SaveImages(req) \/ ModelInput(req))
  BY <1>5 DEF FinishAppend, ModelResult, SaveImages, ModelInput
<1>6. CASE ImportCheck \/ ImportAppend \/ CommitCheck \/ CommitImport \/ ExportCheck \/ ExportRead
  BY <1>6 DEF ImportCheck, ImportAppend, CommitCheck, CommitImport, ExportCheck, ExportRead
<1>7. CASE UNCHANGED vars
  BY <1>7 DEF vars, store
<1>8. QED
  BY <1>2, <1>3, <1>4, <1>5, <1>6, <1>7 DEF Next

\* An end row closes the turn.
LEMMA EndCloses ==
  ASSUME NEW ev \in Seq(Event), NEW draft \in Drafts, draft.kind = "turn_end"
  PROVE  ActiveTurns(Extended(ev, draft)) = {}
<1>1. Numbered(draft, Len(ev) + 1) \in Event /\ Numbered(draft, Len(ev) + 1).kind = "turn_end"
  BY NumberedFields
<1>2. QED
  BY <1>1, ActiveAppend DEF Extended, ActiveAfter

\* Recovery forgets no turn.
LEMMA RepairNext ==
  ASSUME Typed, Sound, Whole, Repairing, [Next]_vars
  PROVE  Repairing'
<1>0. mem \in [Conv -> Seq(Event)] /\ disk \in [Conv -> Seq(Event)]
  BY DEF Typed, TypeOK
<1>1. SUFFICES ASSUME phase' = "recovering" PROVE Repairing'
  BY DEF Repairing
<1>2. CASE Open
  <2>1. lock' = Free /\ ~Writing'
    BY <1>2 DEF Open, Sound, Free, Writing
  <2>2. mem' = disk /\ due' = {c \in Conv : Published(disk[c]) /\ ActiveTurns(disk[c]) # {}}
    BY <1>2 DEF Open
  <2>3. QED
    BY <2>1, <2>2 DEF Repairing
<1>3. CASE phase = "recovering"
  <2>1. ASSUME NEW c \in Conv, InterruptTurn(c) PROVE Repairing'
    <3>1. /\ lock = Free /\ ~Writing /\ mem' = mem /\ due' = due \ {c} /\ c \in due
          /\ mem[c] = disk[c] /\ mem[c] \in Seq(Event)
      BY <1>0, <1>3, <2>1, FreeIsNotWriting DEF InterruptTurn, Sound, Synced
    <3>2. UniqueIds(mem[c]) /\ Ordered(mem[c])
      BY <3>1 DEF Sound, WellFormed, Whole, AllOrdered
    <3>3. PICK t \in ActiveTurns(mem[c]) :
            \/ HasId(mem[c], <<"end", t>>)
            \/ lock' = [conv |-> c, draft |-> EndDraft(t, "interrupted")]
      BY <2>1 DEF InterruptTurn
    <3>4. lock' = [conv |-> c, draft |-> EndDraft(t, "interrupted")]
      BY <3>1, <3>2, <3>3, OpenTurnHasNoEnd
    <3>5. lock'.conv = c /\ lock'.draft.kind = "turn_end" /\ Writing'
      BY <3>4, DraftKinds, NoneIsNoConv DEF Writing
    <3>6. QED
      BY <1>3, <3>1, <3>5 DEF Repairing
  <2>2. CASE CompleteAppend
    <3>1. /\ Writing /\ lock' = Free /\ due' = due /\ lock.draft.kind = "turn_end"
          /\ mem' = [mem EXCEPT ![lock.conv] = Extended(mem[lock.conv], lock.draft)]
      BY <1>3, <2>2, RowExtends DEF CompleteAppend, Repairing
    <3>2. ActiveTurns(Extended(mem[lock.conv], lock.draft)) = {}
      BY <3>1, RowExtends, EndCloses
    <3>3. ASSUME NEW c \in Conv, Published(mem'[c]), ActiveTurns(mem'[c]) # {} PROVE c \in due'
      <4>1. c # lock.conv /\ mem'[c] = mem[c]
        BY <1>0, <3>1, <3>2, <3>3
      <4>2. QED
        BY <1>3, <3>1, <3>3, <4>1 DEF Repairing
    <3>4. ~Writing'
      BY <3>1 DEF Free, Writing
    <3>5. QED
      BY <3>3, <3>4 DEF Repairing
  <2>3. CASE UNCHANGED store
    BY <1>3, <2>3 DEF store, Repairing, Writing
  <2>4. QED
    BY <1>1, <1>3, <2>1, <2>2, <2>3, RecoverySteps DEF FinishOpen, Stop
<1>4. QED
  BY <1>1, <1>2, <1>3, StepsOfJournals
     DEF FinishOpen, CompleteAppend, ReplaceFile, RemoveImages, Crash, FailOpen, Stop

\* The whole invariant of a store that is restarted.
LEMMA RestartsAreRepaired ==
  ASSUME RemovalFails = FALSE, ExportedDocuments
  PROVE  Spec => [](Typed /\ Sound /\ Whole /\ Repairing)
<1>1. Init => Repairing
  BY DEF Init, Repairing
<1>2. (Typed /\ Sound /\ Whole) /\ Repairing /\ [Next]_vars => Repairing'
  BY RepairNext
<1>3. QED
  BY <1>1, <1>2, ImportsAreWhole, PTL DEF Spec

\* open returns with every turn ended that the last run left open in a conversation the user
\* can see (open, finish), whatever was torn, retried or half done.
THEOREM RestartsEndTurns ==
  ASSUME RemovalFails = FALSE, ExportedDocuments
  PROVE  Spec => NoTurnSurvivesRestart
<1>1. ASSUME Typed, Sound, Whole, Repairing, [Next]_vars, phase # "up", phase' = "up"
      PROVE  \A c \in Conv : Published(mem'[c]) => ActiveTurns(mem'[c]) = {}
  <2>1. phase = "recovering" /\ FinishOpen
    BY <1>1, StepsOfJournals, StoppedSteps, FreeIsNotWriting
       DEF Typed, TypeOK, Sound, Open, store, CompleteAppend, ReplaceFile, RemoveImages, Crash, FailOpen, Stop
  <2>2. lock = Free /\ ~Writing /\ due = {} /\ mem' = mem
    BY <2>1, FreeIsNotWriting DEF FinishOpen
  <2>3. QED
    BY <1>1, <2>1, <2>2 DEF Repairing
<1>2. (Typed /\ Sound /\ Whole /\ Repairing) /\ [Next]_vars
        => [phase # "up" /\ phase' = "up" =>
              \A c \in Conv : Published(mem'[c]) => ActiveTurns(mem'[c]) = {}]_vars
  BY <1>1
<1>3. QED
  BY <1>2, RestartsAreRepaired, PTL DEF Spec, NoTurnSurvivesRestart

----------------------------------------------------------------------------
(* The store implements the turn lifecycle.                                *)

\* The value of an open turn and of the outcomes that a file shows its callers.
ActiveIn(ev)  == ActiveOf(Visible(ev))
OutcomeIn(ev) == [t \in Turn |-> TurnOutcome(Visible(ev), t)]

\* What a published journal says of its open turn.
LEMMA ActiveOfTurns ==
  ASSUME NEW ev \in Seq(Event)
  PROVE  /\ ActiveTurns(ev) = {} <=> ActiveOf(ev) = None
         /\ \A t \in ActiveTurns(ev) : ActiveOf(ev) = t
<1>1. ASSUME NEW t \in ActiveTurns(ev) PROVE ActiveOf(ev) = t /\ t # None
  <2>1. (CHOOSE u \in ActiveTurns(ev) : TRUE) \in ActiveTurns(ev)
    OBVIOUS
  <2>2. QED
    BY <2>1, OneActiveTurn, NoneIsNeither DEF ActiveOf, ActiveTurns
<1>2. QED
  BY <1>1 DEF ActiveOf

\* The outcome of a turn is the one of its end row, of which there is one.
LEMMA OutcomeOfEnd ==
  ASSUME NEW ev \in Seq(Event), UniqueIds(ev), NEW i \in DOMAIN ev, NEW t,
         ev[i].id = <<"end", t>>, HasId(ev, <<"begin", t>>)
  PROVE  TurnOutcome(ev, t) = ev[i].data[1]
<1>1. HasId(ev, <<"end", t>>)
  BY DEF HasId
<1>2. PICK j \in DOMAIN ev : j = CHOOSE k \in DOMAIN ev : ev[k].id = <<"end", t>>
  OBVIOUS
<1>3. ev[j].id = <<"end", t>>
  BY <1>2
<1>4. j = i
  BY <1>3 DEF UniqueIds
<1>5. QED
  BY <1>1, <1>2, <1>4 DEF TurnOutcome

\* A row that is neither the begin nor the end of t leaves its outcome alone.
LEMMA OutcomeKept ==
  ASSUME NEW ev \in Seq(Event), NEW draft \in Drafts, UniqueIds(ev), ~HasId(ev, draft.id), NEW t,
         draft.id # <<"begin", t>>, draft.id # <<"end", t>>
  PROVE  TurnOutcome(Extended(ev, draft), t) = TurnOutcome(ev, t)
<1> DEFINE new == Extended(ev, draft)
<1>1. /\ HasId(new, <<"begin", t>>) <=> HasId(ev, <<"begin", t>>)
      /\ HasId(new, <<"end", t>>) <=> HasId(ev, <<"end", t>>)
  BY ExtendedIds
<1>2. CASE HasId(ev, <<"begin", t>>) /\ HasId(ev, <<"end", t>>)
  <2>1. PICK i \in DOMAIN ev : ev[i].id = <<"end", t>>
    BY <1>2 DEF HasId
  <2>2. new \in Seq(Event) /\ i \in DOMAIN new /\ new[i] = ev[i] /\ UniqueIds(new)
    <3>1. i \in 1 .. Len(ev) /\ i \in 1 .. Len(ev) + 1
      BY ExtendedRows
    <3>2. QED
      BY <3>1, ExtendedRows, ExtendedUniqueIds
  <2>3. TurnOutcome(ev, t) = ev[i].data[1]
    BY <1>2, <2>1, OutcomeOfEnd
  <2>4. TurnOutcome(new, t) = ev[i].data[1]
    BY <1>1, <1>2, <2>1, <2>2, OutcomeOfEnd
  <2>5. QED
    BY <2>3, <2>4
<1>3. CASE ~(HasId(ev, <<"begin", t>>) /\ HasId(ev, <<"end", t>>))
  BY <1>1, <1>3 DEF TurnOutcome
<1>4. QED
  BY <1>2, <1>3

\* No journal, no turn.
LEMMA NothingVisible ==
  /\ ActiveOf(<<>>) = None /\ [t \in Turn |-> TurnOutcome(<<>>, t)] = [t \in Turn |-> "none"]
<1>1. ActiveOf(<<>>) = None
  BY EmptyHasNoTurn DEF ActiveOf
<1>2. \A t \in Turn : TurnOutcome(<<>>, t) = "none"
  BY DEF TurnOutcome, HasId
<1>3. QED
  BY <1>1, <1>2

\* How one file may change what its callers see of its turns.
Stays(old, new)    == ActiveIn(new) = ActiveIn(old) /\ OutcomeIn(new) = OutcomeIn(old)
Begins(old, new)   == \E t \in Turn :
                        /\ ActiveIn(old) = None /\ OutcomeIn(old)[t] = "none" /\ ActiveIn(new) = t
                        /\ OutcomeIn(new) = [OutcomeIn(old) EXCEPT ![t] = "open"]
Ends(old, new)     == \E t \in Turn, status \in Outcome :
                        /\ ActiveIn(old) = t /\ ActiveIn(new) = None
                        /\ OutcomeIn(new) = [OutcomeIn(old) EXCEPT ![t] = status]
Publishes(old, new) == /\ OutcomeIn(old) = [t \in Turn |-> "none"] /\ ActiveIn(new) = ActiveIn(old)
                       /\ OutcomeIn(new) \in [Turn -> Outcome \cup {"none"}]

\* A visible journal gets a row that begins a turn ...
LEMMA BeginRow ==
  ASSUME NEW ev \in Seq(Event), NEW draft \in Drafts, UniqueIds(ev), Ordered(ev),
         ~HasId(ev, draft.id), Allowed(ev, draft), Visible(ev) = ev,
         Visible(Extended(ev, draft)) = Extended(ev, draft), draft.kind = "turn_begin"
  PROVE  Begins(ev, Extended(ev, draft))
<1> DEFINE new == Extended(ev, draft)
           t == draft.turn
<1>1. t \in Turn /\ ActiveTurns(ev) = {} /\ draft.id = <<"begin", t>>
  BY DEF Allowed, Admissible, IdFits
<1>2. ActiveTurns(new) = {t} /\ new \in Seq(Event)
  <2>1. /\ Numbered(draft, Len(ev) + 1) \in Event /\ Numbered(draft, Len(ev) + 1).kind = "turn_begin"
        /\ Numbered(draft, Len(ev) + 1).turn = t
    BY NumberedFields
  <2>2. QED
    BY <1>1, <2>1, ActiveAppend, ExtendedRows DEF Extended, ActiveAfter
<1>3. ActiveIn(ev) = None /\ ActiveIn(new) = t
  BY <1>1, <1>2, ActiveOfTurns DEF ActiveIn
<1>4. TurnOutcome(ev, t) = "none"
  BY <1>1 DEF TurnOutcome
<1>5. TurnOutcome(new, t) = "open"
  <2>1. ~HasId(ev, <<"end", t>>)
    BY <1>1, EndsHaveBegins
  <2>2. HasId(new, <<"begin", t>>) /\ ~HasId(new, <<"end", t>>)
    BY <1>1, <2>1, ExtendedIds
  <2>3. QED
    BY <2>2 DEF TurnOutcome
<1>6. ASSUME NEW u \in Turn, u # t PROVE TurnOutcome(new, u) = TurnOutcome(ev, u)
  BY <1>1, <1>6, OutcomeKept
<1>7. OutcomeIn(new) = [OutcomeIn(ev) EXCEPT ![t] = "open"]
  <2> HIDE DEF new, t
  <2>1. Visible(new) = new
    BY DEF new
  <2>2. QED
    BY <1>1, <1>5, <1>6, <2>1 DEF OutcomeIn
<1>8. OutcomeIn(ev)[t] = "none"
  BY <1>1, <1>4 DEF OutcomeIn
<1>9. QED
  BY <1>1, <1>3, <1>7, <1>8 DEF Begins

\* ... or ends one ...
LEMMA EndRow ==
  ASSUME NEW ev \in Seq(Event), NEW draft \in Drafts, UniqueIds(ev), Ordered(ev),
         ~HasId(ev, draft.id), Allowed(ev, draft), Visible(ev) = ev,
         Visible(Extended(ev, draft)) = Extended(ev, draft), draft.kind = "turn_end"
  PROVE  Ends(ev, Extended(ev, draft))
<1> DEFINE new == Extended(ev, draft)
           t == draft.turn
           status == draft.data[1]
<1>1. t \in ActiveTurns(ev) /\ draft.id = <<"end", t>> /\ status \in Outcome
  BY DEF Allowed, Admissible, IdFits
<1>2. t \in Turn
  BY <1>1 DEF ActiveTurns
<1>3. ActiveTurns(new) = {} /\ new \in Seq(Event)
  BY EndCloses, ExtendedRows
<1>4. ActiveIn(ev) = t /\ ActiveIn(new) = None
  BY <1>1, <1>3, ActiveOfTurns DEF ActiveIn
<1>5. TurnOutcome(new, t) = status
  <2>1. HasId(new, <<"begin", t>>)
    BY <1>1, OpenTurnHasNoEnd, ExtendedIds
  <2>2. /\ Len(ev) + 1 \in DOMAIN new /\ new[Len(ev) + 1] = Numbered(draft, Len(ev) + 1) /\ UniqueIds(new)
        /\ Len(ev) + 1 \in Nat
    BY ExtendedRows, ExtendedUniqueIds
  <2>3. new[Len(ev) + 1].id = <<"end", t>> /\ new[Len(ev) + 1].data = draft.data
    BY <1>1, <2>2, NumberedFields
  <2>4. QED
    BY <1>3, <2>1, <2>2, <2>3, OutcomeOfEnd
<1>6. ASSUME NEW u \in Turn, u # t PROVE TurnOutcome(new, u) = TurnOutcome(ev, u)
  BY <1>1, <1>6, OutcomeKept
<1>7. OutcomeIn(new) = [OutcomeIn(ev) EXCEPT ![t] = status]
  <2> HIDE DEF new, t, status
  <2>1. Visible(new) = new
    BY DEF new
  <2>2. QED
    BY <1>2, <1>5, <1>6, <2>1 DEF OutcomeIn
<1>8. QED
  BY <1>1, <1>2, <1>4, <1>7 DEF Ends

\* ... or belongs inside one, or to none ...
LEMMA OtherRow ==
  ASSUME NEW ev \in Seq(Event), NEW draft \in Drafts, UniqueIds(ev), IdFits(draft),
         ~HasId(ev, draft.id), Visible(ev) = ev,
         Visible(Extended(ev, draft)) = Extended(ev, draft), draft.kind \notin TurnKind
  PROVE  Stays(ev, Extended(ev, draft))
<1> DEFINE new == Extended(ev, draft)
<1>1. ActiveTurns(new) = ActiveTurns(ev)
  <2>1. Numbered(draft, Len(ev) + 1) \in Event /\ Numbered(draft, Len(ev) + 1).kind \notin TurnKind
    BY NumberedFields
  <2>2. QED
    BY <2>1, ActiveAppend DEF Extended, ActiveAfter, TurnKind
<1>2. ASSUME NEW u \in Turn PROVE TurnOutcome(new, u) = TurnOutcome(ev, u)
  <2>1. draft.id[1] # "begin" /\ draft.id[1] # "end"
    BY DEF IdFits, TurnKind
  <2>2. draft.id # <<"begin", u>> /\ draft.id # <<"end", u>>
    BY <2>1
  <2>3. QED
    BY <2>2, OutcomeKept
<1> HIDE DEF new
<1>3. Visible(new) = new
  BY DEF new
<1>4. Stays(ev, new)
  BY <1>1, <1>2, <1>3 DEF Stays, ActiveIn, OutcomeIn, ActiveOf
<1>5. QED
  BY <1>4 DEF new

\* ... or an import is published with its turns, all of them ended.
LEMMA CommitRow ==
  ASSUME NEW ev \in Seq(Event), NEW draft \in Drafts, UniqueIds(ev), Ordered(ev),
         ~HasId(ev, draft.id), Allowed(ev, draft), Visible(ev) = <<>>,
         Visible(Extended(ev, draft)) = Extended(ev, draft), draft.kind = "import_complete"
  PROVE  Publishes(ev, Extended(ev, draft))
<1> DEFINE new == Extended(ev, draft)
<1>1. ActiveTurns(ev) = {} /\ Admissible(ev, draft) /\ IdFits(draft) /\ Complete(ev)
  BY DEF Allowed, Complete
<1>2. ActiveTurns(new) = {} /\ new \in Seq(Event) /\ Ordered(new) /\ UniqueIds(new)
  <2>1. Numbered(draft, Len(ev) + 1) \in Event /\ Numbered(draft, Len(ev) + 1).kind = "import_complete"
    BY NumberedFields
  <2>2. QED
    BY <1>1, <2>1, ActiveAppend, ExtendedRows, ExtendedOrdered, ExtendedUniqueIds DEF Extended, ActiveAfter
<1>3. ASSUME NEW t \in Turn PROVE TurnOutcome(new, t) \in Outcome \cup {"none"}
  <2>1. CASE HasId(new, <<"begin", t>>)
    <3>1. PICK i \in DOMAIN new : new[i].id = <<"end", t>>
      BY <1>2, <2>1, ClosedTurnsHaveEnds DEF HasId
    <3>2. new[i].data[1] \in Outcome
      BY <1>2, <3>1 DEF Ordered, IdFits
    <3>3. QED
      BY <1>2, <2>1, <3>1, <3>2, OutcomeOfEnd
  <2>2. CASE ~HasId(new, <<"begin", t>>)
    BY <2>2 DEF TurnOutcome
  <2>3. QED
    BY <2>1, <2>2
<1>4. ActiveIn(new) = None /\ ActiveIn(ev) = None /\ OutcomeIn(ev) = [t \in Turn |-> "none"]
  BY <1>2, ActiveOfTurns, NothingVisible DEF ActiveIn, OutcomeIn
<1> HIDE DEF new
<1>5. Visible(new) = new
  BY DEF new
<1>6. OutcomeIn(new) \in [Turn -> Outcome \cup {"none"}]
  BY <1>3, <1>5 DEF OutcomeIn
<1>7. Publishes(ev, new)
  BY <1>4, <1>6 DEF Publishes
<1>8. QED
  BY <1>7 DEF new

\* So a row that the handlers admit changes what callers see of turns in one of four ways.
LEMMA RowOfTurns ==
  ASSUME NEW ev \in Seq(Event), NEW draft \in Drafts, UniqueIds(ev), Ordered(ev), ~Deleted(ev),
         ~HasId(ev, draft.id), Allowed(ev, draft), draft.kind # "deleted"
  PROVE  /\ ~Deleted(Extended(ev, draft))
         /\ \/ Stays(ev, Extended(ev, draft)) \/ Begins(ev, Extended(ev, draft))
            \/ Ends(ev, Extended(ev, draft)) \/ Publishes(ev, Extended(ev, draft))
<1> DEFINE new == Extended(ev, draft)
<1>1. ~Deleted(new) /\ new # <<>> /\ new \in Seq(Event)
  BY ExtendedKinds, ExtendedFirst, ExtendedRows DEF Deleted
<1>2. HasKind(new, "import_complete") <=> HasKind(ev, "import_complete") \/ draft.kind = "import_complete"
  BY ExtendedKinds
<1>3. ev # <<>> => (Imported(new) <=> Imported(ev))
  BY ExtendedImported
<1>4. Allowed(ev, draft) /\ IdFits(draft)
  BY DEF Allowed
<1>5. CASE Importing(new)
  <2>1. Visible(new) = <<>> /\ Visible(ev) = <<>>
    BY <1>2, <1>3, <1>5 DEF Visible, Published, Live, Importing
  <2>2. QED
    BY <1>1, <2>1 DEF Stays, ActiveIn, OutcomeIn
<1>6. CASE ~Importing(new)
  <2>1. Visible(new) = new
    BY <1>1, <1>6 DEF Visible, Published, Live
  <2>2. CASE Importing(ev)
    <3>1. Visible(ev) = <<>> /\ draft.kind = "import_complete"
      BY <1>2, <1>3, <1>6, <2>2 DEF Visible, Published, Importing, Imported
    <3>2. QED
      BY <1>1, <2>1, <3>1, CommitRow
  <2>3. CASE ~Importing(ev)
    <3>1. Visible(ev) = ev
      BY <2>3 DEF Visible, Published, Live
    <3>2. QED
      BY <1>1, <1>4, <2>1, <3>1, BeginRow, EndRow, OtherRow DEF TurnKind
  <2>4. QED
    BY <2>2, <2>3
<1>7. QED
  BY <1>5, <1>6

\* What the lifecycle's variables are in the store.
Active     == [c \in Conv |-> ActiveIn(disk[c])]
OutcomeNow == [c \in Conv |-> OutcomeIn(disk[c])]
Gone       == {c \in Conv : Deleted(disk[c])}

\* A step writes at most one file.
LEMMA OneFile ==
  ASSUME Typed, NEW c \in Conv, NEW new, disk' = [disk EXCEPT ![c] = new]
  PROVE  /\ Active' = [Active EXCEPT ![c] = ActiveIn(new)]
         /\ OutcomeNow' = [OutcomeNow EXCEPT ![c] = OutcomeIn(new)]
         /\ Gone' = IF Deleted(new) THEN Gone \cup {c} ELSE Gone \ {c}
<1>1. disk \in [Conv -> Seq(Event)]
  BY DEF Typed, TypeOK
<1>2. disk'[c] = new /\ \A d \in Conv : d # c => disk'[d] = disk[d]
  BY <1>1
<1>3. Active' = [Active EXCEPT ![c] = ActiveIn(new)]
  <2>1. Active' = [d \in Conv |-> ActiveIn(disk'[d])]
    BY DEF Active
  <2>2. ActiveIn(disk'[c]) = ActiveIn(new) /\ \A d \in Conv : d # c => ActiveIn(disk'[d]) = ActiveIn(disk[d])
    BY <1>2
  <2>3. QED
    BY <2>1, <2>2 DEF Active
<1>4. OutcomeNow' = [OutcomeNow EXCEPT ![c] = OutcomeIn(new)]
  <2>1. OutcomeNow' = [d \in Conv |-> OutcomeIn(disk'[d])]
    BY DEF OutcomeNow
  <2>2. OutcomeIn(disk'[c]) = OutcomeIn(new) /\ \A d \in Conv : d # c => OutcomeIn(disk'[d]) = OutcomeIn(disk[d])
    BY <1>2
  <2>3. QED
    BY <2>1, <2>2 DEF OutcomeNow
<1>5. Gone' = IF Deleted(new) THEN Gone \cup {c} ELSE Gone \ {c}
  BY <1>2 DEF Gone
<1>6. QED
  BY <1>3, <1>4, <1>5

\* The lifecycle's actions, said of the store.
LEMMA BeginsAre ==
  ASSUME NEW c, NEW t, c \notin Gone, Active[c] = None, OutcomeNow[c][t] = "none",
         Active' = [Active EXCEPT ![c] = t], OutcomeNow' = [OutcomeNow EXCEPT ![c][t] = "open"],
         Gone' = Gone
  PROVE  Turns!Begin(c, t)
BY DEF Turns!Begin, Active, OutcomeNow, Gone, ActiveIn, OutcomeIn

LEMMA EndsAre ==
  ASSUME NEW c, NEW t, NEW status, Active[c] = t,
         Active' = [Active EXCEPT ![c] = None], OutcomeNow' = [OutcomeNow EXCEPT ![c][t] = status],
         Gone' = Gone
  PROVE  Turns!End(c, t, status)
BY DEF Turns!End, Active, OutcomeNow, Gone, ActiveIn, OutcomeIn

LEMMA PublishesAre ==
  ASSUME NEW c, NEW ended, c \notin Gone, OutcomeNow[c] = [t \in Turn |-> "none"],
         Active' = Active, OutcomeNow' = [OutcomeNow EXCEPT ![c] = ended], Gone' = Gone
  PROVE  Turns!Publish(c, ended)
BY DEF Turns!Publish, Turns!NoTurns, Active, OutcomeNow, Gone, ActiveIn, OutcomeIn

LEMMA RemovesAre ==
  ASSUME NEW c, c \notin Gone, Active[c] = None, Gone' = Gone \cup {c}, Active' = Active,
         OutcomeNow' = [OutcomeNow EXCEPT ![c] = [t \in Turn |-> "none"]]
  PROVE  Turns!Remove(c)
BY DEF Turns!Remove, Turns!NoTurns, Active, OutcomeNow, Gone, ActiveIn, OutcomeIn

LEMMA StuttersAre ==
  ASSUME Active' = Active, OutcomeNow' = OutcomeNow, Gone' = Gone
  PROVE  UNCHANGED Turns!vars
BY DEF Turns!vars, Active, OutcomeNow, Gone, ActiveIn, OutcomeIn

\* The step of the lifecycle that a row is.
LEMMA RowIsTurnStep ==
  ASSUME Typed, Sound, Whole, AppendsRow
  PROVE  Turns!Next \/ UNCHANGED Turns!vars
<1>1. phase # "down" /\ mem = disk /\ lock.conv \in Conv /\ disk \in [Conv -> Seq(Event)]
      /\ lock.draft \in Drafts
  <2>1. mem \in [Conv -> Seq(Event)] /\ disk \in [Conv -> Seq(Event)]
    BY DEF Typed, TypeOK
  <2>2. QED
    BY <2>1, WritingSynced, RowExtends DEF AppendsRow
<1>2. PICK c \in Conv : c = lock.conv
  BY <1>1
<1>3. PICK old \in Seq(Event) : old = disk[c]
  BY <1>1
<1>4. PICK draft \in Drafts : draft = lock.draft
  BY <1>1
<1>5. PICK new : new = Extended(old, draft)
  OBVIOUS
<1>6. disk' = [disk EXCEPT ![c] = new]
  BY <1>1, <1>2, <1>3, <1>4, <1>5, RowExtends DEF AppendsRow
<1>7. /\ ~Deleted(new) /\ ~Deleted(old)
      /\ Stays(old, new) \/ Begins(old, new) \/ Ends(old, new) \/ Publishes(old, new)
  <2>1. UniqueIds(old) /\ Ordered(old) /\ ~Deleted(old) /\ ~HasId(old, draft.id)
        /\ Allowed(old, draft) /\ draft.kind # "deleted"
    <3>1. Writing /\ lock.draft # Tombstone /\ mem[lock.conv] = old /\ old = disk[c]
      BY <1>1, <1>2, <1>3 DEF AppendsRow
    <3>2. Allowed(mem[lock.conv], lock.draft)
      BY <3>1 DEF Whole, RowRules
    <3>3. ~Deleted(mem[lock.conv]) /\ ~HasId(mem[lock.conv], lock.draft.id) /\ lock.draft.kind # "deleted"
      BY <3>1 DEF Sound, Admitted
    <3>4. WellFormed(disk[c]) /\ Ordered(disk[c])
      BY DEF Sound, Whole, AllOrdered
    <3>5. mem[lock.conv] = old /\ lock.draft = draft /\ lock.draft.id = draft.id /\ lock.draft.kind = draft.kind
      BY <1>4, <3>1
    <3>6. Allowed(old, draft)
      BY <3>2, <3>5
    <3>7. ~Deleted(old) /\ ~HasId(old, draft.id) /\ draft.kind # "deleted"
      BY <3>3, <3>5
    <3>8. UniqueIds(old) /\ Ordered(old)
      BY <3>1, <3>4 DEF WellFormed
    <3>9. QED
      BY <3>6, <3>7, <3>8
  <2>2. QED
    BY <1>5, <2>1, RowOfTurns
<1>8. /\ Active' = [Active EXCEPT ![c] = ActiveIn(new)]
      /\ OutcomeNow' = [OutcomeNow EXCEPT ![c] = OutcomeIn(new)]
      /\ Gone' = Gone /\ c \notin Gone
  <2>1. c \notin Gone
    BY <1>3, <1>7 DEF Gone
  <2>2. /\ Active' = [Active EXCEPT ![c] = ActiveIn(new)]
        /\ OutcomeNow' = [OutcomeNow EXCEPT ![c] = OutcomeIn(new)]
        /\ Gone' = IF Deleted(new) THEN Gone \cup {c} ELSE Gone \ {c}
    BY <1>6, OneFile
  <2>3. Gone' = Gone
    BY <1>7, <2>1, <2>2
  <2>4. QED
    BY <2>1, <2>2, <2>3
<1>9. Active[c] = ActiveIn(old) /\ OutcomeNow[c] = OutcomeIn(old)
  BY <1>3 DEF Active, OutcomeNow
<1>10. Active = [Active EXCEPT ![c] = Active[c]] /\ OutcomeNow = [OutcomeNow EXCEPT ![c] = OutcomeNow[c]]
  BY DEF Active, OutcomeNow
<1>11. CASE Stays(old, new)
  BY <1>8, <1>9, <1>10, <1>11, StuttersAre DEF Stays
<1>12. CASE Begins(old, new)
  <2>1. PICK t \in Turn :
          /\ ActiveIn(old) = None /\ OutcomeIn(old)[t] = "none" /\ ActiveIn(new) = t
          /\ OutcomeIn(new) = [OutcomeIn(old) EXCEPT ![t] = "open"]
    BY <1>12 DEF Begins
  <2>2. OutcomeNow' = [OutcomeNow EXCEPT ![c][t] = "open"]
    BY <1>8, <1>9, <2>1
  <2>3. Turns!Begin(c, t)
    BY <1>8, <1>9, <2>1, <2>2, BeginsAre
  <2>4. QED
    BY <2>3 DEF Turns!Next
<1>13. CASE Ends(old, new)
  <2>1. PICK t \in Turn, status \in Outcome :
          /\ ActiveIn(old) = t /\ ActiveIn(new) = None
          /\ OutcomeIn(new) = [OutcomeIn(old) EXCEPT ![t] = status]
    BY <1>13 DEF Ends
  <2>2. OutcomeNow' = [OutcomeNow EXCEPT ![c][t] = status]
    BY <1>8, <1>9, <2>1
  <2>3. Turns!End(c, t, status)
    BY <1>8, <1>9, <2>1, <2>2, EndsAre
  <2>4. QED
    BY <2>3 DEF Turns!Next
<1>14. CASE Publishes(old, new)
  <2>1. /\ OutcomeIn(old) = [t \in Turn |-> "none"] /\ ActiveIn(new) = ActiveIn(old)
        /\ OutcomeIn(new) \in [Turn -> Outcome \cup {"none"}]
    BY <1>14 DEF Publishes
  <2>2. Active' = Active
    BY <1>8, <1>9, <1>10, <2>1
  <2>3. PICK ended \in [Turn -> Outcome \cup {"none"}] : ended = OutcomeIn(new)
    BY <2>1
  <2>4. Turns!Publish(c, ended)
    BY <1>8, <1>9, <2>1, <2>2, <2>3, PublishesAre
  <2>5. QED
    BY <2>4 DEF Turns!Next
<1>15. QED
  BY <1>7, <1>11, <1>12, <1>13, <1>14

\* The step of the lifecycle that a deletion is: the tombstone takes the place of a journal in
\* which no turn runs.
LEMMA DeletionIsTurnStep ==
  ASSUME Typed, Sound, Whole, ReplaceFile
  PROVE  Turns!Next \/ UNCHANGED Turns!vars
<1>1. disk \in [Conv -> Seq(Event)] /\ mem \in [Conv -> Seq(Event)] /\ phase # "down" /\ lock.conv \in Conv
      /\ ~Deleted(mem[lock.conv]) /\ ActiveTurns(mem[lock.conv]) = {} /\ disk[lock.conv] # TombstoneRows
      /\ mem[lock.conv] = disk[lock.conv] /\ disk' = [disk EXCEPT ![lock.conv] = TombstoneRows]
  <2>1. disk \in [Conv -> Seq(Event)] /\ mem \in [Conv -> Seq(Event)] /\ lock.conv \in Conv
        /\ disk' = [disk EXCEPT ![lock.conv] = TombstoneRows] /\ ~Deleted(mem[lock.conv])
        /\ ActiveTurns(mem[lock.conv]) = {} /\ lock # Free
    BY FreeIsNotWriting DEF ReplaceFile, TombstoneRows, Typed, TypeOK, Deleting, Writing, Sound, Deletable
  <2>2. disk[lock.conv] # TombstoneRows
    BY TombstoneWellFormed DEF ReplaceFile, Replaced, TombstoneRows
  <2>3. QED
    BY <2>1, <2>2 DEF Sound, Synced
<1>2. PICK c \in Conv : c = lock.conv
  BY <1>1
<1>3. PICK old \in Seq(Event) : old = disk[c]
  BY <1>1
<1>4. ActiveTurns(old) = {} /\ ~Deleted(old) /\ disk' = [disk EXCEPT ![c] = TombstoneRows]
  BY <1>1, <1>2, <1>3
<1>5. Deleted(TombstoneRows) /\ Visible(TombstoneRows) = <<>>
  BY TombstoneWellFormed DEF Visible, Published, Live
<1>6. ActiveIn(old) = None
  BY <1>4, ActiveOfTurns, NothingVisible DEF ActiveIn, Visible
<1>7. ActiveIn(TombstoneRows) = None /\ OutcomeIn(TombstoneRows) = [t \in Turn |-> "none"]
  BY <1>5, NothingVisible DEF ActiveIn, OutcomeIn
<1>8. Active[c] = None /\ c \notin Gone /\ Active = [Active EXCEPT ![c] = Active[c]]
  BY <1>3, <1>4, <1>6 DEF Active, Gone
<1>9. /\ Active' = Active /\ Gone' = Gone \cup {c}
      /\ OutcomeNow' = [OutcomeNow EXCEPT ![c] = [t \in Turn |-> "none"]]
  <2>1. PICK new : new = TombstoneRows
    OBVIOUS
  <2>2. disk' = [disk EXCEPT ![c] = new] /\ Deleted(new)
    BY <1>4, <1>5, <2>1
  <2>3. /\ Active' = [Active EXCEPT ![c] = ActiveIn(new)]
        /\ OutcomeNow' = [OutcomeNow EXCEPT ![c] = OutcomeIn(new)] /\ Gone' = Gone \cup {c}
    BY <2>2, OneFile
  <2>4. QED
    BY <1>7, <1>8, <2>1, <2>3
<1>10. Turns!Remove(c)
  BY <1>8, <1>9, RemovesAre
<1>11. QED
  BY <1>10 DEF Turns!Next

\* The store implements the turn lifecycle (TurnLifecycle): read off the files, every step
\* of it (a failed write, a crash, a restart, a page of an import) is one step of the lifecycle
\* or none, so at every moment a caller sees a state the lifecycle allows.
THEOREM StoreImplementsTurns ==
  ASSUME RemovalFails = FALSE, ExportedDocuments
  PROVE  Spec => ImplementsTurns
<1>1. Init => Turns!Init
  <2>1. ASSUME Init PROVE Turns!Init
    <3>1. \A c \in Conv : disk[c] = <<>> /\ Visible(disk[c]) = <<>> /\ ~Deleted(disk[c])
      BY <2>1, EmptyWellFormed DEF Init, Visible
    <3>2. QED
      BY <3>1, NothingVisible DEF Turns!Init, Turns!NoTurns
  <2>2. QED
    BY <2>1
<1>2. (Typed /\ Sound /\ Whole) /\ [Next]_vars => [Turns!Next]_(Turns!vars)
  <2>1. ASSUME Typed, Sound, Whole, [Next]_vars PROVE Turns!Next \/ UNCHANGED Turns!vars
    <3>1. CASE disk' = disk
      <4>1. Active' = Active /\ OutcomeNow' = OutcomeNow /\ Gone' = Gone
        BY <3>1 DEF Active, OutcomeNow, Gone
      <4>2. QED
        BY <4>1, StuttersAre
    <3>2. QED
      BY <2>1, <3>1, StepsOfFiles, RowIsTurnStep, DeletionIsTurnStep
  <2>2. QED
    BY <2>1
<1>3. QED
  BY <1>1, <1>2, ImportsAreWhole, PTL DEF Spec, ImplementsTurns, Turns!Spec
=============================================================================
