# FlowM in TLA+

FlowM is a desktop application that lets a model draw diagrams and work on a project. A
Rust sidecar, the *harness* (`harness/src`), owns conversations, credentials and the
embedded Codex kernel; a Tauri supervisor starts it; a TypeScript frontend talks to it
over JSON lines. This directory models the parts of that system whose correctness depends
on the order of steps, checks small instances with TLC, and proves what matters most for
every instance with TLAPS.

    tlc -workers 2 -config MCSessionsTurns.cfg MCSessionsTurns
    tlc -workers 2 -config MCFrontend.cfg MCFrontend
    tlapm JournalProofs.tla        # and SessionsProofs, ThreadsProofs, DesktopProofs,
                                   # WebviewProofs, CanvasProofs, Stepwise, LayoutProofs

## 1. The system

| Part | State it keeps | Operations | What is hard about it |
| --- | --- | --- | --- |
| Conversation store, `harness/src/sessions.rs` | one journal per conversation, in memory behind one mutex and as an append-only file; image files | create, begin, record, finish, rename, import (legacy, paged), export (paged), delete, open | crashes inside a write, recovery that crashes again, handlers that check, release the mutex and append, deletion in several files |
| Request handling, `harness/src/server.rs` | a task per request | turn/start and its journal, receipt and state writes; session/cancel; session/delete; recovery in `serve` | many durable writes in a row with a crash possible between any two; request ids that are sent again |
| Execution segments, `harness/src/kernel.rs` | bindings, live threads with a run lock and a cancelled flag, pending interactions | open, run, cancel, close, delete_session, answer | values read before a wait and written after it; cancellation against completion |
| State and receipts, `harness/src/state.rs` | `state.json`, `receipts/<id>.json` | save, write_receipt, recover_receipts | what was in flight when the process stopped |
| Execution policy, `harness/src/execution.rs` | policy and deadline per running thread | begin, authorize, drop | scope by thread id |
| Credentials, `harness/src/auth.rs` | encrypted credential, profile with its credential version, login attempts | set, headers with refresh, login, logout, disconnect | a login that ends after a logout, two refreshes of one rotating token |
| Models and providers, `models.rs`, `provider*`, `responses_bridge.rs` | catalog cache | list, translate | mostly formats and network |
| Supervisor, `src-tauri/src/harness_process.rs` | queues of 16 lines in and 64 events out, stop and done flags | start, write, stop | stop against exit, full queues |
| Harness client, `src/harness/client.ts`, `session.ts`, `turn.ts` | pending calls, process generation, request in flight | request, runTurn, status, export, import | late answers, restarts, one submission per request |
| Conversation view, `src/harness/conversations.ts` | snapshot and buffer of events | select, run | pages against the event stream |
| Connections, `src/harness/connections.ts` | profile, catalog, login attempt, revisions | refresh, connect, login, logout | answers of an older revision |
| Canvas workflow, `src/llm/conversation.ts`, `src/engine/canvasEngine.ts` | history, refs, plan, scope | build loop, review, finalize | phases that may be cancelled, operations applied at most once |
| Workspace, `src/workspace/useWorkspace.ts` | current project, canvas, conversation | open, select, create, delete, save, import | state read again after an await |
| Panels, `GitPanel.tsx`, `FilePanel.tsx`, `FloatingEditor.tsx` | status, diff, tree, text being edited | read, select, save | answers to effects that were cleaned up |
| Chat, `src/chat` | none | journal to messages, activity to cards and rows | streams that interleave, turns that end with work open |
| Layout and protocol, `src/canvas`, `src/protocol` | none, but for the paths of arrows from batch to batch | placement, automatic layout, spacing, overlap repair, routing; references and scopes | repairs that must not undo what they found, one pass after the other |

A user request goes like this. The view calls `session/begin`, which appends
`turn_begin` to the journal. The engine opens a thread (`thread/open`), which chooses an
execution segment (a *binding*) with the latest context or starts a new one from the
journal's history. Each model request is a `turn/start` on it: input row, receipt
`accepted`, kernel, receipt `running`, result row, final receipt, context revision. The
view then calls `session/finish`. When the process stops anywhere, `serve` marks what was in
flight as uncertain, ends the open turn as interrupted, and lets a result that reached the
journal overrule its receipt. Nothing is submitted again.

What makes each part correct:

- *Store*: files only grow, are numbered without gaps, and are what readers see; turns do
  not overlap and events lie inside them; recovery ends what was open; exports and imports
  are whole; deletion is complete.
- *Requests and segments*: a request reaches the kernel once; it is on disk before; it
  settles; receipts agree with the journal; interrupted segments stay blocked; a segment
  that is chosen knows every result.
- *Credentials*: headers are given out only for the current version; a login binds only the
  version it began with.
- *Client and view*: answers of an older generation or revision change nothing; a request
  whose fate is unknown blocks its session; the view converges to the journal.
- *Connections*: requests use the credentials their profile has now; no browser login is
  left behind that the user cannot cancel.
- *Workspace and panels*: what the user drew is on the screen or in its file; what a panel
  shows belongs together.
- *Canvas workflow*: every tool call has one result; what the model is told of is saved; the
  review touches nothing but what the build made; nothing follows a cancellation.
- *Layout*: what is placed is placed in the clear; a repair keeps the composition it found
  (rows and columns: see `composition` in section 3); arrows keep their ends and pass no
  shape unannounced.
- *Chat*: every piece of text is shown, in order and once (but for an answer that begins in
  the middle of its stream, section 3); a turn that ended shows nothing at work.

`PROJECT.json` lists every part with its status, and every hazard with its line.

## 2. Modules

| Module | Models |
| --- | --- |
| `Journal` | rows, event ids and the questions asked of a journal (`Conversation::active`, `revision`, the guards of `append` and `begin`). No state. |
| `Sessions` | the conversation store with its mutex, files, crashes and recovery |
| `TurnLifecycle` | abstract: what the store promises about user requests |
| `Threads` | `turn/start`, segments, receipts, cancellation, deletion and `serve`'s recovery, for one conversation |
| `HarnessClient` | the client's connection and one session: generations, timers, a model turn and its recovery through `turn/status` |
| `ConversationView` | the snapshot of the selected conversation from pages and notifications, and a user request with its recorded events |
| `Connections` | refresh, connect, login and logout under revision counters, against profiles with credential versions |
| `CanvasScene` | operations, references, relations and what one batch does to the elements of a scene. No state. |
| `CanvasWorkflow` | one canvas request: build loop, review, finalize, over `CanvasScene` |
| `LayoutGeometry` | vacant places, boxes pushed apart, automatic layout in layers. No state. |
| `LayoutRepair` | what a repair must keep, spacing of flows, protected moves, remaining conflicts, ports and offsets. No state. |
| `EdgeRouting` | endpoints of arrows and their paths around obstacles. No state. |
| `CanvasLayout` | a sequence of batches: operations, the two repair passes, the routes |
| `Workspace` | projects, canvases and conversations around awaits, and their files |
| `Panels` | the panels that read from the native side |
| `ChatProjection` | what the chat shows of a growing journal |
| `JournalProofs` | lemmas: what appending a row keeps |
| `SessionsProofs` | theorems about `Sessions`: one store at a time; exports, imports, restarts and the refinement of `TurnLifecycle` |
| `ThreadsProofs` | theorems about `Threads` |
| `DesktopProofs` | theorems about `HarnessClient`, `Connections` and `Workspace` |
| `CanvasProofs` | theorems about `CanvasWorkflow` |
| `Stepwise` | lemmas: what a value is after each member of a sequence changed it in turn (`Through` of `LayoutGeometry`), for any step |
| `LayoutProofs` | theorems about `CanvasLayout` and the modules it stands on |
| `WebviewProofs` | theorems about `Panels`, `ConversationView` and `ChatProjection` |
| `MCSessions`, `MCThreads`, `MCCanvasWorkflow`, `MCWorkspace`, `MCComposition` | constants for TLC |
| `MCSessionsTurns`, `MCHarness`, `MCFrontend` | constants for TLC, and machines that share no state side by side in one run: two uses of the store; `Threads` and `HarnessClient`; the webview's machines |

How they meet. `Sessions` and `Threads` share `Journal`; `Threads` takes an append as one
step, which `DurableReads` justifies. `ConversationView` and `ChatProjection` take from the
store what `Sessions` shows of it: turns that do not overlap, events inside them, and
notifications sent after the mutex. `HarnessClient` takes from `Threads` the receipt of a
request and that nothing is submitted twice. `CanvasWorkflow` composes `CanvasScene` with
the delivery cursor of `HarnessTurn`; `CanvasLayout` composes the three geometry modules.
`CanvasWorkflow` and `CanvasLayout` are two views of `apply`: ids, references and results
in one, positions and paths in the other.

### Sessions

`disk[c]` holds the committed rows of c's file, `torn` the files that end in half a row,
`mem[c]` the vector in the map. A handler that writes keeps the mutex while it does, so
`lock` is both the mutex and the write: `StartWrite` decides, `CompleteAppend` is the
return of `append_file` and the push to memory, `FailWrite` its failure, and `Crash` can
come in between and leave the row absent, torn or complete. `delete` is `Delete`,
`ReplaceFile` (the rename), `RemoveImages` or `FailRemoval`.

Handlers that take the mutex twice are two actions with a record in between: `FinishCheck`
and `FinishAppend` (`calls`), `AssertActive`, `SaveImages` and `ModelInput` (`asking`),
`ImportCheck`, `ImportAppend`, `CommitCheck` and `CommitImport` (`imp`), `ExportCheck` and
`ExportRead` (`exp`). `open` is `Open` (read, cut torn tails, refuse gaps), `InterruptTurn`
for each open turn, `FinishOpen`. A client that was between two requests of an import or
export may go on with a new process; the code's checks have to cope.

An event id appears as prefix and name, data as the one field handlers look at. Texts,
timestamps, names, sizes, JSON and hashes are left out; so are rows that no check looks at
(`model_event`, `answer`, `legacy_message` are written like rows that are modelled).
Pages count events (`PageSize`); the byte limit of a page is left out. `Role` is looked at
where it matters, in `AnswersQuestion` and in `Threads`.

### Threads

One conversation, its journal as `Sessions` describes it with one simplification: an append
is one step. That is what `DurableReads` justifies, as memory never shows a row that is not
on disk. Durable are `journal`, `receipts`, `state` and the private histories `rollout`; in
memory are `bound`, the live threads (`live[th]` numbers a `LiveThread`, since a closed one
may still have a handler), their `cancelled` flags and the handlers in `runs`. A run's `at`
names the last thing it did:

    locked -> admitted -> (begun) -> recorded -> accepted -> submitted -> collecting
       -> ended -> journaled -> written -> noted -> saved/finished -> blocked

`Open`, `StartKernel` and `Opened` are `Registry::open`, cut at its long waits: the choice
of the binding, the start of the kernel thread, the insertion. The creation lock admits
one. `StopTurn` to `StopFinish` are `session/cancel` with its 15 seconds. `Delete` to
`RemoveBindings` are `session/delete`; the per binding awaits of `delete_session` are one
step. `LoadState` to `Serve` are `Store::open`, `recover_receipts`, `Sessions::open` and the
reconciliation in `serve`.

The kernel is external. It takes a request or refuses it (`Submit`); a request it took ends
with a text, which is in its flushed history, or an error (`Collect`). The client is
one: it opens threads, starts a request in a turn it began or as a turn of its own, waits,
gives up at any time, and may use a request id again when the handler of that id is gone.
`Frozen` stands for what a binding is bound to: connection, credential version, role, model,
instructions, tools.

Left out of `Threads`: I/O errors on state files and receipts, opening an explicit thread
id, images, profiles and models (an open that fails for them is `OpenFails`), interactions,
the `closed` flag that the deadline's cleanup sets on a thread nobody can use any more, a
second concurrent deletion, and rows equal but for their thread id.

### The webview

JavaScript runs to its next await, so a step is what lies between two awaits, and an answer
and the promise reactions on it are one step. A state is parked at an await by name.

*HarnessClient.* `link` is the process whose events the client hears, the one it is
starting and how many it started; `calls` the requests a session can have out (of run,
cancel and dispose); `session` the fields of `HarnessSession`; `native` what really runs,
with its receipts. A timer may fire in any waiting state; a process may end in any. `native`
is `Threads` seen from outside: a model turn is accepted on its thread when that is free,
runs, ends, and is settled by a restart.

*ConversationView.* `journals` is the store, `unsent` what was appended but not announced,
`wire` what was announced in the order it will arrive; `load` is the selection in
progress with its page, `view` the published snapshot, `run` the request under way with the
events its engine reported and the store took.

*Connections.* `account` is the published snapshot, `revisions` the counters that outdate an
answer, `tasks` the operations parked at a request, each with the revision it saw;
`service` the native side with its profiles and login attempts. What the settings dialogue
disables is a guard (`Unlocked`).

*CanvasWorkflow.* `pc` is the await; `work` the locals of the phase; `conv` the fields of
`Conversation`; `batch` the calls being applied in two stages; `harness` the fields of
`HarnessTurn`, with its delivery cursor, and `delivered` what the model has heard. A turn of
the model is any member of `BuildTurns` or `ReviewTurns`, a malformed or refused call
included. At any await the user may cancel, and may remove elements or bring them back.

*Workspace.* `op` is the one transition with its await; `store` the files, `screen` the
scene in the editor, `project` the references. The file commands of the desktop shell take
effect in the order of their calls. Automatic saves (`saving`) and the import of a file
(`import`) run beside a transition. An import takes no lock, as in the code: commands are given
while it goes on, and what it writes goes to the canvas that is active by then. A scene
remembers the canvas it was put on screen for (`of`) and the one it was meant for (`meant`).

*Panels* and *ChatProjection* are what their header comments say. A text is a sequence of
numbered pieces, so that "shown once, in order" can be said of it.

### Layout

Coordinates are whole pixels, halves rounded down; focus is in hundredths. Where several
candidates cost the same, the code takes the first and the model any. `findVacantRect`,
`resolveOverlaps`, `autoLayout`, `expandFlowSpacing`, `protectLayoutMoves`, the port and
offset assignment and `routePlannedArrow` are operators; a batch is `Materialize`
(operations and what is captured for preservation), `spacingPass`, `avoidPass`, `arrowPass`.
Nothing runs between the passes; they are steps so that properties can look at each.
`Spread` extends a move over rows, columns and containers as the code does: group after group,
in one pass more than there are shapes, with the containers that move taken at the start of each
pass. The code stops at a pass that changes nothing, and the passes the model makes beyond it
change nothing either. `settled` remembers of a batch whether the last passes of its repairs
changed nothing; the code does not look at that. To arrows, shapes are unrotated rectangles,
and arrows are ordered by number where the code orders them by id.

## 3. Runs

Bounds are constants and appear in guards: `MaxEvents` (rows of a journal, not counting
the ends of turns, so that a turn can always end), `MaxCalls` (requests between check and
append), `MaxFaults` (crashes and failed writes), `MaxInstances`, `MaxRows` (rows at which no
turn begins), `MaxCrashes`. With bounds a run ends, so the configurations switch deadlock off.

| Run | Instance | Shows |
| --- | --- | --- |
| `sessions_journal` | two instances side by side, 2 faults: 1 conversation, 2 turns, 1 model request/question id, 4 rows, 2 calls; and the turns of 2 conversations | typing, durability, contiguity, separate turns, enclosed events, growth of files, refinement of `TurnLifecycle`; open turns end before the store serves, also with a crash inside recovery, and under fairness always |
| `sessions_transfer` | 1 conversation, pages of 2 rows, a finished and an unfinished document, a legacy record, a failing image removal, 2 faults | exports are snapshots, imports publish whole |
| `sessions_removal` | an image that cannot be removed | violated: a gap in the file |
| `sessions_erasure` | a crash inside `delete` | violated: images stay |
| `harness` | two instances side by side. Threads: 1 segment, 2 requests (one a turn of its own, one in a user turn), 1 crash. Client: 2 processes, 2 model requests, 2 user turns | no replay, write-ahead of input and receipt, receipts against journal, settlement; no two model requests of one user turn at a time, nothing submitted after a cancellation, runs settle |
| `threads_blocking` | 1 request, 1 crash | violated: an interrupted segment is open again |
| `threads_deletion` | 1 segment, no crash | violated: `thread/open` undoes a deletion |
| `threads_context` | 2 segments, 2 requests | violated: a segment claims a result it never heard |
| `canvas_workflow` | 2 requests of at most 3 build iterations, 6 shapes, 2 names, 1 edit of the user | results of calls, the review's scope, saving before reporting, frozen shapes, delivery, cancellation, plans, termination |
| `frontend` | see below | the view, the connections, the workspace, the panels, the chat, and layout |
| `workspace_import` | 1 folder with 2 canvases, 3 commands, 1 edit, nothing fails | violated: a file that is loaded ends up on another canvas |
| `composition` | 14 shapes, 1 batch: a chain of six boxes and columns with a repair at either end | violated: a declared column is torn |

Why these bounds are enough. Two turns are what overlapping needs, two calls what a race
between two finishes, or a finish and a model input, needs. Two faults let recovery itself
crash, or a write fail and the process stop later. Pages of two rows make an export of a
journal with three rows read twice with other handlers in between. In `harness` one
crash falls at every step of a handler and of recovery, and the second request meets the
receipts, the flags and the run lock the first left behind.

The client in `harness` lets a process end, be slow, refuse a line or be replaced at any step,
with a second request that meets what the first left behind. `canvas_workflow` gives the model turns that create
planned and unplanned shapes, declare flows and frozen shapes, name what does not exist, and
make calls that are malformed, refused or rejected; the second request starts from the
history, the references and the declarations of the first. Three iterations (8 in the code) are a first,
one that is sent back, and the last, where an incomplete plan passes.

`frontend` explores six machines side by side. They share no state in the models, so their
product would multiply the states and show nothing more: `system` says which of them a
behaviour is about. Their instances:

- *view*: 2 conversations, pages of 2 events of 3, 2 user requests, 2 selections, one end of
  the process, one event of another origin. A selection reads two pages with notifications
  in between, and is overtaken by the next selection.
- *connections*: one account with browser login, one gateway, 2 operations and one trouble
  (a failed request, an empty list of models or the end of the process). Two operations are
  what overtaking needs; the preference of the last session is one more to start with.
- *workspace*: 2 folders, one of an older version with two canvases to migrate, 4 canvases, 3
  commands, 2 edits, one failing call or restart.
- *panels*: 2 folders, 2 files, 3 acts of the user, one edit.
- *chat*: journals of 6 events, streams `<<1>>` and `<<1, 2>>` (as `a` and `a:2`, the id that
  numbering the second segment of `a` gives), one tool.
- *layout*: 3 batches, one of `MCOpenings` and two of `MCBatches`, on 6 pages of three
  shapes: apart, too close, on top of each other, or inside a third. Of these, repairs move
  shapes and are cut down to what they may move, some conflicts stay and are reported,
  arrows bend around shapes or keep their path, offsets are not zero, regions are placed and
  shapes are laid out automatically. `PlacedIsClear` does not count what the same batch
  created as an obstacle of what it places: `apply` measures the shapes of the scene it began
  with.

In *workspace* an import runs beside every command, so `EditsSurvive` says what the code keeps
under that: what was drawn on a canvas is on the screen or in its file until an imported file
replaces it, and a file holds nothing but what was on screen while its canvas was the active one.
That the import may replace the wrong canvas is the violation of `workspace_import`. The lists of
conversations are compared while no import is under way and none was beside a transition since
the folder was opened (`crossed`): an import writes the list it read before.

In *layout* a row or column is compared when there are no containers or the repairs settled
(`RepairKeepsComposition`). Three shapes always settle; `composition` has what it takes not to.

In *chat* an answer may say something twice when the model's last message begins in the middle
of what was streamed (`BeginsMidway`): `projectSession` cuts the message after the stream only
where it begins with all of it (`sessionProjection.ts:72-73`), so a stream `<<3, 4>>` and a
message `<<4, 5>>` show `<<3, 4, 4, 5>>`. The test of it (`sessionProjection.test.ts:7`,
"without duplication") has a stream that begins its message.

Fairness. `Sessions`: the client starts a stopped harness with its next request, and a file
write returns; no request has to be made and nothing has to fail. `Threads`: a handler that
started goes on, since `serve` spawns it and nothing drops it, and the kernel ends each
request by `timeout_at` its deadline; recovery goes on. Nothing is assumed of the client.
`HarnessClient`: a start of the process ends, an answer that was sent is received, and every
request has its timer; that the process answers is not assumed. `CanvasWorkflow`: every await
ends, since a model turn has its deadline in the harness and fonts, saves and exports settle;
nothing is assumed of the answers or of the user. The machines of `frontend` are checked for
safety only and have no fairness.

`threads_context` has a state constraint, `Undisturbed`, which leaves deletion and
cancellation out: its violation does not need them, and any violation found under a
constraint is one of the full specification.

### What the violated properties say of the code

1. `delete` removes images after the tombstone and before memory. When one cannot be
   removed, memory and file disagree, and a later append leaves a sequence gap: the next
   `open` refuses to start, for every conversation (`sessions.rs:946-956`, `:100`).
2. A crash between tombstone and images leaves the images for good, as a second `delete`
   returns early (`sessions.rs:931`).
3. A crash between the receipt `interrupted` and the saved block leaves the segment open
   (`server.rs:484-529`).
4. `Registry::open` inserts a binding chosen before `session/delete` removed it
   (`kernel.rs:282`, `:907`).
5. `start_turn` gives its binding the journal's revision of that moment, which can be the
   result of a request on another segment (`server.rs:485-498`). It takes a client that gave
   up on the first request and opened another segment in the same turn.
6. `onLoad` looks at `isChanging` before it waits for the import and takes no lock. A canvas
   selected, added or opened meanwhile is the one `restoreCanvas` replaces and `persistActive`
   writes (`App.tsx:217-228`): what was drawn on it is gone, and the canvas the user loaded
   the file into keeps its old scene.
7. `protectLayoutMoves` makes at most one pass more than there are shapes and does not look at
   whether the last one still changed something (`layoutPreservation.ts:149-174`). A move goes
   on from a box to its content in the next pass only, so a chain of boxes and declared columns
   takes more passes than that when a larger move comes from its other end: a column whose
   members move by 1 and by 5 is accepted as whole.

Two more disagreements were seen while modelling and have no run of their own.
`docs/architecture.md:139-142` says that a build ends only when the plan is complete;
`conversation.ts:348` accepts an incomplete plan at the last iteration, and
`PlanIsMaterialized` says so. `apply` of `excalidrawPort.ts` reads the scene at line 592,
waits for the fonts, and writes the whole scene at line 951, so an edit of the user in
between is lost; in `CanvasWorkflow` the user's edits fall between the stages.

## 4. Proofs

`SessionsProofs` proves, for every value of the constants:

- `TypeCorrect`: `Spec => []TypeOK`, from the assumptions about the constants alone.
- `ContiguousRows`, `DurableReads`, `SeparateTurns`, `EnclosedEvents`, `GrowingFiles`: the
  invariants of `sessions_journal` and the action property `FilesOnlyGrow`, under
  `RemovalFails = FALSE`. That assumption is needed: `sessions_removal` is the
  counterexample without it.

The argument. None of the safety properties is inductive by itself. The invariant `IInv`
adds what ties the two copies of a journal together and what a write in progress may assume:
memory equals disk for every conversation but one that is being deleted; the row under the
mutex carries an id its journal lacks and, where the code asked, the turn that is open;
every journal is contiguous, has unique ids and, unless imported, separate turns that
enclose their events; while the process is down there is no write. The step that
matters is `CompleteAppend`: `JournalProofs` shows that appending a row that passed the
guard of `append` keeps a journal well formed (`OneTurnAtATime`, `InsideItsTurn`), which is
an argument about the last turn marker. Crashes and recovery only drop the row or complete
it.

`SessionsProofs` goes on from there:

- `ExportsAreSnapshots`: `Spec => []ExportIsSnapshot`, from the assumptions about the
  constants alone.
- `ImportsPublished`, `RestartsEndTurns`, `StoreImplementsTurns`: `ImportsPublishWhole`,
  `NoTurnSurvivesRestart` and the refinement `ImplementsTurns`, under `RemovalFails = FALSE`
  and `ExportedDocuments`.

`ExportedDocuments` says that what is imported was written by an export: ids are distinct and
each row was admissible after the rows before it. `import_events` (`sessions.rs:831-891`)
checks kinds and sizes of rows and not their order, so a document edited by hand is published
with the turns it has; nothing in the code promises more. The documents of the runs of
`Sessions` satisfy it.

The argument. For exports: the rows a reader can be shown only grow until the conversation is
deleted, so pages read under an unchanged revision are pages of one journal, and the client
throws its pages away when the revision moved. For imports, `Whole` says of a cursor that the
staged journal holds the rows of its document up to there, and of every published journal that its
turns are apart, and, if it was imported, that it was complete when it was published. For restarts,
`Repairing` says that `open` writes nothing but ends of turns, and that a journal whose turn is
still open is one it has yet to reach, or the one it is writing. For the refinement each step of the store is a
step of the abstract lifecycle or a stutter: the step that matters is again `CompleteAppend`,
and `FinishOpen`, where the ends written by recovery become visible together.

`ThreadsProofs` proves, for every value of the constants and without further assumptions:

- `ThreadsTypeCorrect`: `Spec => []TypeOK`.
- `RequestsAreNotReplayed`: `Spec => []NoReplay`, and `SubmittedStaysRecorded`:
  `Spec => []SubmittedIsRecorded`, for any number of segments, handlers, requests and crashes.
- `ReceiptsMatch`: `Spec => []ReceiptsMatchResults`.

The argument. `TypeOK` needs `Bindings`: a segment that is live while the journal is live has
a binding with a name, because bindings are dropped only behind the tombstone (`removing.at`
is not "no" only when the journal is not live); otherwise a handler could begin a turn
under the role of a binding that is gone. `NoReplay` needs `Attempts`, which says per handler
what it may rely on at its step: one handler per request; from looking for the receipt to
the input row nobody gave the request to the kernel, unless the conversation was deleted; at
"accepted" the input and the receipt are on disk. The step that matters is `Record`: a
request whose receipt a deletion removed would look fresh to `Admit`, and is stopped only
because its input row cannot be appended to a deleted journal. `JournalKept` (a live
journal was live before and kept its rows) carries that through every step of the other
actors. `ReceiptsMatch` follows the result row from the moment it is written until the receipt
is: the handler between the two carries the status it wrote, and recovery reads it back.

`DesktopProofs` proves, of `HarnessClient` and for any number of requests, processes and user turns, from
`BoundsAreNumbers` alone:

- `ClientIsSafe`: the invariant `Safe` below.
- `OneModelTurnHolds`: `ClientSpec => []OneModelTurn`, and `CancelledIsNotSubmittedHolds`:
  `ClientSpec => CancelledIsNotSubmitted`.

The argument. `Safe` has four parts: `Typed`; `OneCall`, a session that runs has exactly one
request out; `Phases`, the native side has not received that request before it was sent and does
not run it once the session heard its end; `TurnsApart`, receipts that run lie in different
user turns. A request whose answer was lost keeps its place in the turn, and
the session may only ask for its status until it is settled. `CancelledIsNotSubmitted` holds
because the flag is read again after the thread was opened, in the step that would submit.

`WebviewProofs` proves, about `Panels`, `ConversationView` and `ChatProjection`:

- `PanelsAlwaysAgree`: `PanelsSpec => []PanelsAgree`, in whatever order answers arrive.
- `SettledViewsAreJournals`: `ViewSpec => []SettledViewIsJournal`, for any number of
  conversations, processes and pages, from `TalksAreNamed` and `PagesAreCounted`.
- `CompletedAlwaysHasItsRecords`: `ViewSpec => []CompletedHasItsRecords`, from the same.
- `EndedTurnsAlwaysRest`: `ChatSpec => []EndedTurnsRest`, for journals of any length.
- `TextIsAlwaysShownOnce`: `ChatSpec => []TextIsShownOnce`, for journals of any length and any
  streams, with the exception named in section 3 (`BeginsMidway`), from `SourcesAssumption` (the id of a stream is a sequence of numbers, which the
  code joins with colons) and `JournalAssumption`.

The arguments. `PanelsSound` says that a request whose answer may still take effect asked for
what is shown now (the counters outdate the others), that panels which are shown together
were loaded together (`Together`), and that the text in the editor belongs to its path or is
about to be replaced (`EditorSound`). `ViewSound` ties the snapshot to the journal although
notifications arrive in any order with the pages: no row is missing without being on a page
to come, in the buffer or announced (`Covered`, `LoadSound`, `LastPage`); the active turn is
that of the last mark among the rows shown (`Current`), which needs that marks arrive in
the order of the journal (`NewsComeLast`, `EndsFollow`, `BeginsAreAwaited`). `RecordsSound`
says that the records of a turn are 1, 2, ..., n in the order the engine reported them, where
n is what the run counted as stored, and that a run completes only once that is all it
reported. `ChatSound` says that the open turn is the last that began and has one card, the one
its events go to, so that resting this card at the end rests the turn.

For the texts, the first half of `WebviewProofs` on the chat proves what a list of texts says
when it is joined: it grows by what is added at its end (`SaidLonger`) or to one of its
members after which nothing is said (`SaidMore`). The induction over its length, which the
library's theorems cannot give here, is done by hand, from the least length at which the claim
would fail. So the rows of a card say what its timeline says (`RowsSay`), although tools that
follow each other share a row. A segment that begins takes an id no segment has
(`SegmentIsNew`): there are fewer segments than events, so one of the numbers that are tried
is free; that is what keeps a piece out of another stream's segment. `ChatTells` adds to
`ChatSound` that each card says what was heard in its turn, that the message an answer goes to
is the last of its turn (`AnswersLast`; a question in between begins another), and that
without a result the answer is what was streamed.

The first attempt at `SettledViewsAreJournals` found the model wrong: two guards of a CASE in
`Notified` overlapped, and CASE may then take either branch, which TLC (it takes the first)
does not show. The guards are disjoint now.

It proves, of `Connections` and for any profiles and any number of operations, failures and
restarts of the native process, from `ProfilesAssumption` (no profile is called like none) and
`OpsAssumption`:

- `ConnectionStaysCurrent`: `ConnectionsSpec => []ConnectionIsCurrent`, and `LoginsStayOwned`:
  `ConnectionsSpec => []LoginsAreOwned`, both from `ConnectionsInvariant`.

The argument. What makes a connection stale is a change of credentials, and the client either
made that change and raised the revision, or has an answer on its way that will
(`Awaited`). So the connection, and the one answer of the current revision that may still
replace it, are of the credentials as they are, or a refresh is bound to follow (`Conn`,
`Backed`, `Holds`); answers of older revisions only end. For logins, every attempt that
waits in the native side has an owner (`Log`, `Owner`): the account that shows it, or the answer
of a call that will show or cancel it (`Hands`). An outage rejects every task in one step, which
the model writes as a fold over the tasks: by the least task at which a property of the fold
fails, what rejecting one task keeps is kept by rejecting all.

And it proves, of `Workspace` and for any folders, any number of canvases, conversations, commands,
edits, failing calls and restarts, from `FoldersAssumption`, `CanvasesAssumption` and
`CommandsAssumption` (ids are numbers given in order):

- `EditsAreKept`: `WorkspaceSpec => []EditsSurvive`, and `WorkspaceStaysWhole`:
  `WorkspaceSpec => []WorkspaceIsWhole`, both from `WorkspaceInvariant`, with imports beside any
  command.

The argument. The calls of the model work on one record, `Now`, so that lemmas about a call are
about two records. `Sound` says that each picture is on the screen or in its file, and that a
file holds the scene of its own canvas. A transition of the workspace is a chain of calls with
an await between each two, and autosaves, the pen and requests may run at every await: `Parked`
says per await what the rest of the chain relies on (`AtSceneKept`, `AtSceneRead`, ...), and
`Beside` that whatever runs meanwhile keeps it. The conjunct that matters is `Kept` in
`AtSceneRead`: the scene that is about to replace the one on screen is as new as what was drawn,
which holds because the canvas that leaves the screen was saved before the read began. What
counts as drawn is what was drawn between commands and, after a restart, what is in the files:
a stroke made while a switch is under way may be lost, and no theorem says otherwise. An import
takes no lock, so nothing it does may be excluded: it writes the screen of the canvas that is active
and the list of conversations it read, which `Beside` allows a parked transition to meet, and
`Importing` says what that list is worth as long as no transition crossed it (`Waiting`,
`Undisturbed`); what is on the screen it counts as drawn only if the user was not switching. `Settled` is what `WorkspaceIsWhole` needs between
commands, and is claimed only while no call failed (`Fine`). The lists of conversations and
canvases are cut with `Without`, which removes the first place of an id, as `splice` does; that
an id is in a list once is not needed for these theorems.

`CanvasProofs` proves, of `CanvasWorkflow` and for any scene, any answers of the model, any limits of
iterations and sends, and any cancellation and edits of the user:

- `SoundHolds`: the invariant `Sound` below, and from it `TypeOKHolds`,
  `CallsAreAnsweredOnce`, `ReviewsStayInScope`, `ReportsAreSaved`, `FrozenAlwaysStayPut`,
  `MessagesAreDeliveredOnce`: the invariants of the runs of that module.
- `CancellationHolds`: `Spec => NothingAfterCancel`, and `PlansAreMaterialized`:
  `Spec => PlanIsMaterialized`.

The assumptions: `AnswersAreTyped`, calls of a turn are what the schemas of the tools parse;
`IdsAreFinite`, since the model bounds the ids that can be minted; `IterationsArePositive`,
`SendsAreCounted`, `NothingIsNoKey`. The argument. `Sound` is a conjunction of what each part of the
request may assume at each await: what is on the canvas and in the references (`OnCanvas`,
`RefsReported`), how far a batch got in its two stages (`Staged`), that the last answer is the
only one with calls that have no result yet (`Answering`), what the delivery cursor stands
for (`Delivering`), what was saved, frozen, and may be reviewed (`Saving`, `Freezing`,
`Reviewing`), and that a cancellation was heard by whatever runs (`CancelHeard`). None of the
properties is inductive without the phase the request is in (`Phases`).

`LayoutProofs` proves, of `CanvasLayout` and the modules it stands on, for any scenes, any number
of batches of any operations and any declared structure:

- `VacantPlaceIsClear`: the place that `findVacantRect` returns is clear of every obstacle.
- `LayoutInvariantHolds`: the invariant `LayoutInvariant` below, and from it
  `RepairsKeepComposition`: `LayoutSpec => []RepairKeepsComposition`.
- `RoutesAlwaysHold`: `LayoutSpec => []RoutesHold`, from the invariant `RoutesKnown` beside
  `LayoutInvariant`.

The assumption is `LayoutAssumption`: a page has finitely many shapes, each at a whole pixel and
with a positive extent, and shapes are created with one; margins are natural numbers, and relations
are what `StructureRelation` parses (a grid has columns). The tools (`tools.ts:38`) take any number
for a width or height; a shape without extent, or a negative one, is outside these theorems.

The argument for a vacant place. The code falls back to the place the region has when no
candidate is clear. That never happens: beside the obstacle that reaches farthest to the right,
at the row of the region, there is a candidate that nothing hits (`SomeCandidateIsClear`). The
farthest exists because a finite set of integers has a greatest member (`GreatestOf`, by the
smallest counterexample), and a cheapest candidate exists because scores are natural numbers.

The argument for repairs. `LayoutInvariant` says that the scene is one of shapes and of arrows
that have labels with a size (`SceneIsShaped`), that the composition captured before the first
pass is kept by what is on the canvas now (`CompositionIsKept`), and which shapes a batch made
and moved (`BatchType`). Each pass gives `protectLayoutMoves` the moves it wants, and that
function makes all of them or none. Three of its promises are tests there (`MoveIssues`): order
and containers against what was captured before the *first* pass, overlaps against the shapes of
this pass; the inductive step is that both tests together still speak of the first pass after the
second (`ProtectedKeeps`). The fourth, that a row or a column moves as one, is tested nowhere and
not true in general (`composition`). It holds when the last pass of each repair changed nothing,
since such a pass has looked at every group. And it holds when there are no containers:
take the shapes that move by more than some number, upwards or downwards (a level). From pass to pass
a level only grows, and a pass that leaves it as it is leaves it so for good, because what the
next pass does to a level depends on that level alone. So a level stops after as many passes as
there are shapes, and the pass after that changes nothing (`Settles`, `SpreadIsEven`). Containers break
that: which of them pull their content depends on who moves at all when the pass begins.
What is left is that the passes compute numbers from numbers:
each is a fold over the shapes of a page (boxes pushed apart, layers of the automatic layout,
spacing of flows, arrows drawn and routed again), written with `Through`, a recursive function
whose values `Stepwise` describes once for any step; an invariant of a step is so one of the pass
(`OperateIsLaid`, `SpacingTyped`, `OverlapsTyped`).

The argument for routes. `RoutesHold` speaks of the time between batches only, so `RoutesKnown`
says of the middle of one what the batch still remembers (`Known`): a shape that is not new is the
one from before, of the same size, and where it was unless it is listed as moved; an arrow that is
not new ran well among the shapes from before, and none of the new shapes is an end of it. Every
operation and every pass keeps that (`Changes`, `MovesAreKnown`). When the routes are made there
are two kinds of arrows. One that `routeNeedsUpdate` leaves alone has its ends where they were, and
whatever stands in its way now stood there before or was created or moved, and is not hit
(`StayRunsWell`); its clearance from moved shapes is tested and from the others is inherited. One
that is routed gets new ends: `solveEndpoint` answers with a point of the grown outline, or of the
shape (`EndpointsAre`), although it divides and rounds at each step, because the quotients are
bounded by the side they divide; and an arrow that follows its shapes keeps ends at the same
distance (`ReanchorRuns`). Each path that the router tries begins and ends there, whatever is
inserted, straightened or detoured in between (`Leads`), and the one it chooses has passed
`pathHitsBoxes` against every shape in question, or is reported (`PlannedIsGood`). Ids are minted:
`Materialize` takes no id that a shape or an arrow still names (`Ends`), as `newId` draws them at
random (`excalidrawPort.ts:113`); an arrow whose shape was deleted would otherwise come to hang
on a new one.

Only model-checked, and why:

- the liveness properties (`StoppedTurnsEnd`, `RequestsSettle`, `RunSettles`, `SendEnds`):
  TLAPS does not prove liveness under fairness;
- `PlacedIsClear` (`CanvasLayout`): that a place `findVacantRect` returns is clear is proved
  (`VacantPlaceIsClear`). That what is put there is still clear when the batch has been applied
  is not: it needs an invariant over the operations of a batch, of which later ones may move what
  stands in the way of earlier ones. That shapes laid out together are apart needs one of the sums of widths and
  heights that `autoLayout` runs through its layers and components.

## 5. Not modelled

- *Interactions and execution policy* (`kernel.rs:780`, `execution.rs`): approvals and questions
  of a running request, and the tools it may use. *Credentials*: refresh of a rotating token,
  encryption, headers. *Supervisor*: its queues, stop and exit. *Frame loop* of `server.rs` with
  its queue of 64 frames and its limit of 32 requests. These have hazards, listed in
  `PROJECT.json` without a property.
- *Providers and the model directory*: formats, HTTP and caching. *Native workspace I/O*: file,
  git and dialog commands, each a single call.
- Of modelled parts: a second I/O error while a failed write is cut back
  (`sessions.rs:1008`); images saved without the mutex (`sessions.rs:525`); the timeout of a
  single page read, which fails like its process (`ConversationView`); a list of conversations
  that arrives after a rename (`useWorkspace.ts:196`); prompts, wording and JSON schemas;
  export and import paging of the client.
- Steps that are one in the models and several in the code, where nothing that is said of them
  depends on what falls in between: the two times `begin` takes the mutex
  (`sessions.rs:298-322`, `:323`); the cancelled flag and the submission (`kernel.rs:542`,
  `:612`), so that a request which is cancelled in between counts as submitted; the loop over the
  segments of a deleted conversation (`kernel.rs:918-955`); an append and its notification
  (`sessions.rs:469-470`), whose order is lost on the `wire` of `ConversationView` instead; a render and
  its effects (`GitPanel.tsx:44-47`), which skips the one frame that shows the old diff under the new
  selection; a malformed line of the native process, which disconnects (`client.ts:79`) and is
  an end of the process.
- Failures that are not modelled: images of imported rows (`sessions.rs:867-869`); receipts and the
  state file (`server.rs:451`, `:484`, `:499`), where an error leaves what a crash before the
  write leaves, but the process goes on. A request id that is sent again, on another segment, while
  the first handler of it has not yet recorded anything (`server.rs:376`): the append of the input
  row refuses one of the two.
- Of layout: an arrow that is routed again because its label changed (`excalidrawPort.ts:741`),
  measuring text, fonts, rendering, ellipses and diamonds as ends of arrows,
  rotation, and `normalizeSpacing`, which only tests call.
- `App.tsx` and the other components beyond the import and the guards of commands: they
  render.

## 6. Plan

Machines that share no state share a run (`sessions_journal`, `harness`, `frontend`).

1. `Journal`, `Sessions`, `TurnLifecycle` and their proofs. Done.
2. `Threads`. Done, with the proofs above.
3. `HarnessClient`, `ConversationView`, `Connections`, `Workspace`, `Panels`. Done.
4. `CanvasScene`, `CanvasWorkflow`; the layout modules; `ChatProjection`. Done.
5. Proofs. Done for `Sessions` with its refinement, `Threads`, `HarnessClient`,
   `CanvasWorkflow`, `ConversationView`, `Connections`, `Workspace`, `Panels`,
   `ChatProjection`, the repairs and the routes of `CanvasLayout`. Left: what a batch places,
   as a whole.
6. `Interactions` (an answer reaches the kernel at most once and only for the request that
   asked), `Credentials` (headers are given out only for the current version), `Supervisor`:
   when a run can be shared, as `frontend` does.
