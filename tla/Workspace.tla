----------------------------- MODULE Workspace -----------------------------
(***************************************************************************)
(* useWorkspace (src/workspace/useWorkspace.ts) with its store (store.ts)  *)
(* and the callers in App.tsx: the open project, its canvases and          *)
(* conversations, what is on screen and what is in the files.              *)
(*                                                                         *)
(* One transition runs at a time (changingRef), and none during a request. *)
(* It is parked at its await in `op`; the call it awaits took effect when  *)
(* it was made, because the file commands of the desktop shell run in the  *)
(* order they are invoked and replace a file in one rename.  Beside it run *)
(* the automatic saves, renames, the user's pen and the import of a file,  *)
(* which asks for no lock: commands are given while it goes on.            *)
(*                                                                         *)
(* A scene is the canvas it was put on screen for, its last edit, and the  *)
(* canvas it was meant for.                                                *)
(***************************************************************************)
EXTENDS Naturals, SequencesExt

CONSTANTS
  Folders,        \* folders of projects; OldFolder was used by an older version
  OldFolder,
  OldCanvases,    \* the canvases of that project, a sequence of canvas ids
  MaxCanvas,      \* bound: canvas ids
  MaxCommands,    \* bound: commands of the user
  MaxEdits,       \* bound: edits of scenes; and one file is imported at a time
  MaxBreaks       \* bound: calls that fail, and restarts of the program

CanvasIds == 1..MaxCanvas
TalkIds   == 0..MaxCommands + 1   \* conversations; 0 is the one of the older version
Nowhere   == "nowhere"
NoCanvas  == 0
NoScene   == [of |-> NoCanvas, edit |-> 0, meant |-> NoCanvas]
Blank(c)  == [of |-> c, edit |-> 0, meant |-> c]
NoOp      == [kind |-> "none", at |-> "none", ok |-> TRUE, target |-> 0, place |-> 0, folder |-> Nowhere, scene |-> NoScene]
Unselected == MaxCommands + 2     \* activeSessRef.current = null

\* No folder is called like none; ids are given in the order of the canvases.
ASSUME FoldersAssumption == Nowhere \notin Folders
ASSUME CanvasesAssumption ==
  /\ MaxCanvas \in Nat /\ OldCanvases \in Seq(CanvasIds)
  /\ \A i \in DOMAIN OldCanvases : OldCanvases[i] = i
ASSUME CommandsAssumption == MaxCommands \in Nat

VARIABLES
  store,   \* files: metas (project.json), scenes; and the conversations in the harness
  project, \* projIdRef, metaRef.canvases, sessionsRef, activeSessRef, activeCanvasRef
  screen,  \* the scene in the editor
  op,      \* the transition under way
  saving,  \* persistActive outside transitions: "none", "scene" or "meta" is due
  import,  \* App.onLoad: where it is parked, the canvas it was started on, what it listed,
           \* and whether one went on beside a transition since the folder was opened
  busy,    \* busyRef or activeTurnId
  usage    \* what the bounds count, the ids given, and what the user drew

workspaceVars == <<store, project, screen, op, saving, import, busy, usage>>

Closed == [folder |-> Nowhere, canvases |-> <<>>, talks |-> <<>>, talk |-> Unselected, canvas |-> NoCanvas]
Idling ==
  [at |-> "none", ok |-> TRUE, canvas |-> NoCanvas, talk |-> Unselected, listed |-> <<>>, crossed |-> FALSE]

WorkspaceInit ==
  /\ store = [metas |-> [f \in Folders |-> IF f = OldFolder THEN [version |-> 1, canvases |-> OldCanvases]
                                           ELSE [version |-> 0, canvases |-> <<>>]],
              scenes |-> [c \in CanvasIds |-> NoScene],
              talks |-> [f \in Folders |-> <<>>], deleted |-> {}]
  /\ project = Closed /\ screen = NoScene /\ op = NoOp /\ saving = "none" /\ import = Idling /\ busy = FALSE
  /\ usage = [commands |-> 0, edits |-> 0, breaks |-> 0, canvases |-> Len(OldCanvases), talks |-> 0,
              drawn |-> [c \in CanvasIds |-> 0]]

-----------------------------------------------------------------------------
(* Calls.  s holds the variables a transition changes; ok is the outcome of *)
(* the call it makes next.                                                  *)

Now == [store |-> store, project |-> project, screen |-> screen, op |-> op, saving |-> saving, usage |-> usage]
Await(s, at, ok) == [s EXCEPT !.op.at = at, !.op.ok = ok]
EndOp(s) == [s EXCEPT !.op = NoOp]

\* persistActiveCanvas and persistMeta.
SceneSaved(s, ok) ==
  IF s.project.canvas = NoCanvas \/ ~ok THEN s ELSE [s EXCEPT !.store.scenes[s.project.canvas] = s.screen]
MetaSaved(s, ok) ==
  IF s.project.folder = Nowhere \/ ~ok THEN s
  ELSE [s EXCEPT !.store.metas[s.project.folder] = [version |-> 2, canvases |-> s.project.canvases]]
\* Mutant: a failed save of the scene is passed over.
KeepSceneAnyhow(s, ok) == Await(SceneSaved(s, ok), "scene kept", TRUE)
KeepScene(s, ok) == Await(SceneSaved(s, ok), "scene kept", ok \/ s.project.canvas = NoCanvas)
KeepMeta(s, ok)  == Await(MetaSaved(s, ok), "meta kept", ok \/ s.project.folder = Nowhere)

\* activateCanvas up to its await, and after it.
Load(s, c, ok) ==
  Await([s EXCEPT !.op.place = c, !.op.scene = IF s.store.scenes[c] = NoScene THEN Blank(c)
                                               ELSE s.store.scenes[c]], "scene read", ok)
Show(s) == [s EXCEPT !.screen = s.op.scene, !.project.canvas = s.op.place]

\* newCanvas after its save.
AddCanvas(s, ok) ==
  LET c == s.usage.canvases + 1
  IN Load([s EXCEPT !.usage.canvases = c, !.project.canvases = Append(@, c)], c, ok)

\* activateSession; conversations.create.
Activate(s, t, ok) == Await([s EXCEPT !.op.place = t], "talk selected", ok)
CreateTalk(s, ok) ==
  LET t == s.usage.talks + 1
  IN Await(IF ok THEN [s EXCEPT !.usage.talks = t, !.op.place = t, !.store.talks[s.project.folder] = Append(@, t)]
           ELSE s, "talk created", ok)

Remaining(seq, place) == seq[IF place <= Len(seq) THEN place ELSE Len(seq)]
IndexIn(seq, x) == CHOOSE i \in DOMAIN seq : seq[i] = x
\* splice at the place of the id; a list holds an id once.
Without(seq, x) == IF x \in Range(seq) THEN RemoveAt(seq, IndexIn(seq, x)) ELSE seq

-----------------------------------------------------------------------------
(* The transition goes on.                                                 *)

\* openProject's record; one of an older version is migrated before it is used.
Opened(s, ok) ==
  LET f == s.op.folder
  IN Await(IF s.store.metas[f].version = 2 \/ ~ok THEN s
           ELSE [s EXCEPT !.store.talks[f] = IF f = OldFolder /\ 0 \notin Range(@) \cup s.store.deleted
                                               THEN Append(@, 0) ELSE @],
           "migrated", ok)
Migrated(s, ok) == Await(IF ok THEN [s EXCEPT !.store.metas[s.op.folder].version = 2] ELSE s, "listed", ok)

\* The references switch to the project; its first conversation is made or selected.
Listed(s, ok) ==
  LET f == s.op.folder
      switched == [s EXCEPT !.project = [folder |-> f, canvases |-> s.store.metas[f].canvases,
                                         talks |-> s.store.talks[f], talk |-> Unselected, canvas |-> NoCanvas]]
  IN IF s.store.talks[f] = <<>> THEN CreateTalk(switched, ok) ELSE Activate(switched, s.store.talks[f][1], ok)

\* deleteSession after the conversation is gone.
TalkDeleted(s, ok) ==
  LET listed == [s EXCEPT !.project.talks = s.store.talks[s.project.folder]]
      left   == [listed EXCEPT !.project.talk = Unselected]
  IN IF s.project.talk # s.op.target THEN KeepMeta(listed, ok)
     ELSE IF left.project.talks = <<>> THEN CreateTalk(left, ok)
     ELSE Activate(left, Remaining(left.project.talks, s.op.place), ok)

TalkSelected(s, ok) ==
  LET selected == [s EXCEPT !.project.talk = s.op.place, !.saving = "scene"]
  IN CASE s.op.kind = "delete talk" -> KeepMeta(selected, ok)
       [] s.op.kind = "open" -> IF s.project.canvases = <<>> THEN AddCanvas(selected, ok)
                                ELSE Load(selected, s.project.canvases[1], ok)
       [] OTHER -> EndOp(selected)

SceneKept(s, ok) ==
  CASE s.op.kind = "select canvas" -> Load(s, s.op.target, ok)
    [] s.op.kind = "new canvas"    -> AddCanvas(s, ok)
    [] s.op.kind = "open"          -> KeepMeta(s, ok)

\* Mutant: a canvas made while a folder is opened is not recorded.
SceneReadForgets(s, ok) ==
  IF s.op.kind \in {"new canvas", "delete canvas"} THEN KeepMeta(Show(s), ok) ELSE EndOp(Show(s))

\* The canvas is on screen; a new one, and the deletion of another, go on to project.json.
SceneRead(s, ok) ==
  LET c == s.op.place
      added == s.op.kind = "open" /\ s.store.metas[s.project.folder].canvases = <<>>
  IN IF s.op.kind \in {"new canvas", "delete canvas"} \/ added THEN KeepMeta(Show(s), ok) ELSE EndOp(Show(s))

MetaKept(s, ok) ==
  CASE s.op.kind = "open" /\ s.op.place = 0 -> Await(s, "opened", ok)
    [] s.op.kind = "delete canvas" ->
         Await(IF ok THEN [s EXCEPT !.store.scenes[s.op.target] = NoScene] ELSE s, "removed", ok)
    [] s.op.kind = "delete talk" -> Await(s, "removed", ok)
    [] OTHER -> EndOp(s)

Resume(s, ok) ==
  IF ~s.op.ok THEN EndOp(s)
  ELSE CASE s.op.at = "scene kept"    -> SceneKept(s, ok)
         [] s.op.at = "scene read"    -> SceneRead(s, ok)
         [] s.op.at = "meta kept"     -> MetaKept(s, ok)
         [] s.op.at = "opened"        -> Opened(s, ok)
         [] s.op.at = "migrated"      -> Migrated(s, ok)
         [] s.op.at = "listed"        -> Listed(s, ok)
         [] s.op.at = "talk deleted"  -> TalkDeleted(s, ok)
         [] s.op.at = "talk created"  -> Activate([s EXCEPT !.project.talks = s.store.talks[s.project.folder]],
                                                  s.op.place, ok)
         [] s.op.at = "talk selected" -> TalkSelected(s, ok)
         [] s.op.at = "removed"       -> EndOp(s)

Becomes(s) ==
  /\ store' = s.store /\ project' = s.project /\ screen' = s.screen /\ op' = s.op /\ saving' = s.saving
  /\ usage' = s.usage

\* A call that fails counts against the bound.
Broken(s, ok) == IF ok THEN s ELSE [s EXCEPT !.usage.breaks = @ + 1]
Calls(S(_, _)) == \E ok \in BOOLEAN :
  /\ ok \/ usage.breaks < MaxBreaks
  /\ \E now \in {Broken(Now, ok)} : \E s \in {S(now, ok)} : Becomes(s)

TransitionContinues ==
  /\ op # NoOp /\ Calls(Resume) /\ UNCHANGED busy
  /\ import' = [import EXCEPT !.crossed = IF op.at = "listed" /\ op.ok THEN import.at # "none" ELSE @]

-----------------------------------------------------------------------------
(* The commands that begin a transition.                                   *)

Free == ~busy /\ op = NoOp /\ usage.commands < MaxCommands
Starting(s, kind, target) ==
  [s EXCEPT !.op = [NoOp EXCEPT !.kind = kind, !.target = target], !.usage.commands = @ + 1]
Begins1(kind, target, S(_, _)) ==
  /\ Calls(LAMBDA s, ok : S(Starting(s, kind, target), ok))
  /\ import' = [import EXCEPT !.crossed = @ \/ import.at # "none"] /\ UNCHANGED busy
OpenedProject == Free /\ project.folder # Nowhere

SelectCanvas == OpenedProject /\ \E c \in Range(project.canvases) \ {project.canvas} :
  Begins1("select canvas", c, KeepScene)
NewCanvas == OpenedProject /\ usage.canvases < MaxCanvas /\ Begins1("new canvas", 0, KeepScene)

\* The reference is cleared, so that the deleted canvas is not saved again.
CanvasDeleted(s, c, ok) ==
  LET place == IndexIn(s.project.canvases, c)
      less  == [s EXCEPT !.project.canvases = Without(@, c), !.usage.drawn[c] = 0]
      left  == [less EXCEPT !.project.canvas = NoCanvas]
  IN IF s.project.canvas # c THEN KeepMeta(less, ok)
     ELSE IF left.project.canvases = <<>> THEN AddCanvas(left, ok)
     ELSE Load(left, Remaining(left.project.canvases, place), ok)
DeleteCanvas == OpenedProject /\ \E c \in Range(project.canvases) :
  usage.canvases < MaxCanvas /\ Begins1("delete canvas", c, LAMBDA s, ok : CanvasDeleted(s, c, ok))

SelectSession == OpenedProject /\ \E t \in Range(project.talks) \ {project.talk} :
  Begins1("select talk", t, LAMBDA s, ok : Activate(s, t, ok))
NewSession == OpenedProject /\ Begins1("new talk", 0, CreateTalk)
TalkGone(s, t, ok) ==
  LET f    == s.project.folder
      gone == IF ok THEN [s EXCEPT !.store.talks[f] = Without(@, t), !.store.deleted = @ \cup {t}] ELSE s
  IN Await([gone EXCEPT !.op.place = IndexIn(s.project.talks, t)], "talk deleted", ok)
DeleteSession == OpenedProject /\ \E t \in Range(project.talks) :
  Begins1("delete talk", t, LAMBDA s, ok : TalkGone(s, t, ok))

OpenFolder == Free /\ \E f \in Folders :
  /\ usage.canvases < MaxCanvas
  /\ Begins1("open", 0, LAMBDA s, ok : KeepScene([s EXCEPT !.op.folder = f], ok))

-----------------------------------------------------------------------------
(* What runs beside the transitions.                                       *)

\* The user draws, and so does a request; only the workspace is locked by a transition.
Draw ==
  /\ usage.edits < MaxEdits /\ project.canvas # NoCanvas
  /\ screen' = [screen EXCEPT !.edit = usage.edits + 1]
  /\ usage' = [usage EXCEPT !.edits = @ + 1, !.drawn[project.canvas] = IF op = NoOp THEN usage.edits + 1 ELSE @]
  /\ UNCHANGED <<store, project, op, saving, import, busy>>

\* sendToEngine and its end; the engine saves before it reports, the app when it ended.
Send ==
  /\ Free /\ project.folder # Nowhere
  /\ busy' = TRUE /\ usage' = [usage EXCEPT !.commands = @ + 1]
  /\ UNCHANGED <<store, project, screen, op, saving, import>>
EngineSaves ==
  /\ busy /\ saving' \in {"none", "scene"} /\ busy' = (saving' = "none")
  /\ busy' \/ saving = "none"
  /\ UNCHANGED <<store, project, screen, op, import, usage>>
AutosaveScene ==
  /\ saving = "scene"
  /\ Calls(LAMBDA s, ok : [SceneSaved(s, ok) EXCEPT !.saving = IF ok THEN "meta" ELSE "none"])
  /\ UNCHANGED <<import, busy>>
AutosaveMeta ==
  /\ saving = "meta"
  /\ Calls(LAMBDA s, ok : [MetaSaved(s, ok) EXCEPT !.saving = "none"])
  /\ UNCHANGED <<import, busy>>

\* App.onLoad is no transition and asks for no lock once it has its file: the
\* conversation is imported, listed and selected, then what canvas is active by then is
\* replaced and saved.
ImportCalls(from, to, S(_, _)) ==
  /\ import.at = from /\ import.ok
  /\ \E ok \in BOOLEAN :
       /\ ok \/ usage.breaks < MaxBreaks
       /\ \E now \in {Broken(Now, ok)} : \E s \in {S(now, ok)} : Becomes(s)
       /\ import' = [to EXCEPT !.ok = ok]
  /\ UNCHANGED busy
TalkImported(s, t, ok) ==
  IF ok THEN [s EXCEPT !.store.talks[s.project.folder] = Append(@, t), !.usage.talks = t, !.usage.commands = @ + 1]
  ELSE [s EXCEPT !.usage.commands = @ + 1]
ImportBegins ==
  /\ OpenedProject /\ usage.edits < MaxEdits
  /\ \E t \in {usage.talks + 1} :
       ImportCalls("none", [import EXCEPT !.at = "imported", !.canvas = project.canvas, !.talk = t],
                   LAMBDA s, ok : TalkImported(s, t, ok))
ImportLists ==
  ImportCalls("imported", [import EXCEPT !.at = "listed",
                             !.listed = IF project.folder = Nowhere THEN <<>> ELSE store.talks[project.folder]],
              LAMBDA s, ok : s)
TalksShown(s, ok) == [s EXCEPT !.project.talks = import.listed]
ImportSelects == ImportCalls("listed", [import EXCEPT !.at = "selected"], TalksShown)
\* loadScene, and persistActive.
ImportShown(s) ==
  LET edit == s.usage.edits + 1
  IN [s EXCEPT !.project.talk = import.talk, !.usage.edits = edit,
               !.screen = [of |-> s.project.canvas, edit |-> edit, meant |-> import.canvas],
               !.usage.drawn = IF s.project.canvas = NoCanvas \/ s.op # NoOp THEN @
                               ELSE [@ EXCEPT ![s.project.canvas] = edit]]
ShownSaved(s, ok) == [SceneSaved(ImportShown(s), ok) EXCEPT !.saving = IF ok THEN "meta" ELSE "none"]
ImportEnds ==
  /\ import.at = "selected" /\ import.ok /\ Calls(ShownSaved)
  /\ import' = [Idling EXCEPT !.crossed = import.crossed] /\ UNCHANGED busy
ImportFails ==
  /\ ~import.ok /\ import' = [Idling EXCEPT !.crossed = import.crossed]
  /\ UNCHANGED <<store, project, screen, op, saving, busy, usage>>

\* The program ends and is started again: the files stay.
Restart ==
  /\ usage.breaks < MaxBreaks
  /\ project' = Closed /\ screen' = NoScene /\ op' = NoOp /\ saving' = "none" /\ import' = Idling /\ busy' = FALSE
  /\ usage' = [usage EXCEPT !.breaks = @ + 1, !.drawn = [c \in CanvasIds |-> store.scenes[c].edit]]
  /\ UNCHANGED store

WorkspaceNext ==
  \/ SelectCanvas \/ NewCanvas \/ DeleteCanvas \/ SelectSession \/ NewSession \/ DeleteSession \/ OpenFolder
  \/ TransitionContinues \/ Draw \/ Send \/ EngineSaves \/ AutosaveScene \/ AutosaveMeta
  \/ ImportBegins \/ ImportLists \/ ImportSelects \/ ImportEnds \/ ImportFails \/ Restart
WorkspaceSpec == WorkspaceInit /\ [][WorkspaceNext]_workspaceVars

-----------------------------------------------------------------------------
(* Properties.                                                             *)

\* What the user draws on a canvas while nothing is being switched is on the screen
\* or in the canvas's file, whatever is switched, fails or restarts afterwards, until the
\* user deletes that canvas or an imported file replaces what is on it; and the file of a
\* canvas holds nothing but what was on screen while it was the active one.
EditsSurvive ==
  \A c \in CanvasIds :
    /\ \/ store.scenes[c].edit >= usage.drawn[c]
       \/ project.canvas = c /\ screen.edit >= usage.drawn[c]
    /\ store.scenes[c] = NoScene \/ store.scenes[c].of = c

\* "A drawing surface (its scene is persisted separately, keyed by id)" (types.ts): the
\* file of a canvas holds what was drawn on it or loaded into it, not what the user loaded
\* into another one.
FilesHoldTheirCanvas == \A c \in CanvasIds : store.scenes[c].meant \in {NoCanvas, c}

\* Between commands of which none failed, the project on screen is the one in the files:
\* it shows a canvas of its list, and the list is that of project.json.  While no file is
\* imported, and unless one was beside a transition since the folder was opened, the list
\* of conversations is the one in the files too, and the selected one is of it.
WorkspaceIsWhole ==
  op = NoOp /\ usage.breaks = 0 /\ project.folder # Nowhere =>
    /\ project.canvas \in Range(project.canvases)
    /\ store.metas[project.folder] = [version |-> 2, canvases |-> project.canvases]
    /\ import.at = "none" /\ ~import.crossed =>
         project.talk \in Range(project.talks) /\ project.talks = store.talks[project.folder]
=============================================================================
