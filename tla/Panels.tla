------------------------------- MODULE Panels -------------------------------
(***************************************************************************)
(* The panels beside the canvas: the changes and the diff of GitPanel, the *)
(* tree of FilePanel and the text of FloatingEditor.  Each reads from the  *)
(* native side in an effect and drops the answer once the effect was       *)
(* cleaned up (`alive`); answers come in any order.                        *)
(***************************************************************************)
EXTENDS Naturals, FiniteSets

CONSTANTS
  Roots,        \* folders of projects
  Paths,        \* files, the same names in every folder
  MaxActs,      \* bound: what the user does
  MaxTyped      \* bound: edits of texts

Unread == "unread"
NoPath == "no path"
NoText == [of |-> NoPath, edit |-> 0]

VARIABLES
  panel,   \* folder, status (its folder and changed files), selected, diff, listing, loading flags
  asked,   \* requests of the panels on their way, whether their effect still lives
  editor,  \* FloatingEditor: path, text, dirty, saving
  texts,   \* the files on disk: whose text, and which edit of it
  acts     \* what the bounds count

panelVars == <<panel, asked, editor, texts, acts>>

NoStatus == [folder |-> Unread, files |-> {}]
PanelsInit ==
  /\ panel = [folder |-> Unread, status |-> NoStatus, selected |-> NoPath, diff |-> <<Unread, NoPath>>,
              listing |-> Unread, loading |-> FALSE, diffLoading |-> FALSE]
  /\ asked = {}
  /\ editor = [path |-> NoPath, text |-> NoText, dirty |-> FALSE, saving |-> NoPath]
  /\ texts = [f \in Paths |-> [of |-> f, edit |-> 0]]
  /\ acts = [user |-> 0, typed |-> 0]

Asking(what, folder, path) == [what |-> what, folder |-> folder, path |-> path, alive |-> TRUE]
\* The cleanup of the effects of these kinds.
CleanedUp(requests, kinds) == {[r EXCEPT !.alive = @ /\ r.what \notin kinds] : r \in requests}

Acts == acts.user < MaxActs /\ acts' = [acts EXCEPT !.user = @ + 1]

\* The effect on [folder, selected].
DiffEffect(p, requests) ==
  LET idle == CleanedUp(requests, {"diff"})
  IN IF p.selected = NoPath THEN [panel |-> [p EXCEPT !.diff = <<Unread, NoPath>>], asked |-> idle]
     ELSE [panel |-> [p EXCEPT !.diffLoading = TRUE], asked |-> idle \cup {Asking("diff", p.folder, p.selected)}]
Commit(p, requests) ==
  LET next == IF p.folder # panel.folder \/ p.selected # panel.selected THEN DiffEffect(p, requests)
              ELSE [panel |-> p, asked |-> requests]
  IN panel' = next.panel /\ asked' = next.asked

-----------------------------------------------------------------------------
(* GitPanel and FilePanel.                                                 *)

FolderOpens ==
  /\ Acts
  /\ \E f \in Roots \ {panel.folder} :
       Commit([panel EXCEPT !.folder = f, !.loading = TRUE, !.listing = Unread],
              CleanedUp(asked, {"status", "list"}) \cup {Asking("status", f, NoPath), Asking("list", f, NoPath)})
  /\ UNCHANGED <<editor, texts>>

Refreshes ==
  /\ Acts /\ panel.folder # Unread
  /\ Commit([panel EXCEPT !.loading = TRUE],
            CleanedUp(asked, {"status"}) \cup {Asking("status", panel.folder, NoPath)})
  /\ UNCHANGED <<editor, texts>>

Selects ==
  /\ Acts /\ ~panel.loading
  /\ \E f \in panel.status.files \ {panel.selected} : Commit([panel EXCEPT !.selected = f], asked)
  /\ UNCHANGED <<editor, texts>>

\* git_status and git_graph: the selection stays if its file is still changed.
StatusArrives(r) ==
  /\ r.what = "status"
  /\ \E files \in SUBSET Paths, failed \in BOOLEAN :
     \E rest \in {asked \ {r}} :
       /\ failed => files = {}
       /\ Commit(IF ~r.alive THEN panel
                 ELSE [panel EXCEPT !.loading = FALSE,
                         !.status = IF failed THEN NoStatus ELSE [folder |-> r.folder, files |-> files],
                         !.selected = IF @ \in files THEN @ ELSE IF files = {} THEN NoPath
                                      ELSE CHOOSE f \in files : TRUE],
                 rest)
\* Mutant: an answer is shown although its effect was cleaned up.
DiffArrivesLate(r) ==
  /\ r.what = "diff"
  /\ Commit([panel EXCEPT !.diff = <<r.folder, r.path>>, !.diffLoading = FALSE], asked \ {r})
DiffArrives(r) ==
  /\ r.what = "diff"
  /\ Commit(IF ~r.alive THEN panel
            ELSE [panel EXCEPT !.diff = <<r.folder, r.path>>, !.diffLoading = FALSE], asked \ {r})
ListArrives(r) ==
  /\ r.what = "list"
  /\ Commit(IF r.alive THEN [panel EXCEPT !.listing = r.folder] ELSE panel, asked \ {r})
Arrives == (\E r \in asked : StatusArrives(r) \/ DiffArrives(r) \/ ListArrives(r)) /\ UNCHANGED <<editor, texts, acts>>

-----------------------------------------------------------------------------
(* FloatingEditor.                                                         *)

OpensFile ==
  /\ Acts
  /\ \E f \in Paths \ {editor.path} :
       /\ editor' = [editor EXCEPT !.path = f, !.text = NoText, !.dirty = FALSE]
       /\ asked' = CleanedUp(asked, {"read"}) \cup {Asking("read", Unread, f)}
  /\ UNCHANGED <<panel, texts>>
ClosesFile ==
  /\ Acts /\ editor.path # NoPath
  /\ editor' = [path |-> NoPath, text |-> NoText, dirty |-> FALSE, saving |-> NoPath]
  /\ asked' = CleanedUp(asked, {"read"})
  /\ UNCHANGED <<panel, texts>>
TextArrives ==
  /\ \E r \in asked :
       /\ r.what = "read" /\ asked' = asked \ {r}
       /\ editor' = IF r.alive THEN [editor EXCEPT !.text = texts[r.path]] ELSE editor
  /\ UNCHANGED <<panel, texts, acts>>
Types ==
  /\ editor.text # NoText /\ acts.typed < MaxTyped
  /\ acts' = [acts EXCEPT !.typed = @ + 1]
  /\ editor' = [editor EXCEPT !.text.edit = acts.typed + 1, !.dirty = TRUE]
  /\ UNCHANGED <<panel, asked, texts>>
\* The file is written when save is called; Ctrl+S saves whether dirty or not.
Saves ==
  /\ Acts /\ editor.text # NoText
  /\ texts' = [texts EXCEPT ![editor.path] = editor.text]
  /\ editor' = [editor EXCEPT !.saving = editor.path]
  /\ UNCHANGED <<panel, asked>>
Saved ==
  /\ editor.saving # NoPath
  /\ editor' = [editor EXCEPT !.saving = NoPath, !.dirty = FALSE]
  /\ UNCHANGED <<panel, asked, texts, acts>>

PanelsNext ==
  \/ FolderOpens \/ Refreshes \/ Selects \/ Arrives
  \/ OpensFile \/ ClosesFile \/ TextArrives \/ Types \/ Saves \/ Saved
PanelsSpec == PanelsInit /\ [][PanelsNext]_panelVars

-----------------------------------------------------------------------------
(* Properties.                                                             *)

\* What a panel shows when it shows no loading belongs together: the changes and the tree
\* are of the open folder, the diff is of the selected file in it, and that is one of the
\* changed files.  The editor never saves the text of one file over another, although the
\* user opens the next one before the first was read.
PanelsAgree ==
  /\ panel.listing \in {Unread, panel.folder}
  /\ ~panel.loading => panel.status.folder \in {Unread, panel.folder} /\ panel.selected \in panel.status.files \cup {NoPath}
  /\ ~panel.diffLoading /\ panel.selected # NoPath => panel.diff = <<panel.folder, panel.selected>>
  /\ \A f \in Paths : texts[f].of = f
=============================================================================
