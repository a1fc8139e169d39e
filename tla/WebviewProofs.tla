---------------------------- MODULE WebviewProofs ----------------------------
(***************************************************************************)
(* Theorems about the state machines of the webview.                       *)
(*                                                                         *)
(* The panels beside the canvas: what they show belongs together, for      *)
(* every set of folders and files and every order in which the native side *)
(* answers (PanelsAlwaysAgree).                                            *)
(*                                                                         *)
(* The conversation view: the snapshot is the journal once nothing is on   *)
(* its way (SettledViewsAreJournals), and a request is completed with all  *)
(* its records (CompletedAlwaysHasItsRecords), for every number of         *)
(* conversations, events, pages, processes and reordered notifications.    *)
(*                                                                         *)
(* The chat: what it shows of a turn that ended is at rest                 *)
(* (EndedTurnsAlwaysRest), and it shows every text once and in order, but  *)
(* for a message that begins midway in what was streamed of it             *)
(* (TextIsAlwaysShownOnce), for every journal of any length.               *)
(***************************************************************************)
EXTENDS Panels, ConversationView, ChatProjection, SequenceTheorems, FiniteSetTheorems, WellFoundedInduction, TLAPS

Kinds == {"status", "list", "diff", "read"}
Query == [what : Kinds, folder : Roots \cup {Unread}, path : Paths \cup {NoPath}, alive : BOOLEAN]
Status  == [folder : Roots \cup {Unread}, files : SUBSET Paths]
Panel   == [folder : Roots \cup {Unread}, status : Status, selected : Paths \cup {NoPath},
            diff : (Roots \cup {Unread}) \X (Paths \cup {NoPath}), listing : Roots \cup {Unread},
            loading : BOOLEAN, diffLoading : BOOLEAN]
Text    == [of : Paths \cup {NoPath}, edit : Nat]
Editor  == [path : Paths \cup {NoPath}, text : Text, dirty : BOOLEAN, saving : Paths \cup {NoPath}]
Counts  == [user : Nat, typed : Nat]

PanelsTyped ==
  /\ panel \in Panel
  /\ asked \in SUBSET Query
  /\ editor \in Editor
  /\ texts \in [Paths -> Text]
  /\ acts \in Counts

\* A request of GitPanel or FilePanel whose effect still lives asks for what is shown.
ForThePanel(r, p) ==
  /\ r.alive /\ r.what \in {"status", "list", "diff"} => r.folder = p.folder
  /\ r.alive /\ r.what = "diff" => r.path = p.selected
Together(p) ==
  /\ p.listing \in {Unread, p.folder}
  /\ ~p.loading => p.status.folder \in {Unread, p.folder} /\ p.selected \in p.status.files \cup {NoPath}
  /\ ~p.diffLoading /\ p.selected # NoPath => p.diff = <<p.folder, p.selected>>

\* The text of the editor, once it was read, is of the file the editor is open on.
EditorSound ==
  /\ \A r \in asked : r.alive /\ r.what = "read" => r.path \in Paths /\ r.path = editor.path
  /\ editor.text # NoText => editor.text.of = editor.path
  /\ \A f \in Paths : texts[f].of = f

PanelsSound ==
  /\ PanelsTyped
  /\ \A r \in asked : ForThePanel(r, panel)
  /\ Together(panel)
  /\ EditorSound

----------------------------------------------------------------------------
(* The cleanup of effects and the effect on folder and selection.          *)

\* The cleanup ends effects of its kinds and leaves the other requests alone.
LEMMA CleanedUpIs ==
  ASSUME NEW requests \in SUBSET Query, NEW kinds
  PROVE /\ CleanedUp(requests, kinds) \in SUBSET Query
        /\ \A r \in CleanedUp(requests, kinds) :
             r.alive => r \in requests /\ r.what \notin kinds
<1>1. ASSUME NEW r \in CleanedUp(requests, kinds)
      PROVE r \in Query /\ (r.alive => r \in requests /\ r.what \notin kinds)
  <2>1. PICK q \in requests : r = [q EXCEPT !.alive = @ /\ q.what \notin kinds]
    BY <1>1 DEF CleanedUp
  <2>2. q \in Query /\ q = [what |-> q.what, folder |-> q.folder, path |-> q.path, alive |-> q.alive]
    BY DEF Query
  <2>3. r = [what |-> q.what, folder |-> q.folder, path |-> q.path, alive |-> q.alive /\ q.what \notin kinds]
    BY <2>1, <2>2 DEF Query
  <2>4. CASE q.alive /\ q.what \notin kinds
    <3>1. r = q
      BY <2>1, <2>2, <2>4 DEF Query
    <3> QED BY <2>2, <2>4, <3>1
  <2>5. CASE ~(q.alive /\ q.what \notin kinds)
    <3>1. r = [what |-> q.what, folder |-> q.folder, path |-> q.path, alive |-> FALSE]
      BY <2>3, <2>5
    <3> QED BY <2>2, <3>1 DEF Query
  <2> QED BY <2>4, <2>5
<1> QED BY <1>1

\* What a commit of p keeps: the effect on folder and selection ends the diff of what was
\* shown and asks for that of what is shown now.
LEMMA CommitKeeps ==
  ASSUME panel \in Panel, NEW p \in Panel, NEW requests \in SUBSET Query, Commit(p, requests),
         \A r \in requests : /\ r.alive /\ r.what \in {"status", "list"} => r.folder = p.folder
                             /\ r.alive /\ r.what = "diff" => r.folder = panel.folder /\ r.path = panel.selected,
         p.listing \in {Unread, p.folder},
         ~p.loading => p.status.folder \in {Unread, p.folder} /\ p.selected \in p.status.files \cup {NoPath},
         p.folder = panel.folder /\ p.selected = panel.selected /\ ~p.diffLoading /\ p.selected # NoPath
           => p.diff = <<p.folder, p.selected>>
  PROVE /\ panel' \in Panel /\ asked' \in SUBSET Query
        /\ \A r \in asked' : ForThePanel(r, panel')
        /\ Together(panel')
        /\ \A r \in asked' : r.alive /\ r.what = "read" => r \in requests
<1>1. CASE p.folder = panel.folder /\ p.selected = panel.selected
  <2>1. panel' = p /\ asked' = requests
    BY <1>1 DEF Commit
  <2> QED BY <1>1, <2>1 DEF ForThePanel, Together
<1>2. CASE ~(p.folder = panel.folder /\ p.selected = panel.selected)
  <2> DEFINE idle == CleanedUp(requests, {"diff"})
  <2>1. panel' = DiffEffect(p, requests).panel /\ asked' = DiffEffect(p, requests).asked
    BY <1>2 DEF Commit
  <2>2. /\ idle \in SUBSET Query
        /\ \A r \in idle : r.alive => r \in requests /\ r.what # "diff"
    BY CleanedUpIs
  <2>3. CASE p.selected = NoPath
    <3>1. panel' = [p EXCEPT !.diff = <<Unread, NoPath>>] /\ asked' = idle
      BY <2>1, <2>3 DEF DiffEffect
    <3> HIDE DEF idle
    <3>2. /\ panel' \in Panel /\ panel'.folder = p.folder /\ panel'.listing = p.listing
          /\ panel'.loading = p.loading /\ panel'.status = p.status /\ panel'.selected = p.selected
      BY <3>1 DEF Panel
    <3> QED BY <2>2, <2>3, <3>1, <3>2 DEF ForThePanel, Together
  <2>4. CASE p.selected # NoPath
    <3>1. /\ panel' = [p EXCEPT !.diffLoading = TRUE]
          /\ asked' = idle \cup {Asking("diff", p.folder, p.selected)}
      BY <2>1, <2>4 DEF DiffEffect
    <3> HIDE DEF idle
    <3>2. /\ panel' \in Panel /\ panel'.folder = p.folder /\ panel'.listing = p.listing
          /\ panel'.loading = p.loading /\ panel'.status = p.status /\ panel'.selected = p.selected
          /\ panel'.diffLoading
      BY <3>1 DEF Panel
    <3>3. Asking("diff", p.folder, p.selected) \in Query
      BY DEF Panel, Query, Kinds, Asking
    <3>4. asked' \in SUBSET Query
      BY <2>2, <3>1, <3>3
    <3>5. \A r \in asked' : ForThePanel(r, panel')
      BY <2>2, <3>1, <3>2 DEF ForThePanel, Asking
    <3>6. \A r \in asked' : r.alive /\ r.what = "read" => r \in requests
      BY <2>2, <3>1 DEF Asking
    <3>7. Together(panel')
      BY <3>2 DEF Together
    <3> QED BY <3>2, <3>4, <3>5, <3>6, <3>7
  <2> QED BY <2>3, <2>4
<1> QED BY <1>1, <1>2

LEMMA ActsAreCounted ==
  ASSUME acts \in Counts, Acts
  PROVE acts' \in Counts
BY DEF Acts, Counts

\* A step of GitPanel or FilePanel that brings no new reads leaves the editor as it was.
LEMMA EditorRests ==
  ASSUME EditorSound, UNCHANGED <<editor, texts>>,
         \A r \in asked' : r.alive /\ r.what = "read" => r \in asked
  PROVE EditorSound'
BY DEF EditorSound

----------------------------------------------------------------------------
(* The steps.                                                              *)

LEMMA FolderOpensIsSound ==
  ASSUME PanelsSound, FolderOpens
  PROVE PanelsSound'
<1>1. PICK f \in Roots \ {panel.folder} :
        Commit([panel EXCEPT !.folder = f, !.loading = TRUE, !.listing = Unread],
               CleanedUp(asked, {"status", "list"}) \cup {Asking("status", f, NoPath), Asking("list", f, NoPath)})
  BY DEF FolderOpens
<1>2. PICK p : p = [panel EXCEPT !.folder = f, !.loading = TRUE, !.listing = Unread]
  OBVIOUS
<1>3. PICK idle : idle = CleanedUp(asked, {"status", "list"})
  OBVIOUS
<1>4. PICK requests : requests = idle \cup {Asking("status", f, NoPath), Asking("list", f, NoPath)}
  OBVIOUS
<1>5. /\ idle \in SUBSET Query
      /\ \A r \in idle : r.alive => r \in asked /\ r.what \notin {"status", "list"}
  BY <1>3, CleanedUpIs DEF PanelsSound, PanelsTyped
<1>6. /\ p \in Panel /\ p.folder = f /\ p.loading /\ p.listing = Unread
      /\ p.selected = panel.selected
  BY <1>2 DEF PanelsSound, PanelsTyped, Panel
<1>7. Asking("status", f, NoPath) \in Query /\ Asking("list", f, NoPath) \in Query
  BY DEF Query, Kinds, Asking
<1>8. requests \in SUBSET Query
  BY <1>4, <1>5, <1>7
<1>9. \A r \in requests : /\ r.alive /\ r.what \in {"status", "list"} => r.folder = p.folder
                          /\ r.alive /\ r.what = "diff" => r.folder = panel.folder /\ r.path = panel.selected
                          /\ r.alive /\ r.what = "read" => r \in asked
  BY <1>4, <1>5, <1>6 DEF Asking, PanelsSound, ForThePanel
<1>10. Commit(p, requests)
  BY <1>1, <1>2, <1>3, <1>4
<1>11. /\ panel' \in Panel /\ asked' \in SUBSET Query
       /\ \A r \in asked' : ForThePanel(r, panel')
       /\ Together(panel')
       /\ \A r \in asked' : r.alive /\ r.what = "read" => r \in requests
  BY <1>6, <1>8, <1>9, <1>10, CommitKeeps DEF PanelsSound, PanelsTyped
<1>12. EditorSound'
  BY <1>9, <1>11, EditorRests DEF PanelsSound, FolderOpens
<1>13. acts' \in Counts
  BY ActsAreCounted DEF FolderOpens, PanelsSound, PanelsTyped
<1> QED BY <1>11, <1>12, <1>13 DEF PanelsSound, PanelsTyped, FolderOpens

LEMMA RefreshesIsSound ==
  ASSUME PanelsSound, Refreshes
  PROVE PanelsSound'
<1>1. PICK p : p = [panel EXCEPT !.loading = TRUE]
  OBVIOUS
<1>2. PICK idle : idle = CleanedUp(asked, {"status"})
  OBVIOUS
<1>3. PICK requests : requests = idle \cup {Asking("status", panel.folder, NoPath)}
  OBVIOUS
<1>4. Commit(p, requests)
  BY <1>1, <1>2, <1>3 DEF Refreshes
<1>5. /\ idle \in SUBSET Query
      /\ \A r \in idle : r.alive => r \in asked /\ r.what # "status"
  BY <1>2, CleanedUpIs DEF PanelsSound, PanelsTyped
<1>6. /\ p \in Panel /\ p.folder = panel.folder /\ p.loading /\ p.listing = panel.listing
      /\ p.selected = panel.selected /\ p.diff = panel.diff /\ p.diffLoading = panel.diffLoading
  BY <1>1 DEF PanelsSound, PanelsTyped, Panel
<1>7. Asking("status", panel.folder, NoPath) \in Query
  BY DEF Query, Kinds, Asking, PanelsSound, PanelsTyped, Panel
<1>8. requests \in SUBSET Query
  BY <1>3, <1>5, <1>7
<1>9. \A r \in requests : /\ r.alive /\ r.what \in {"status", "list"} => r.folder = p.folder
                          /\ r.alive /\ r.what = "diff" => r.folder = panel.folder /\ r.path = panel.selected
                          /\ r.alive /\ r.what = "read" => r \in asked
  BY <1>3, <1>5, <1>6 DEF Asking, PanelsSound, ForThePanel
<1>10. /\ panel' \in Panel /\ asked' \in SUBSET Query
       /\ \A r \in asked' : ForThePanel(r, panel')
       /\ Together(panel')
       /\ \A r \in asked' : r.alive /\ r.what = "read" => r \in requests
  BY <1>4, <1>6, <1>8, <1>9, CommitKeeps DEF PanelsSound, PanelsTyped, Together
<1>11. EditorSound'
  BY <1>9, <1>10, EditorRests DEF PanelsSound, Refreshes
<1>12. acts' \in Counts
  BY ActsAreCounted DEF Refreshes, PanelsSound, PanelsTyped
<1> QED BY <1>10, <1>11, <1>12 DEF PanelsSound, PanelsTyped, Refreshes

LEMMA SelectsIsSound ==
  ASSUME PanelsSound, Selects
  PROVE PanelsSound'
<1>1. PICK f \in panel.status.files \ {panel.selected} : Commit([panel EXCEPT !.selected = f], asked)
  BY DEF Selects
<1>2. PICK p : p = [panel EXCEPT !.selected = f]
  OBVIOUS
<1>3. PICK requests : requests = asked
  OBVIOUS
<1>4. f \in Paths
  BY DEF PanelsSound, PanelsTyped, Panel, Status
<1>5. /\ p \in Panel /\ p.folder = panel.folder /\ p.loading = panel.loading /\ p.listing = panel.listing
      /\ p.selected = f /\ p.status = panel.status
  BY <1>2, <1>4 DEF PanelsSound, PanelsTyped, Panel
<1>6. \A r \in requests : /\ r.alive /\ r.what \in {"status", "list"} => r.folder = p.folder
                          /\ r.alive /\ r.what = "diff" => r.folder = panel.folder /\ r.path = panel.selected
  BY <1>3, <1>5 DEF PanelsSound, ForThePanel
<1>7. requests \in SUBSET Query
  BY <1>3 DEF PanelsSound, PanelsTyped
<1>8. Commit(p, requests)
  BY <1>1, <1>2, <1>3
<1>9. /\ p.listing \in {Unread, p.folder}
      /\ ~p.loading => p.status.folder \in {Unread, p.folder} /\ p.selected \in p.status.files \cup {NoPath}
      /\ p.selected # panel.selected
  BY <1>1, <1>5 DEF PanelsSound, Together
<1>10. /\ panel' \in Panel /\ asked' \in SUBSET Query
       /\ \A r \in asked' : ForThePanel(r, panel')
       /\ Together(panel')
       /\ \A r \in asked' : r.alive /\ r.what = "read" => r \in requests
  BY <1>5, <1>6, <1>7, <1>8, <1>9, CommitKeeps DEF PanelsSound, PanelsTyped
<1>11. EditorSound'
  BY <1>3, <1>10, EditorRests DEF PanelsSound, Selects
<1>12. acts' \in Counts
  BY ActsAreCounted DEF Selects, PanelsSound, PanelsTyped
<1> QED BY <1>10, <1>11, <1>12 DEF PanelsSound, PanelsTyped, Selects

LEMMA StatusArrivesIsSound ==
  ASSUME PanelsSound, UNCHANGED <<editor, texts, acts>>, NEW r \in asked, StatusArrives(r)
  PROVE PanelsSound'
<1>1. PICK files \in SUBSET Paths, failed \in BOOLEAN :
        /\ failed => files = {}
        /\ Commit(IF ~r.alive THEN panel
                  ELSE [panel EXCEPT !.loading = FALSE,
                          !.status = IF failed THEN NoStatus ELSE [folder |-> r.folder, files |-> files],
                          !.selected = IF @ \in files THEN @ ELSE IF files = {} THEN NoPath
                                       ELSE CHOOSE f \in files : TRUE],
                  asked \ {r})
  BY DEF StatusArrives
<1>2. PICK status : status = IF failed THEN NoStatus ELSE [folder |-> r.folder, files |-> files]
  OBVIOUS
<1>3. PICK selected : selected = IF panel.selected \in files THEN panel.selected ELSE IF files = {} THEN NoPath
                                 ELSE CHOOSE f \in files : TRUE
  OBVIOUS
<1>4. PICK p : p = IF ~r.alive THEN panel
                   ELSE [panel EXCEPT !.loading = FALSE, !.status = status, !.selected = selected]
  OBVIOUS
<1>5. PICK requests : requests = asked \ {r}
  OBVIOUS
<1>6. Commit(p, requests)
  BY <1>1, <1>2, <1>3, <1>4, <1>5
<1>7. selected \in files \cup {NoPath}
  BY <1>3
<1>8. r \in Query /\ (r.alive => r.folder = panel.folder)
  BY DEF PanelsSound, PanelsTyped, ForThePanel, StatusArrives
<1>9. status \in Status /\ status.folder \in {Unread, r.folder} /\ status.files = files
  BY <1>1, <1>2, <1>8 DEF Status, Query, NoStatus
<1>10. /\ p \in Panel /\ p.folder = panel.folder /\ p.listing = panel.listing
       /\ p.diff = panel.diff /\ p.diffLoading = panel.diffLoading
       /\ ~p.loading => p.status.folder \in {Unread, p.folder} /\ p.selected \in p.status.files \cup {NoPath}
  <2>1. CASE ~r.alive
    BY <1>4, <2>1 DEF PanelsSound, PanelsTyped, Together
  <2>2. CASE r.alive
    <3>1. p = [panel EXCEPT !.loading = FALSE, !.status = status, !.selected = selected]
      BY <1>4, <2>2
    <3>2. /\ p \in Panel /\ p.folder = panel.folder /\ p.listing = panel.listing
          /\ p.diff = panel.diff /\ p.diffLoading = panel.diffLoading
          /\ p.status = status /\ p.selected = selected
      BY <1>7, <1>9, <3>1 DEF PanelsSound, PanelsTyped, Panel
    <3> QED BY <1>7, <1>8, <1>9, <2>2, <3>2
  <2> QED BY <2>1, <2>2
<1>11. \A q \in requests : /\ q.alive /\ q.what \in {"status", "list"} => q.folder = p.folder
                           /\ q.alive /\ q.what = "diff" => q.folder = panel.folder /\ q.path = panel.selected
  BY <1>5, <1>10 DEF PanelsSound, ForThePanel
<1>12. requests \in SUBSET Query
  BY <1>5 DEF PanelsSound, PanelsTyped
<1>13. /\ panel' \in Panel /\ asked' \in SUBSET Query
       /\ \A q \in asked' : ForThePanel(q, panel')
       /\ Together(panel')
       /\ \A q \in asked' : q.alive /\ q.what = "read" => q \in requests
  BY <1>6, <1>10, <1>11, <1>12, CommitKeeps DEF PanelsSound, PanelsTyped, Together
<1>14. EditorSound'
  BY <1>5, <1>13, EditorRests DEF PanelsSound
<1> QED BY <1>13, <1>14 DEF PanelsSound, PanelsTyped

LEMMA DiffArrivesIsSound ==
  ASSUME PanelsSound, UNCHANGED <<editor, texts, acts>>, NEW r \in asked, DiffArrives(r)
  PROVE PanelsSound'
<1>1. PICK p : p = IF ~r.alive THEN panel
                   ELSE [panel EXCEPT !.diff = <<r.folder, r.path>>, !.diffLoading = FALSE]
  OBVIOUS
<1>2. PICK requests : requests = asked \ {r}
  OBVIOUS
<1>3. Commit(p, requests)
  BY <1>1, <1>2 DEF DiffArrives
<1>4. r \in Query /\ (r.alive => r.folder = panel.folder /\ r.path = panel.selected)
  BY DEF PanelsSound, PanelsTyped, ForThePanel, DiffArrives
<1>5. /\ p \in Panel /\ p.folder = panel.folder /\ p.listing = panel.listing
      /\ p.status = panel.status /\ p.selected = panel.selected /\ p.loading = panel.loading
      /\ ~p.diffLoading /\ p.selected # NoPath => p.diff = <<p.folder, p.selected>>
  <2>1. CASE ~r.alive
    BY <1>1, <2>1 DEF PanelsSound, PanelsTyped, Together
  <2>2. CASE r.alive
    <3>1. p = [panel EXCEPT !.diff = <<r.folder, r.path>>, !.diffLoading = FALSE]
      BY <1>1, <2>2
    <3>2. <<r.folder, r.path>> \in (Roots \cup {Unread}) \X (Paths \cup {NoPath})
      BY <1>4 DEF Query
    <3> QED BY <1>4, <2>2, <3>1, <3>2 DEF PanelsSound, PanelsTyped, Panel
  <2> QED BY <2>1, <2>2
<1>6. \A q \in requests : /\ q.alive /\ q.what \in {"status", "list"} => q.folder = p.folder
                          /\ q.alive /\ q.what = "diff" => q.folder = panel.folder /\ q.path = panel.selected
  BY <1>2, <1>5 DEF PanelsSound, ForThePanel
<1>7. requests \in SUBSET Query
  BY <1>2 DEF PanelsSound, PanelsTyped
<1>8. /\ panel' \in Panel /\ asked' \in SUBSET Query
      /\ \A q \in asked' : ForThePanel(q, panel')
      /\ Together(panel')
      /\ \A q \in asked' : q.alive /\ q.what = "read" => q \in requests
  BY <1>3, <1>5, <1>6, <1>7, CommitKeeps DEF PanelsSound, PanelsTyped, Together
<1>9. EditorSound'
  BY <1>2, <1>8, EditorRests DEF PanelsSound
<1> QED BY <1>8, <1>9 DEF PanelsSound, PanelsTyped

LEMMA ListArrivesIsSound ==
  ASSUME PanelsSound, UNCHANGED <<editor, texts, acts>>, NEW r \in asked, ListArrives(r)
  PROVE PanelsSound'
<1>1. PICK p : p = IF r.alive THEN [panel EXCEPT !.listing = r.folder] ELSE panel
  OBVIOUS
<1>2. PICK requests : requests = asked \ {r}
  OBVIOUS
<1>3. Commit(p, requests)
  BY <1>1, <1>2 DEF ListArrives
<1>4. r \in Query /\ (r.alive => r.folder = panel.folder)
  BY DEF PanelsSound, PanelsTyped, ForThePanel, ListArrives
<1>5. /\ p \in Panel /\ p.folder = panel.folder /\ p.listing \in {Unread, p.folder}
      /\ p.status = panel.status /\ p.selected = panel.selected /\ p.loading = panel.loading
      /\ p.diff = panel.diff /\ p.diffLoading = panel.diffLoading
  BY <1>1, <1>4 DEF PanelsSound, PanelsTyped, Panel, Together, Query
<1>6. \A q \in requests : /\ q.alive /\ q.what \in {"status", "list"} => q.folder = p.folder
                          /\ q.alive /\ q.what = "diff" => q.folder = panel.folder /\ q.path = panel.selected
  BY <1>2, <1>5 DEF PanelsSound, ForThePanel
<1>7. requests \in SUBSET Query
  BY <1>2 DEF PanelsSound, PanelsTyped
<1>8. /\ panel' \in Panel /\ asked' \in SUBSET Query
      /\ \A q \in asked' : ForThePanel(q, panel')
      /\ Together(panel')
      /\ \A q \in asked' : q.alive /\ q.what = "read" => q \in requests
  BY <1>3, <1>5, <1>6, <1>7, CommitKeeps DEF PanelsSound, PanelsTyped, Together
<1>9. EditorSound'
  BY <1>2, <1>8, EditorRests DEF PanelsSound
<1> QED BY <1>8, <1>9 DEF PanelsSound, PanelsTyped

\* FloatingEditor: the panels keep what they show; a read that still lives is of the open file.
LEMMA EditorStepsAreSound ==
  ASSUME PanelsSound, OpensFile \/ ClosesFile \/ TextArrives \/ Types \/ Saves \/ Saved
  PROVE PanelsSound'
<1> USE DEF PanelsSound, PanelsTyped
<1>1. panel' = panel
  BY DEF OpensFile, ClosesFile, TextArrives, Types, Saves, Saved
<1>2. CASE OpensFile
  <2>1. PICK f \in Paths \ {editor.path} :
          /\ editor' = [editor EXCEPT !.path = f, !.text = NoText, !.dirty = FALSE]
          /\ asked' = CleanedUp(asked, {"read"}) \cup {Asking("read", Unread, f)}
    BY <1>2 DEF OpensFile
  <2>2. PICK idle : idle = CleanedUp(asked, {"read"})
    OBVIOUS
  <2>3. /\ idle \in SUBSET Query
        /\ \A r \in idle : r.alive => r \in asked /\ r.what # "read"
    BY <2>2, CleanedUpIs
  <2>4. Asking("read", Unread, f) \in Query
    BY DEF Query, Kinds, Asking
  <2>5. asked' = idle \cup {Asking("read", Unread, f)}
    BY <2>1, <2>2
  <2>6. \A r \in asked' : ForThePanel(r, panel')
    BY <1>1, <2>3, <2>5 DEF ForThePanel, Asking
  <2>7. editor' \in Editor /\ editor'.path = f /\ editor'.text = NoText
    BY <2>1 DEF Editor, Text, NoText
  <2>8. EditorSound'
    <3>1. \A r \in asked' : r.alive /\ r.what = "read" => r = Asking("read", Unread, f)
      BY <2>3, <2>5
    <3>2. texts' = texts
      BY <1>2 DEF OpensFile
    <3>3. editor'.path = f /\ editor'.text = NoText
      BY <2>7
    <3> QED BY <3>1, <3>2, <3>3 DEF EditorSound, Asking
  <2>9. acts' \in Counts
    BY <1>2, ActsAreCounted DEF OpensFile
  <2>10. asked' \in SUBSET Query
    BY <2>3, <2>4, <2>5
  <2>11. editor' \in Editor /\ texts' \in [Paths -> Text]
    BY <1>2, <2>7 DEF OpensFile
  <2> QED BY <1>1, <2>6, <2>8, <2>9, <2>10, <2>11
<1>3. CASE ClosesFile
  <2>1. PICK idle : idle = CleanedUp(asked, {"read"})
    OBVIOUS
  <2>2. /\ idle \in SUBSET Query
        /\ \A r \in idle : r.alive => r \in asked /\ r.what # "read"
    BY <2>1, CleanedUpIs
  <2>3. asked' = idle
    BY <1>3, <2>1 DEF ClosesFile
  <2>4. \A r \in asked' : ForThePanel(r, panel')
    BY <1>1, <2>2, <2>3 DEF ForThePanel
  <2>5. editor' \in Editor /\ editor'.text = NoText
    BY <1>3 DEF ClosesFile, Editor, Text, NoText
  <2>6. EditorSound'
    BY <1>3, <2>2, <2>3, <2>5 DEF EditorSound, ClosesFile
  <2>7. acts' \in Counts
    BY <1>3, ActsAreCounted DEF ClosesFile
  <2> QED BY <1>1, <1>3, <2>2, <2>3, <2>4, <2>5, <2>6, <2>7 DEF ClosesFile
<1>4. CASE TextArrives
  <2>1. PICK r \in asked :
          /\ r.what = "read" /\ asked' = asked \ {r}
          /\ editor' = IF r.alive THEN [editor EXCEPT !.text = texts[r.path]] ELSE editor
    BY <1>4 DEF TextArrives
  <2>2. CASE r.alive
    <3>1. texts[r.path] \in Text /\ texts[r.path].of = r.path /\ r.path = editor.path
      BY <2>1, <2>2 DEF EditorSound
    <3>2. /\ editor' \in Editor /\ editor'.path = editor.path
          /\ editor'.text = texts[r.path]
      BY <2>1, <2>2, <3>1 DEF Editor
    <3>3. EditorSound'
      BY <1>4, <2>1, <3>1, <3>2 DEF EditorSound, TextArrives
    <3> QED BY <1>1, <1>4, <2>1, <3>2, <3>3 DEF TextArrives
  <2>3. CASE ~r.alive
    <3>1. editor' = editor /\ texts' = texts /\ acts' = acts
      BY <1>4, <2>1, <2>3 DEF TextArrives
    <3> QED BY <1>1, <2>1, <3>1 DEF EditorSound, ForThePanel
  <2> QED BY <2>2, <2>3
<1>5. CASE Types
  <2>1. /\ editor' = [editor EXCEPT !.text.edit = acts.typed + 1, !.dirty = TRUE]
        /\ asked' = asked /\ texts' = texts /\ editor.text # NoText
    BY <1>5 DEF Types
  <2>2. acts' \in Counts /\ acts.typed + 1 \in Nat
    BY <1>5 DEF Types, Counts
  <2>3. editor' \in Editor /\ editor'.path = editor.path /\ editor'.text.of = editor.text.of
    BY <2>1, <2>2 DEF Editor, Text
  <2>4. EditorSound'
    BY <2>1, <2>3 DEF EditorSound
  <2> QED BY <1>1, <2>1, <2>2, <2>3, <2>4
<1>6. CASE Saves
  <2>1. /\ texts' = [texts EXCEPT ![editor.path] = editor.text] /\ editor.text # NoText
        /\ editor' = [editor EXCEPT !.saving = editor.path] /\ asked' = asked
    BY <1>6 DEF Saves
  <2>2. /\ editor' \in Editor /\ editor'.path = editor.path /\ editor'.text = editor.text
        /\ editor.text \in Text /\ editor.text.of = editor.path
    BY <2>1 DEF Editor, EditorSound
  <2>3. texts' \in [Paths -> Text] /\ \A f \in Paths : texts'[f].of = f
    BY <2>1, <2>2 DEF EditorSound
  <2>4. EditorSound'
    BY <2>1, <2>2, <2>3 DEF EditorSound
  <2>5. acts' \in Counts
    BY <1>6, ActsAreCounted DEF Saves
  <2> QED BY <1>1, <2>1, <2>2, <2>3, <2>4, <2>5
<1>7. CASE Saved
  <2>1. /\ editor' = [editor EXCEPT !.saving = NoPath, !.dirty = FALSE]
        /\ asked' = asked /\ texts' = texts /\ acts' = acts
    BY <1>7 DEF Saved
  <2>2. editor' \in Editor /\ editor'.path = editor.path /\ editor'.text = editor.text
    BY <2>1 DEF Editor
  <2> QED BY <1>1, <2>1, <2>2 DEF EditorSound
<1> QED BY <1>2, <1>3, <1>4, <1>5, <1>6, <1>7

\* Whatever the user opens, selects, edits and saves, and in whatever order the answers
\* come, the panels show what belongs together and no text is saved over another file
\* (GitPanel.tsx, FilePanel.tsx, FloatingEditor.tsx).
THEOREM PanelsAlwaysAgree == PanelsSpec => []PanelsAgree
<1>1. PanelsInit => PanelsSound
  BY DEF PanelsInit, PanelsSound, PanelsTyped, Panel, Status, NoStatus, NoText, Editor, Text, Counts,
         Together, EditorSound
<1>2. PanelsSound /\ [PanelsNext]_panelVars => PanelsSound'
  <2> SUFFICES ASSUME PanelsSound, [PanelsNext]_panelVars
               PROVE PanelsSound'
    OBVIOUS
  <2>1. CASE Arrives
    BY <2>1, StatusArrivesIsSound, DiffArrivesIsSound, ListArrivesIsSound DEF Arrives
  <2>2. CASE OpensFile \/ ClosesFile \/ TextArrives \/ Types \/ Saves \/ Saved
    BY <2>2, EditorStepsAreSound
  <2>3. CASE UNCHANGED panelVars
    BY <2>3 DEF panelVars, PanelsSound, PanelsTyped, Together, EditorSound, ForThePanel
  <2> QED BY <2>1, <2>2, <2>3, FolderOpensIsSound, RefreshesIsSound, SelectsIsSound DEF PanelsNext
<1>3. PanelsSound => PanelsAgree
  BY DEF PanelsSound, PanelsAgree, Together, EditorSound
<1> QED BY <1>1, <1>2, <1>3, PTL DEF PanelsSpec

----------------------------------------------------------------------------
(* The conversation view: pages and notifications against the journal.     *)

Words  == Marks \cup {"model", "record"}
Events == [kind : Words, turn : Nat, n : Nat]
Notes  == [talk : Talks, sequence : Nat]
Steps  == {"idle", "beginning", "executing", "completing", "failing"}
Asks   == {"none", "turn_begin", "record", "completed", "failed"}
Snapshots  == [meta : Talks \cup {NoTalk}, events : SUBSET Nat, activeTurn : Nat]
Selections == [talk : Talks \cup {NoTalk}, after : Nat, events : SUBSET Nat, buffer : SUBSET Nat,
               page : {"none", "asked", "answered"}, next : Nat, more : BOOLEAN, active : Nat]
UserRuns   == [stage : Steps, turn : Nat, talk : Talks \cup {NoTalk}, emitted : Nat, recorded : Nat,
               failed : BOOLEAN, asked : Asks, awaits : Nat]
Spendings  == [runs : Nat, selects : Nat, exits : Nat, aside : Nat]

ViewTyped ==
  /\ journals \in [Talks -> Seq(Events)]
  /\ unsent \in SUBSET Notes /\ wire \in Seq(Notes)
  /\ linked \in BOOLEAN
  /\ view \in Snapshots /\ load \in Selections /\ run \in UserRuns /\ spent \in Spendings

\* What a sequence of events j says of its marks: the turn that the last of those in S leaves open.
MarksIn(j, S) == {i \in S : j[i].kind \in Marks}
OpenIn(j, S) ==
  LET marks == {i \in S : j[i].kind \in Marks}
      last  == CHOOSE i \in marks : \A k \in marks : k <= i
  IN IF marks = {} \/ j[last].kind # "turn_begin" THEN 0 ELSE j[last].turn

\* The turn that an event leaves open if it is a mark, and whether it is one.
Opened(e) == IF e.kind = "turn_begin" THEN e.turn ELSE 0
MarkAt(e, n) == IF e.kind \in Marks THEN {n} ELSE {}

Note(t, i) == [talk |-> t, sequence |-> i]
Announced == unsent \cup Range(wire)
Pending(t) == {i \in DOMAIN journals[t] : Note(t, i) \in Announced}

\* The marks of the conversation, and those the snapshot is still to hear of.
MarksNow == MarksIn(journals[view.meta], DOMAIN journals[view.meta])
News     == {i \in MarksNow : i \in Pending(view.meta) /\ i \notin view.events}
Begin(i) == journals[view.meta][i].kind = "turn_begin"

\* A request that waits for the answer to its begin has asked for nothing else.
AwaitsSoundly(r) == r.awaits # 0 => r.stage # "idle" /\ (r.stage = "beginning" => r.asked = "turn_begin")

InJournals ==
  /\ \A t \in Talks : \A i \in DOMAIN journals[t] : journals[t][i].kind = "turn_begin" => journals[t][i].turn # 0
  /\ \A n \in Announced : n.sequence \in DOMAIN journals[n.talk]
  /\ view.meta = NoTalk => view.events = {} /\ view.activeTurn = 0
  /\ view.meta # NoTalk => view.events \subseteq DOMAIN journals[view.meta]
  /\ run.stage # "idle" => run.talk \in Talks /\ run.turn # 0
  /\ AwaitsSoundly(run)
  /\ ~linked => unsent = {} /\ wire = <<>> /\ \A t \in Talks : Active(t) = 0

\* The pages read so far, with the notifications since, lead to the whole journal.
LastPage ==
  /\ DOMAIN journals[load.talk] \subseteq (1..load.next) \cup load.buffer \cup Pending(load.talk)
  /\ load.active = OpenIn(journals[load.talk], 1..load.next)
  /\ load.talk # view.meta => \A i \in MarksIn(journals[load.talk], DOMAIN journals[load.talk]) : i <= load.next
  /\ load.talk = view.meta => view.events \subseteq (1..load.next) \cup load.buffer
LoadSound ==
  /\ load.page = "none" => load = NoLoad
  /\ load.page # "none" =>
       /\ load.talk \in Talks
       /\ load.events = 1..load.after /\ load.after <= Len(journals[load.talk])
       /\ load.buffer \subseteq DOMAIN journals[load.talk]
       /\ load.talk # view.meta => run.stage = "idle" \/ run.talk # load.talk
       /\ load.talk = view.meta => load.buffer \subseteq view.events
  /\ load.page = "answered" =>
       /\ linked /\ load.after <= load.next /\ load.next <= Len(journals[load.talk])
       /\ ~load.more => LastPage

Current == view.activeTurn = OpenIn(journals[view.meta], view.events)
Covered == linked /\ load = NoLoad => DOMAIN journals[view.meta] \subseteq view.events \cup Pending(view.meta)
NewsComeLast == \A u \in News : \A m \in MarksNow \ News : m < u
\* The end of a turn that is news is the last mark, after a begin that is shown or news too.
EndsFollow ==
  \A e \in News : ~Begin(e) =>
    \E b \in MarksNow : /\ Begin(b) /\ b \in view.events \cup News /\ b < e
                        /\ \A m \in MarksNow \ {e} : m <= b
\* The begin of a turn that is news is what the run awaits, and is heard before an end.
BeginsAreAwaited ==
  \A b \in News : Begin(b) =>
    /\ run.stage = "beginning" /\ run.talk = view.meta /\ run.awaits = b /\ run.asked = "turn_begin"
    /\ Note(view.meta, b) \notin unsent
    /\ \A p \in DOMAIN wire : wire[p].talk = view.meta /\ wire[p].sequence \in News \ {b}
         => \E k \in 1..(p - 1) : wire[k] = Note(view.meta, b)
BeginsInPeace ==
  run.stage = "beginning" /\ run.awaits = 0 /\ run.talk = view.meta => News = {} /\ Active(view.meta) = 0
OpenIsKnown ==
  Active(view.meta) # 0 =>
    \E b \in MarksNow : b \in view.events \cup News /\ \A m \in MarksNow : m <= b

ViewSound ==
  /\ ViewTyped /\ InJournals /\ LoadSound
  /\ view.meta # NoTalk =>
       /\ Current /\ Covered /\ NewsComeLast /\ EndsFollow /\ BeginsAreAwaited /\ BeginsInPeace /\ OpenIsKnown

----------------------------------------------------------------------------
(* Marks.                                                                  *)

\* Of some numbers one is the least.
LEMMA LeastOf == ASSUME NEW S \in SUBSET Nat, S # {} PROVE \E m \in S : \A n \in S : m <= n
<1>1. PICK m \in S : \A n \in S : ~(<<n, m>> \in OpToRel(<, Nat))
  BY NatLessThanWellFounded, WFMin
<1>2. \A n \in S : ~(n < m)
  BY <1>1 DEF OpToRel
<1> QED BY <1>2

\* Sequence numbers below a bound have a greatest among them.
LEMMA GreatestOf ==
  ASSUME NEW b \in Nat, NEW S \in SUBSET (1..b), S # {}
  PROVE \E m \in S : \A k \in S : k <= m
<1> DEFINE gaps == {g \in Nat : b - g \in S}
<1>1. PICK s \in S : TRUE
  OBVIOUS
<1>2. b - s \in gaps
  BY <1>1
<1>3. PICK g \in gaps : \A h \in gaps : g <= h
  <2>1. gaps \in SUBSET Nat
    OBVIOUS
  <2> QED BY <1>2, <2>1, LeastOf
<1>4. \A k \in S : b - k \in gaps
  OBVIOUS
<1>5. \A k \in S : k <= b - g
  BY <1>3, <1>4
<1> QED BY <1>3, <1>5

\* What the last mark among some events decides, and that there is none or one.
LEMMA OpenIs ==
  ASSUME NEW j, NEW S \in SUBSET Nat, NEW m \in MarksIn(j, S), \A k \in MarksIn(j, S) : k <= m
  PROVE OpenIn(j, S) = Opened(j[m])
<1> DEFINE marks == MarksIn(j, S)
           last  == CHOOSE i \in marks : \A k \in marks : k <= i
<1>1. \E i \in marks : \A k \in marks : k <= i
  OBVIOUS
<1>2. last \in marks /\ \A k \in marks : k <= last
  BY <1>1
<1>3. last <= m /\ m <= last /\ last \in Nat /\ m \in Nat
  BY <1>2 DEF MarksIn
<1>4. last = m
  BY <1>3
<1>5. marks # {}
  OBVIOUS
<1> QED BY <1>4, <1>5 DEF OpenIn, MarksIn, Opened

\* Without a mark no turn is open.
LEMMA NothingIsOpen ==
  ASSUME NEW j, NEW S, MarksIn(j, S) = {}
  PROVE OpenIn(j, S) = 0
BY DEF OpenIn, MarksIn

\* The marks among events of a journal have a last one.
LEMMA LastMark ==
  ASSUME NEW j \in Seq(Events), NEW S \in SUBSET DOMAIN j, MarksIn(j, S) # {}
  PROVE \E m \in MarksIn(j, S) : \A k \in MarksIn(j, S) : k <= m
<1>1. PICK b \in Nat : b = Len(j)
  OBVIOUS
<1>2. MarksIn(j, S) \in SUBSET (1..b)
  BY <1>1 DEF MarksIn
<1> QED BY <1>2, GreatestOf

\* The open turn is a number.
LEMMA OpenIsTyped ==
  ASSUME NEW j \in Seq(Events), NEW S \in SUBSET DOMAIN j
  PROVE OpenIn(j, S) \in Nat
<1>1. CASE MarksIn(j, S) = {}
  BY <1>1, NothingIsOpen
<1>2. CASE MarksIn(j, S) # {}
  <2>1. PICK m \in MarksIn(j, S) : \A k \in MarksIn(j, S) : k <= m
    BY <1>2, LastMark
  <2>2. S \in SUBSET Nat /\ m \in DOMAIN j
    BY DEF MarksIn
  <2>3. OpenIn(j, S) = Opened(j[m])
    BY <2>1, <2>2, OpenIs
  <2>4. Opened(j[m]) \in Nat
    <3>1. j[m] \in Events
      BY <2>2
    <3> QED BY <3>1 DEF Events, Opened
  <2> QED BY <2>3, <2>4
<1> QED BY <1>1, <1>2

\* Only marks decide.
LEMMA SameMarksSameTurn ==
  ASSUME NEW j \in Seq(Events), NEW S \in SUBSET DOMAIN j, NEW k, NEW T \in SUBSET Nat,
         MarksIn(k, T) = MarksIn(j, S), \A i \in MarksIn(j, S) : k[i] = j[i]
  PROVE OpenIn(k, T) = OpenIn(j, S)
<1>1. CASE MarksIn(j, S) = {}
  BY <1>1, NothingIsOpen
<1>2. CASE MarksIn(j, S) # {}
  <2>1. PICK m \in MarksIn(j, S) : \A i \in MarksIn(j, S) : i <= m
    BY <1>2, LastMark
  <2>2. S \in SUBSET Nat
    OBVIOUS
  <2>3. OpenIn(j, S) = Opened(j[m])
    BY <2>1, <2>2, OpenIs
  <2>4. m \in MarksIn(k, T) /\ \A i \in MarksIn(k, T) : i <= m
    BY <2>1
  <2>5. OpenIn(k, T) = Opened(k[m])
    BY <2>4, OpenIs
  <2> QED BY <2>1, <2>3, <2>5
<1> QED BY <1>1, <1>2

\* An open turn was begun by an event of the journal, the last of its marks.
LEMMA OpenWasBegun ==
  ASSUME NEW j \in Seq(Events), NEW S \in SUBSET DOMAIN j, OpenIn(j, S) # 0
  PROVE \E b \in MarksIn(j, S) : /\ j[b].kind = "turn_begin" /\ OpenIn(j, S) = j[b].turn
                                  /\ \A i \in MarksIn(j, S) : i <= b
<1>1. MarksIn(j, S) # {}
  BY NothingIsOpen
<1>2. PICK m \in MarksIn(j, S) : \A i \in MarksIn(j, S) : i <= m
  BY <1>1, LastMark
<1>3. S \in SUBSET Nat
  OBVIOUS
<1>4. OpenIn(j, S) = Opened(j[m])
  BY <1>2, <1>3, OpenIs
<1> QED BY <1>2, <1>4 DEF Opened

\* The native side and the snapshot find an open turn the same way.
LEMMA ActiveIsOpen ==
  \A t : Active(t) = OpenIn(journals[t], DOMAIN journals[t])
BY DEF Active, ActiveAmong, OpenIn

\* The same in the next state.
LEMMA ActiveLater ==
  /\ \A t : Active(t)' = OpenIn(journals'[t], DOMAIN journals'[t])
  /\ Active(view.meta)' = OpenIn(journals'[view'.meta], DOMAIN journals'[view'.meta])
BY DEF Active, ActiveAmong, OpenIn

\* An event that is appended: everything before it stays.
LEMMA AppendedEvent ==
  ASSUME NEW j \in Seq(Events), NEW e \in Events, NEW k, k = Append(j, e)
  PROVE /\ k \in Seq(Events) /\ Len(k) = Len(j) + 1 /\ Len(j) \in Nat
        /\ Len(j) + 1 \notin DOMAIN j /\ DOMAIN j \subseteq Nat
        /\ DOMAIN k = DOMAIN j \cup {Len(j) + 1}
        /\ \A i \in DOMAIN j : k[i] = j[i] /\ i < Len(j) + 1
        /\ k[Len(j) + 1] = e
<1>1. PICK n \in Nat : n = Len(j)
  OBVIOUS
<1>2. /\ k \in Seq(Events) /\ Len(k) = n + 1 /\ DOMAIN j = 1..n /\ DOMAIN k = 1..(n + 1)
      /\ \A i \in DOMAIN j : k[i] = j[i] /\ i < n + 1
      /\ k[n + 1] = e
  BY <1>1
<1>3. DOMAIN k = DOMAIN j \cup {n + 1} /\ n + 1 \notin DOMAIN j
  BY <1>2
<1> QED BY <1>1, <1>2, <1>3

\* The turns that k has, which is j and then e.
LEMMA AppendedMarks ==
  ASSUME NEW j \in Seq(Events), NEW k \in Seq(Events), NEW n \in Nat,
         DOMAIN k = DOMAIN j \cup {n}, \A i \in DOMAIN j : k[i] = j[i] /\ i < n
  PROVE /\ MarksIn(k, DOMAIN k) = MarksIn(j, DOMAIN j) \cup MarkAt(k[n], n)
        /\ \A S \in SUBSET DOMAIN j : OpenIn(k, S) = OpenIn(j, S)
        /\ k[n].kind \notin Marks => OpenIn(k, DOMAIN k) = OpenIn(j, DOMAIN j)
        /\ k[n].kind \in Marks => OpenIn(k, DOMAIN k) = Opened(k[n])
<1>1. MarksIn(k, DOMAIN k) = MarksIn(j, DOMAIN j) \cup MarkAt(k[n], n)
  BY DEF MarksIn, MarkAt
<1>2. PICK E \in SUBSET Nat : E = DOMAIN k
  <2>1. DOMAIN k \in SUBSET Nat
    OBVIOUS
  <2> QED BY <2>1
<1>3. ASSUME NEW S \in SUBSET DOMAIN j
      PROVE OpenIn(k, S) = OpenIn(j, S)
  <2>1. MarksIn(k, S) = MarksIn(j, S) /\ \A i \in MarksIn(j, S) : k[i] = j[i]
    BY DEF MarksIn
  <2>2. S \in SUBSET Nat
    OBVIOUS
  <2> QED BY <2>1, <2>2, SameMarksSameTurn
<1>4. ASSUME k[n].kind \notin Marks
      PROVE OpenIn(k, DOMAIN k) = OpenIn(j, DOMAIN j)
  <2>1. PICK D \in SUBSET DOMAIN j : D = DOMAIN j
    OBVIOUS
  <2>2. MarksIn(k, E) = MarksIn(j, D) /\ \A i \in MarksIn(j, D) : k[i] = j[i]
    BY <1>1, <1>2, <1>4, <2>1 DEF MarksIn, MarkAt
  <2>3. OpenIn(k, E) = OpenIn(j, D)
    BY <2>2, SameMarksSameTurn
  <2> QED BY <1>2, <2>1, <2>3
<1>5. ASSUME k[n].kind \in Marks
      PROVE OpenIn(k, DOMAIN k) = Opened(k[n])
  <2>1. n \in MarksIn(k, E) /\ \A i \in MarksIn(k, E) : i <= n
    BY <1>1, <1>2, <1>5 DEF MarksIn, MarkAt
  <2>2. OpenIn(k, E) = Opened(k[n])
    BY <2>1, OpenIs
  <2> QED BY <1>2, <2>2
<1> QED BY <1>1, <1>3, <1>4, <1>5

----------------------------------------------------------------------------
(* Notifications.                                                          *)

\* A note that is sent is the last one on the wire.
LEMMA AnnouncedLast ==
  ASSUME ViewTyped, NEW x \in Notes, wire' = Append(wire, x)
  PROVE /\ wire' \in Seq(Notes) /\ Range(wire') = Range(wire) \cup {x}
        /\ \A p \in DOMAIN wire : p \in DOMAIN wire' /\ wire'[p] = wire[p]
        /\ \A p \in DOMAIN wire' : p \in DOMAIN wire \/ (wire'[p] = x /\ \A k \in DOMAIN wire : k \in 1..(p - 1))
<1>1. wire \in Seq(Notes)
  BY DEF ViewTyped
<1>2. PICK n \in Nat : n = Len(wire)
  BY <1>1
<1>3. /\ wire' \in Seq(Notes) /\ DOMAIN wire = 1..n /\ DOMAIN wire' = 1..(n + 1)
      /\ \A p \in DOMAIN wire : wire'[p] = wire[p]
      /\ wire'[n + 1] = x
  BY <1>1, <1>2
<1>4. Range(wire') = Range(wire) \cup {x}
  <2>1. n + 1 \in DOMAIN wire' /\ \A p \in DOMAIN wire' : p \in DOMAIN wire \/ p = n + 1
    BY <1>3
  <2>2. \A p \in DOMAIN wire : p \in DOMAIN wire'
    BY <1>3
  <2> QED BY <1>3, <2>1, <2>2 DEF Range
<1> QED BY <1>3, <1>4

\* A note that is heard is the first one, and the others move up.
LEMMA HeardNote ==
  ASSUME ViewTyped, wire # <<>>, wire' = Tail(wire)
  PROVE \E x \in Notes :
          /\ x = Head(wire) /\ wire' \in Seq(Notes) /\ Range(wire) = Range(wire') \cup {x}
          /\ 1 \in DOMAIN wire /\ wire[1] = x
          /\ \A p \in DOMAIN wire' : p \in Nat /\ p + 1 \in DOMAIN wire /\ wire'[p] = wire[p + 1]
          /\ \A p \in DOMAIN wire : p = 1 \/ (p - 1 \in DOMAIN wire' /\ wire'[p - 1] = wire[p])
<1>0. PICK w \in Seq(Notes) : w = wire
  BY DEF ViewTyped
<1>a. PICK v : v = wire'
  OBVIOUS
<1>b. PICK x : x = Head(w)
  OBVIOUS
<1>1. PICK n \in Nat : n = Len(w)
  OBVIOUS
<1>2. /\ n # 0 /\ v \in Seq(Notes) /\ DOMAIN w = 1..n /\ DOMAIN v = 1..(n - 1)
      /\ \A p \in DOMAIN v : v[p] = w[p + 1]
      /\ w[1] = x
  BY <1>0, <1>a, <1>b, <1>1
<1>3. /\ \A p \in DOMAIN v : p \in Nat /\ p + 1 \in DOMAIN w
      /\ \A p \in DOMAIN w : p = 1 \/ (p - 1 \in DOMAIN v /\ v[p - 1] = w[p])
      /\ 1 \in DOMAIN w
  BY <1>2
<1>4. x \in Notes
  BY <1>2, <1>3
<1>5. Range(w) = Range(v) \cup {x}
  <2>1. \A p \in DOMAIN w : w[p] \in Range(v) \cup {x}
    BY <1>2, <1>3 DEF Range
  <2>2. \A p \in DOMAIN v : v[p] \in Range(w)
    BY <1>2, <1>3 DEF Range
  <2>3. x \in Range(w)
    BY <1>2, <1>3 DEF Range
  <2>4. Range(w) \subseteq Range(v) \cup {x}
    BY <2>1 DEF Range
  <2>5. Range(v) \cup {x} \subseteq Range(w)
    BY <2>2, <2>3 DEF Range
  <2> QED BY <2>4, <2>5
<1> QED BY <1>0, <1>a, <1>b, <1>2, <1>3, <1>4, <1>5

\* A note of Range(wire) is at some place.
LEMMA NoteIsSomewhere ==
  ASSUME NEW w, NEW x \in Range(w)
  PROVE \E p \in DOMAIN w : w[p] = x
BY DEF Range

\* The parts of ViewTyped that the proofs use most.
LEMMA ViewTypes ==
  ASSUME ViewTyped
  PROVE /\ \A t \in Talks : journals[t] \in Seq(Events) /\ DOMAIN journals[t] \in SUBSET Nat
        /\ Announced \in SUBSET Notes
        /\ view.meta \in Talks \cup {NoTalk} /\ view.events \in SUBSET Nat /\ view.activeTurn \in Nat
        /\ load.after \in Nat /\ load.next \in Nat /\ load.page \in {"none", "asked", "answered"}
        /\ load.active \in Nat /\ load.more \in BOOLEAN
        /\ run.stage \in Steps /\ run.awaits \in Nat /\ run.talk \in Talks \cup {NoTalk}
<1>1. Announced \in SUBSET Notes
  <2>1. Range(wire) \in SUBSET Notes
    <3>1. wire \in Seq(Notes)
      BY DEF ViewTyped
    <3>2. \A p \in DOMAIN wire : wire[p] \in Notes
      BY <3>1
    <3> QED BY <3>2 DEF Range
  <2> QED BY <2>1 DEF ViewTyped, Announced
<1>2. \A t \in Talks : journals[t] \in Seq(Events) /\ DOMAIN journals[t] \in SUBSET Nat
  BY DEF ViewTyped
<1> QED BY <1>1, <1>2 DEF ViewTyped, Snapshots, Selections, UserRuns

\* What the snapshot knows while nothing it depends on changes.
LEMMA NothingChanged ==
  ASSUME UNCHANGED <<journals, unsent, wire, view, run>>
  PROVE /\ Announced' = Announced /\ \A t : Pending(t)' = Pending(t)
        /\ InJournals /\ (linked => linked') => InJournals'
        /\ Current => Current'
        /\ NewsComeLast => NewsComeLast'
        /\ EndsFollow => EndsFollow'
        /\ BeginsAreAwaited => BeginsAreAwaited'
        /\ BeginsInPeace => BeginsInPeace'
        /\ OpenIsKnown => OpenIsKnown'
<1>1. Announced' = Announced
  BY DEF Announced
<1>2. \A t : Pending(t)' = Pending(t) /\ Active(t)' = Active(t)
  BY <1>1, ActiveIsOpen, ActiveLater DEF Pending
<1>3. /\ News' = News /\ MarksNow' = MarksNow /\ Active(view.meta)' = Active(view.meta)
      /\ \A i : Begin(i)' <=> Begin(i)
  BY <1>1, ActiveIsOpen, ActiveLater DEF News, MarksNow, Begin, Pending
<1>4. ASSUME InJournals, linked => linked'
      PROVE InJournals'
  BY <1>1, <1>2, <1>4 DEF InJournals
<1>5. Current => Current'
  BY DEF Current
<1>6. (NewsComeLast => NewsComeLast') /\ (EndsFollow => EndsFollow')
  BY <1>3 DEF NewsComeLast, EndsFollow
<1>7. (BeginsAreAwaited => BeginsAreAwaited') /\ (BeginsInPeace => BeginsInPeace')
  BY <1>3 DEF BeginsAreAwaited, BeginsInPeace
<1>8. OpenIsKnown => OpenIsKnown'
  BY <1>3 DEF OpenIsKnown
<1> QED BY <1>1, <1>2, <1>4, <1>5, <1>6, <1>7, <1>8

\* Turns, loads and the snapshot while journals, notifications, view and load stay.
LEMMA NothingHeard ==
  ASSUME ViewSound, UNCHANGED <<journals, unsent, wire, linked, view, load>>,
         run' \in UserRuns, spent' \in Spendings, AwaitsSoundly(run'),
         run'.stage # "idle" => /\ run'.talk \in Talks /\ run'.turn # 0
                                /\ load.page # "none" /\ load.talk # view.meta => run'.talk # load.talk,
         run'.stage = "beginning" /\ run'.awaits = 0 /\ run'.talk = view.meta /\ view.meta # NoTalk
           => News = {} /\ Active(view.meta) = 0,
         run.stage # "beginning" \/ run.awaits = 0
  PROVE ViewSound'
<1> USE DEF ViewSound
<1>1. ViewTyped' /\ InJournals'
  BY DEF ViewTyped, InJournals, Announced, Active, ActiveAmong
<1>2. LoadSound'
  BY DEF LoadSound, LastPage, Pending, Announced
<1>3. /\ News' = News /\ MarksNow' = MarksNow /\ Active(view.meta)' = Active(view.meta)
      /\ \A i : Begin(i)' <=> Begin(i)
  BY DEF News, MarksNow, Active, ActiveAmong, Begin, Pending, Announced
<1>4. ASSUME view.meta # NoTalk
      PROVE Current' /\ Covered' /\ NewsComeLast' /\ EndsFollow' /\ OpenIsKnown'
  <2>1. Current' /\ Covered'
    BY <1>4 DEF Current, Covered, Pending, Announced
  <2>2. NewsComeLast' /\ EndsFollow' /\ OpenIsKnown'
    BY <1>3, <1>4 DEF NewsComeLast, EndsFollow, OpenIsKnown
  <2> QED BY <2>1, <2>2
<1>5. ASSUME view.meta # NoTalk
      PROVE BeginsAreAwaited' /\ BeginsInPeace'
  <2>1. \A b \in News : ~Begin(b)
    <3>1. \A b \in News : b # 0
      <4>1. \A b \in News : b \in DOMAIN journals[view.meta] /\ journals[view.meta] \in Seq(Events)
        BY <1>5, ViewTypes DEF News, MarksNow, MarksIn
      <4> QED BY <4>1
    <3> QED BY <1>5, <3>1 DEF BeginsAreAwaited
  <2>2. BeginsAreAwaited'
    BY <1>3, <2>1 DEF BeginsAreAwaited
  <2>3. BeginsInPeace'
    BY <1>3, <1>5 DEF BeginsInPeace
  <2> QED BY <2>2, <2>3
<1> QED BY <1>1, <1>2, <1>4, <1>5

----------------------------------------------------------------------------
(* Events that are appended.                                               *)

\* An event e of t is appended, and announced or to be announced.
Appending(t, e) ==
  /\ journals' = [journals EXCEPT ![t] = Append(@, e)]
  /\ unsent' \in SUBSET Notes /\ wire' \in Seq(Notes)
  /\ Announced' = Announced \cup {Note(t, Len(journals[t]) + 1)}
  /\ linked /\ UNCHANGED <<linked, view, load>>
  /\ run' \in UserRuns /\ spent' \in Spendings
  /\ e.kind = "turn_begin" => e.turn # 0
  /\ run'.stage # "idle" => run.stage # "idle" /\ run'.talk = run.talk /\ run'.turn # 0
  /\ AwaitsSoundly(run')
  /\ e.kind \in Marks /\ load.page # "none" /\ t = load.talk => t = view.meta

\* What is appended to a journal, and what stays.
LEMMA AppendedTo ==
  ASSUME ViewSound, NEW t \in Talks, NEW e \in Events, Appending(t, e), NEW n, n = Len(journals[t]) + 1
  PROVE /\ n \in Nat \ {0} /\ n \notin DOMAIN journals[t] /\ \A i \in DOMAIN journals[t] : i < n
        /\ journals' \in [Talks -> Seq(Events)]
        /\ \A s \in Talks \ {t} : journals'[s] = journals[s]
        /\ Len(journals'[t]) = n /\ DOMAIN journals'[t] = DOMAIN journals[t] \cup {n}
        /\ \A i \in DOMAIN journals[t] : journals'[t][i] = journals[t][i]
        /\ journals'[t][n] = e
        /\ \A s \in Talks \ {t} : Pending(s)' = Pending(s)
        /\ Pending(t)' = Pending(t) \cup {n}
        /\ Note(t, n) \notin Announced
<1>1. journals \in [Talks -> Seq(Events)] /\ journals[t] \in Seq(Events)
  BY DEF ViewSound, ViewTyped
<1>2. PICK k : k = Append(journals[t], e)
  OBVIOUS
<1>3. /\ k \in Seq(Events) /\ Len(k) = n /\ Len(journals[t]) \in Nat
      /\ n \notin DOMAIN journals[t] /\ DOMAIN k = DOMAIN journals[t] \cup {n}
      /\ \A i \in DOMAIN journals[t] : k[i] = journals[t][i] /\ i < n
      /\ k[n] = e
  BY <1>1, <1>2, AppendedEvent
<1>4. journals' = [journals EXCEPT ![t] = k]
  BY <1>2 DEF Appending
<1>5. journals' \in [Talks -> Seq(Events)] /\ journals'[t] = k /\ \A s \in Talks \ {t} : journals'[s] = journals[s]
  BY <1>1, <1>3, <1>4
<1>6. Announced' = Announced \cup {Note(t, n)}
  BY DEF Appending
<1>7. Note(t, n) \notin Announced
  <2>1. \A x \in Announced : x.sequence \in DOMAIN journals[x.talk]
    BY DEF ViewSound, InJournals
  <2> QED BY <1>3, <2>1 DEF Note
<1>8. \A s \in Talks \ {t} : Pending(s)' = Pending(s)
  BY <1>5, <1>6 DEF Pending, Note
<1>9. Pending(t)' = Pending(t) \cup {n}
  BY <1>3, <1>5, <1>6 DEF Pending, Note
<1> QED BY <1>3, <1>5, <1>7, <1>8, <1>9

\* What that keeps of the turns of a conversation.
LEMMA AppendedTurns ==
  ASSUME ViewSound, NEW t \in Talks, NEW e \in Events, Appending(t, e), NEW n, n = Len(journals[t]) + 1,
         NEW s \in Talks
  PROVE /\ \A S \in SUBSET DOMAIN journals[s] : OpenIn(journals'[s], S) = OpenIn(journals[s], S)
        /\ MarksIn(journals'[s], DOMAIN journals'[s])
             = MarksIn(journals[s], DOMAIN journals[s]) \cup (IF s = t THEN MarkAt(e, n) ELSE {})
        /\ s # t \/ e.kind \notin Marks => Active(s)' = Active(s)
        /\ e.kind \in Marks => Active(t)' = Opened(e)
<1>1. /\ n \in Nat /\ DOMAIN journals'[t] = DOMAIN journals[t] \cup {n}
      /\ \A i \in DOMAIN journals[t] : journals'[t][i] = journals[t][i] /\ i < n
      /\ journals'[t][n] = e
      /\ journals'[t] \in Seq(Events) /\ journals[t] \in Seq(Events)
      /\ s # t => journals'[s] = journals[s]
  BY AppendedTo, ViewTypes DEF ViewSound
<1>2. Active(s)' = OpenIn(journals'[s], DOMAIN journals'[s]) /\ Active(s) = OpenIn(journals[s], DOMAIN journals[s])
  BY DEF Active, ActiveAmong, OpenIn
<1>3. Active(t)' = OpenIn(journals'[t], DOMAIN journals'[t])
  BY DEF Active, ActiveAmong, OpenIn
<1>4. PICK k \in Seq(Events) : k = journals'[t]
  BY <1>1
<1>5. PICK j \in Seq(Events) : j = journals[t]
  BY <1>1
<1>6. /\ MarksIn(k, DOMAIN k) = MarksIn(j, DOMAIN j) \cup MarkAt(k[n], n)
      /\ \A S \in SUBSET DOMAIN j : OpenIn(k, S) = OpenIn(j, S)
      /\ k[n].kind \notin Marks => OpenIn(k, DOMAIN k) = OpenIn(j, DOMAIN j)
      /\ k[n].kind \in Marks => OpenIn(k, DOMAIN k) = Opened(k[n])
  <2>1. DOMAIN k = DOMAIN j \cup {n} /\ \A i \in DOMAIN j : k[i] = j[i] /\ i < n
    BY <1>1, <1>4, <1>5
  <2>2. PICK m \in Nat : m = n
    BY <1>1
  <2>3. /\ MarksIn(k, DOMAIN k) = MarksIn(j, DOMAIN j) \cup MarkAt(k[m], m)
        /\ \A S \in SUBSET DOMAIN j : OpenIn(k, S) = OpenIn(j, S)
        /\ k[m].kind \notin Marks => OpenIn(k, DOMAIN k) = OpenIn(j, DOMAIN j)
        /\ k[m].kind \in Marks => OpenIn(k, DOMAIN k) = Opened(k[m])
    <3>1. DOMAIN k = DOMAIN j \cup {m} /\ \A i \in DOMAIN j : k[i] = j[i] /\ i < m
      BY <2>1, <2>2
    <3> HIDE <1>4, <1>5, <2>1, <2>2
    <3> QED BY <3>1, AppendedMarks
  <2> QED BY <2>2, <2>3
<1>7. CASE s = t
  BY <1>1, <1>2, <1>3, <1>4, <1>5, <1>6, <1>7
<1>8. CASE s # t
  <2>1. journals'[s] = journals[s]
    BY <1>1, <1>8
  <2>2. Active(t)' = OpenIn(k, DOMAIN k) /\ k[n] = e
    BY <1>1, <1>3, <1>4
  <2> QED BY <1>2, <1>6, <1>8, <2>1, <2>2
<1> QED BY <1>7, <1>8

\* What holds after an event is appended, whatever its kind.
LEMMA AppendingKeeps ==
  ASSUME ViewSound, NEW t \in Talks, NEW e \in Events, Appending(t, e)
  PROVE /\ ViewTyped' /\ InJournals' /\ LoadSound'
        /\ view.meta # NoTalk => Current' /\ Covered'
<1> DEFINE n == Len(journals[t]) + 1
<1>1. /\ n \in Nat \ {0} /\ n \notin DOMAIN journals[t] /\ \A i \in DOMAIN journals[t] : i < n
      /\ journals' \in [Talks -> Seq(Events)]
      /\ \A s \in Talks \ {t} : journals'[s] = journals[s]
      /\ Len(journals'[t]) = n /\ DOMAIN journals'[t] = DOMAIN journals[t] \cup {n}
      /\ \A i \in DOMAIN journals[t] : journals'[t][i] = journals[t][i]
      /\ journals'[t][n] = e
      /\ \A s \in Talks \ {t} : Pending(s)' = Pending(s)
      /\ Pending(t)' = Pending(t) \cup {n}
  BY AppendedTo
<1>2. \A s \in Talks :
        /\ \A S \in SUBSET DOMAIN journals[s] : OpenIn(journals'[s], S) = OpenIn(journals[s], S)
        /\ s # t \/ e.kind \notin Marks =>
             MarksIn(journals'[s], DOMAIN journals'[s]) = MarksIn(journals[s], DOMAIN journals[s])
  BY AppendedTurns DEF MarkAt
<1>3. /\ Announced' = Announced \cup {Note(t, n)} /\ Announced \in SUBSET Notes
      /\ linked /\ linked' = linked /\ view' = view /\ load' = load
      /\ unsent' \in SUBSET Notes /\ wire' \in Seq(Notes) /\ run' \in UserRuns /\ spent' \in Spendings
  BY ViewTypes DEF Appending, ViewSound
<1> HIDE DEF n
<1>4. ViewTyped'
  BY <1>1, <1>3 DEF ViewSound, ViewTyped
<1>5. \A s \in Talks : Len(journals[s]) \in Nat /\ Len(journals'[s]) \in Nat /\ Len(journals[s]) <= Len(journals'[s])
                       /\ DOMAIN journals[s] = 1..Len(journals[s]) /\ DOMAIN journals[s] \subseteq DOMAIN journals'[s]
  <2>1. \A s \in Talks : journals[s] \in Seq(Events) /\ journals'[s] \in Seq(Events)
    BY <1>1, ViewTypes DEF ViewSound
  <2>2. n = Len(journals[t]) + 1
    BY DEF n
  <2> QED BY <1>1, <2>1, <2>2
<1>6. InJournals'
  <2>1. \A s \in Talks : \A i \in DOMAIN journals'[s] : journals'[s][i].kind = "turn_begin" => journals'[s][i].turn # 0
    BY <1>1 DEF ViewSound, InJournals, Appending
  <2>2. \A x \in Announced' : x.sequence \in DOMAIN journals'[x.talk]
    <3>1. \A x \in Announced : x.sequence \in DOMAIN journals[x.talk] /\ x.talk \in Talks
      BY <1>3 DEF ViewSound, InJournals, Notes
    <3> QED BY <1>1, <1>3, <1>5, <3>1 DEF Note
  <2>3. view.meta # NoTalk => view.events \subseteq DOMAIN journals'[view.meta]
    BY <1>5, ViewTypes DEF ViewSound, InJournals
  <2>4. /\ run'.stage # "idle" => run'.talk \in Talks /\ run'.turn # 0
        /\ AwaitsSoundly(run')
    BY DEF ViewSound, InJournals, Appending
  <2>5. view.meta = NoTalk => view.events = {} /\ view.activeTurn = 0
    BY DEF ViewSound, InJournals
  <2> QED BY <1>3, <2>1, <2>2, <2>3, <2>4, <2>5 DEF InJournals
<1>7. LoadSound'
  <2>1. CASE load.page = "none"
    BY <1>3, <2>1 DEF ViewSound, LoadSound
  <2>2. CASE load.page # "none"
    <3>1. PICK s \in Talks : s = load.talk
      BY <2>2 DEF ViewSound, LoadSound
    <3>2. /\ load.events = 1..load.after /\ load.after <= Len(journals'[load.talk])
          /\ load.buffer \subseteq DOMAIN journals'[load.talk]
          /\ load.talk # view.meta => run'.stage = "idle" \/ run'.talk # load.talk
          /\ load.talk = view.meta => load.buffer \subseteq view.events
      <4>1. load.after \in Nat
        BY ViewTypes DEF ViewSound
      <4> QED BY <1>5, <2>2, <3>1, <4>1 DEF ViewSound, LoadSound, Appending
    <3>3. ASSUME load.page = "answered"
          PROVE load.after <= load.next /\ load.next <= Len(journals'[load.talk])
      <4>1. load.next \in Nat
        BY ViewTypes DEF ViewSound
      <4> QED BY <1>5, <3>1, <3>3, <4>1 DEF ViewSound, LoadSound
    <3>4. ASSUME load.page = "answered", ~load.more
          PROVE LastPage'
      <4>1. LastPage /\ load.next <= Len(journals[s]) /\ load.next \in Nat
        BY <3>1, <3>4, ViewTypes DEF ViewSound, LoadSound
      <4>2. (1..load.next) \in SUBSET DOMAIN journals[s]
        BY <1>5, <4>1
      <4>3. OpenIn(journals'[s], 1..load.next) = OpenIn(journals[s], 1..load.next)
        BY <1>2, <4>2
      <4>4. load.active = OpenIn(journals'[s], 1..load.next)
        BY <3>1, <4>1, <4>3 DEF LastPage
      <4>5. DOMAIN journals'[s] \subseteq (1..load.next) \cup load.buffer \cup Pending(s)'
        BY <1>1, <3>1, <4>1 DEF LastPage
      <4>6. s # view.meta => \A i \in MarksIn(journals'[s], DOMAIN journals'[s]) : i <= load.next
        <5>1. s # view.meta => s # t \/ e.kind \notin Marks
          BY <2>2, <3>1 DEF Appending
        <5> QED BY <1>2, <3>1, <4>1, <5>1 DEF LastPage
      <4>7. s = view.meta => view.events \subseteq (1..load.next) \cup load.buffer
        BY <3>1, <4>1 DEF LastPage
      <4> QED BY <1>3, <3>1, <4>4, <4>5, <4>6, <4>7 DEF LastPage
    <3> QED BY <1>3, <2>2, <3>1, <3>2, <3>3, <3>4 DEF LoadSound
  <2> QED BY <2>1, <2>2
<1>8. ASSUME view.meta # NoTalk
      PROVE Current' /\ Covered'
  <2>1. PICK s \in Talks : s = view.meta
    BY <1>8, ViewTypes DEF ViewSound
  <2>2. view.events \in SUBSET DOMAIN journals[s] /\ Current /\ Covered
    BY <1>8, <2>1 DEF ViewSound, InJournals
  <2>3. Current'
    BY <1>2, <1>3, <2>1, <2>2 DEF Current
  <2>4. Covered'
    BY <1>1, <1>3, <2>1, <2>2 DEF Covered
  <2> QED BY <2>3, <2>4
<1> QED BY <1>4, <1>6, <1>7, <1>8

\* The marks and the news of the snapshot after an event is appended.
LEMMA AppendedNews ==
  ASSUME ViewSound, NEW t \in Talks, NEW e \in Events, Appending(t, e), NEW n, n = Len(journals[t]) + 1,
         view.meta # NoTalk
  PROVE /\ MarksNow \in SUBSET Nat /\ News \in SUBSET MarksNow
        /\ MarksNow' = MarksNow \cup (IF t = view.meta THEN MarkAt(e, n) ELSE {})
        /\ News' = News \cup (IF t = view.meta THEN MarkAt(e, n) ELSE {})
        /\ \A i \in MarksNow : Begin(i)' <=> Begin(i)
        /\ t = view.meta => n \in Nat \ {0} /\ (Begin(n)' <=> e.kind = "turn_begin") /\ \A m \in MarksNow : m < n
<1>1. PICK s \in Talks : s = view.meta
  BY ViewTypes DEF ViewSound
<1>2. view' = view
  BY DEF Appending
<1>3. MarksIn(journals'[s], DOMAIN journals'[s])
        = MarksIn(journals[s], DOMAIN journals[s]) \cup (IF s = t THEN MarkAt(e, n) ELSE {})
  BY AppendedTurns
<1>4. MarksNow' = MarksNow \cup (IF s = t THEN MarkAt(e, n) ELSE {})
  BY <1>1, <1>2, <1>3 DEF MarksNow
<1>5. MarksNow \in SUBSET DOMAIN journals[s] /\ DOMAIN journals[s] \in SUBSET Nat
  BY <1>1, ViewTypes DEF ViewSound, MarksNow, MarksIn
<1>6. /\ n \in Nat \ {0} /\ n \notin DOMAIN journals[t] /\ \A i \in DOMAIN journals[t] : i < n
      /\ \A r \in Talks \ {t} : journals'[r] = journals[r]
      /\ \A i \in DOMAIN journals[t] : journals'[t][i] = journals[t][i]
      /\ journals'[t][n] = e
      /\ \A r \in Talks \ {t} : Pending(r)' = Pending(r)
      /\ Pending(t)' = Pending(t) \cup {n}
  BY AppendedTo
<1>7. \A i \in MarksNow : Begin(i)' <=> Begin(i)
  BY <1>1, <1>2, <1>5, <1>6 DEF Begin
<1>8. t = s => (Begin(n)' <=> e.kind = "turn_begin") /\ \A m \in MarksNow : m < n
  BY <1>1, <1>2, <1>5, <1>6 DEF Begin
<1>9. News' = News \cup (IF s = t THEN MarkAt(e, n) ELSE {})
  <2>1. /\ News' = {i \in MarksNow' : i \in Pending(view.meta)' /\ i \notin view.events}
        /\ News = {i \in MarksNow : i \in Pending(s) /\ i \notin view.events}
        /\ Pending(view.meta)' = Pending(s)'
    BY <1>1, <1>2 DEF News, Pending
  <2>2. CASE s = t
    <3>1. n \notin view.events
      BY <1>1, <1>6, <2>2 DEF ViewSound, InJournals
    <3>2. \A i \in MarksNow : i \in Pending(s)' <=> i \in Pending(s)
      BY <1>5, <1>6, <2>2
    <3>3. n \in Pending(s)'
      BY <1>6, <2>2
    <3>4. \A i \in MarkAt(e, n) : i = n
      BY DEF MarkAt
    <3> QED BY <1>4, <2>1, <2>2, <3>1, <3>2, <3>3, <3>4
  <2>3. CASE s # t
    BY <1>4, <1>6, <2>1, <2>3
  <2> QED BY <2>2, <2>3
<1> QED BY <1>1, <1>4, <1>5, <1>6, <1>7, <1>8, <1>9 DEF News

\* What the snapshot is still to hear is the same when no mark of its conversation is appended.
LEMMA OtherAppends ==
  ASSUME ViewSound, NEW t \in Talks, NEW e \in Events, Appending(t, e),
         t # view.meta \/ e.kind \notin Marks,
         \/ AppendSent(t, e) /\ (run.stage # "beginning" \/ run.awaits = 0)
         \/ unsent' = unsent \cup {Note(t, Len(journals[t]) + 1)} /\ wire' = wire /\ run' = run,
         run'.stage = "beginning" /\ run'.awaits = 0 /\ run'.talk = view.meta => run' = run
  PROVE ViewSound'
<1> USE DEF ViewSound
<1>1. PICK n : n = Len(journals[t]) + 1
  OBVIOUS
<1>2. ViewTyped' /\ InJournals' /\ LoadSound' /\ (view.meta # NoTalk => Current' /\ Covered')
  BY AppendingKeeps
<1>3. view' = view
  BY DEF Appending
<1>4. ASSUME view.meta # NoTalk
      PROVE NewsComeLast' /\ EndsFollow' /\ BeginsAreAwaited' /\ BeginsInPeace' /\ OpenIsKnown'
  <2>1. /\ News \in SUBSET MarksNow /\ MarksNow \in SUBSET Nat /\ MarksNow' = MarksNow /\ News' = News
        /\ \A i \in MarksNow : Begin(i)' <=> Begin(i)
    BY <1>1, <1>4, AppendedNews DEF MarkAt
  <2>2. Active(view.meta)' = Active(view.meta)
    <3>1. PICK s \in Talks : s = view.meta
      BY <1>4, ViewTypes
    <3>2. Active(s)' = Active(s)
      BY <1>1, <3>1, AppendedTurns
    <3> QED BY <1>3, <3>1, <3>2, ActiveLater
  <2>3. NewsComeLast' /\ EndsFollow' /\ OpenIsKnown'
    BY <1>3, <1>4, <2>1, <2>2 DEF NewsComeLast, EndsFollow, OpenIsKnown
  <2>4. BeginsInPeace'
    BY <1>3, <1>4, <2>1, <2>2 DEF BeginsInPeace
  <2>5. BeginsAreAwaited'
    <3>1. CASE run.stage # "beginning" \/ run.awaits = 0
      <4>1. \A b \in News : b # 0
        <5>1. \A b \in News : b \in DOMAIN journals[view.meta] /\ journals[view.meta] \in Seq(Events)
          BY <1>4, ViewTypes DEF News, MarksNow, MarksIn
        <5> QED BY <5>1
      <4>2. \A b \in News : ~Begin(b)
        BY <1>4, <3>1, <4>1 DEF BeginsAreAwaited
      <4> QED BY <2>1, <4>2 DEF BeginsAreAwaited
    <3>2. CASE unsent' = unsent \cup {Note(t, n)} /\ wire' = wire /\ run' = run
      <4>1. \A b \in News : Note(view.meta, b) # Note(t, n)
        <5>1. \A b \in News : b \in DOMAIN journals[view.meta]
          BY DEF News, MarksNow, MarksIn
        <5>2. n \notin DOMAIN journals[t]
          BY <1>1, AppendedTo
        <5> QED BY <5>1, <5>2 DEF Note
      <4> QED BY <1>3, <1>4, <2>1, <3>2, <4>1 DEF BeginsAreAwaited
    <3> QED BY <1>1, <3>1, <3>2
  <2> QED BY <2>3, <2>4, <2>5
<1> QED BY <1>2, <1>3, <1>4

\* The run begins its turn in the conversation shown: the only news.
LEMMA BeginAppends ==
  ASSUME ViewSound, NEW e \in Events, view.meta \in Talks, Appending(view.meta, e), e.kind = "turn_begin",
         AppendSent(view.meta, e),
         run.stage = "beginning", run.awaits = 0, run.talk = view.meta,
         run'.stage = "beginning", run'.talk = view.meta, run'.asked = "turn_begin",
         run'.awaits = Len(journals[view.meta]) + 1
  PROVE ViewSound'
<1> USE DEF ViewSound
<1>1. PICK t \in Talks : t = view.meta
  OBVIOUS
<1>2. PICK n : n = Len(journals[t]) + 1
  OBVIOUS
<1>3. view' = view /\ view.meta # NoTalk
  BY TalksAreNamed DEF Appending
<1>4. ViewTyped' /\ InJournals' /\ LoadSound' /\ (view.meta # NoTalk => Current' /\ Covered')
  BY AppendingKeeps
<1>5. Appending(t, e)
  BY <1>1
<1>6. News = {}
  BY <1>3 DEF BeginsInPeace
<1>7. MarkAt(e, n) = {n}
  BY DEF MarkAt, Marks
<1>8. /\ MarksNow \in SUBSET Nat /\ MarksNow' = MarksNow \cup {n} /\ News' = {n} /\ n \in Nat \ {0}
      /\ Begin(n)' /\ \A m \in MarksNow : m < n
  BY <1>1, <1>2, <1>3, <1>5, <1>6, <1>7, AppendedNews
<1>9. NewsComeLast' /\ EndsFollow' /\ OpenIsKnown'
  BY <1>8 DEF NewsComeLast, EndsFollow, OpenIsKnown
<1>10. BeginsInPeace'
  BY <1>1, <1>2, <1>8 DEF BeginsInPeace
<1>11. BeginsAreAwaited'
  <2>1. Note(t, n) \notin unsent'
    <3>1. Note(t, n) \notin Announced
      BY <1>2, <1>5, AppendedTo
    <3> QED BY <3>1 DEF AppendSent, Announced
  <2> QED BY <1>1, <1>2, <1>3, <1>8, <2>1 DEF BeginsAreAwaited
<1> QED BY <1>3, <1>4, <1>9, <1>10, <1>11

\* A turn of the conversation shown ends: by the run, or stopped by the user.
LEMMA EndAppends ==
  ASSUME ViewSound, NEW e \in Events, view.meta \in Talks, Appending(view.meta, e),
         e.kind \in Marks \ {"turn_begin"}, Active(view.meta) # 0,
         \/ run.stage # "beginning" /\ run'.stage # "beginning"
         \/ wire' = wire /\ run' = run
              /\ unsent' = unsent \cup {Note(view.meta, Len(journals[view.meta]) + 1)}
  PROVE ViewSound'
<1> USE DEF ViewSound
<1>1. PICK t \in Talks : t = view.meta
  OBVIOUS
<1>2. PICK n : n = Len(journals[t]) + 1
  OBVIOUS
<1>3. view' = view /\ view.meta # NoTalk
  BY TalksAreNamed DEF Appending
<1>4. ViewTyped' /\ InJournals' /\ LoadSound' /\ (view.meta # NoTalk => Current' /\ Covered')
  BY AppendingKeeps
<1>5. Appending(t, e)
  BY <1>1
<1>6. MarkAt(e, n) = {n}
  BY DEF MarkAt
<1>7. /\ News \in SUBSET MarksNow /\ MarksNow \in SUBSET Nat
      /\ MarksNow' = MarksNow \cup {n} /\ News' = News \cup {n} /\ n \in Nat \ {0}
      /\ ~Begin(n)' /\ \A m \in MarksNow : m < n
      /\ \A i \in MarksNow : Begin(i)' <=> Begin(i)
  BY <1>1, <1>2, <1>3, <1>5, <1>6, AppendedNews
<1>8. PICK b \in MarksNow : b \in view.events \cup News /\ Begin(b) /\ \A m \in MarksNow : m <= b
  <2>1. PICK c \in MarksNow : c \in view.events \cup News /\ \A m \in MarksNow : m <= c
    BY <1>3 DEF OpenIsKnown
  <2>2. PICK j \in Seq(Events) : j = journals[t]
    BY ViewTypes
  <2>3. PICK S \in SUBSET DOMAIN j : S = DOMAIN j
    OBVIOUS
  <2>4. OpenIn(j, S) # 0
    BY <1>1, <2>2, <2>3, ActiveIsOpen
  <2>5. PICK d \in MarksIn(j, S) : j[d].kind = "turn_begin" /\ \A i \in MarksIn(j, S) : i <= d
    BY <2>4, OpenWasBegun
  <2>6. MarksIn(j, S) = MarksNow
    BY <1>1, <2>2, <2>3 DEF MarksNow
  <2>7. c <= d /\ d <= c /\ c \in Nat /\ d \in Nat
    BY <1>7, <2>1, <2>5, <2>6
  <2>8. Begin(c)
    BY <1>1, <2>2, <2>5, <2>7 DEF Begin
  <2> QED BY <2>1, <2>8
<1>9. \A x \in News : Begin(x)
  <2> SUFFICES ASSUME NEW x \in News, ~Begin(x)
               PROVE FALSE
    OBVIOUS
  <2>1. PICK c \in MarksNow : c < x /\ \A m \in MarksNow \ {x} : m <= c
    BY <1>3 DEF EndsFollow
  <2>2. b # x
    BY <1>8
  <2> QED BY <1>7, <1>8, <2>1, <2>2
<1>10. NewsComeLast'
  <2>1. \A m \in MarksNow' \ News' : m \in MarksNow \ News
    BY <1>7
  <2> QED BY <1>3, <1>7, <2>1 DEF NewsComeLast
<1>11. EndsFollow'
  <2>1. \A x \in News' : ~Begin(x)' => x = n
    BY <1>7, <1>9
  <2>2. b \in MarksNow' /\ Begin(b)' /\ b \in (view.events \cup News)' /\ b < n /\ \A m \in MarksNow' \ {n} : m <= b
    BY <1>3, <1>7, <1>8
  <2> QED BY <2>1, <2>2 DEF EndsFollow
<1>12. Active(view.meta)' = 0
  <2>1. Active(t)' = Opened(e)
    BY <1>2, <1>5, AppendedTurns
  <2> QED BY <1>1, <1>3, <2>1, ActiveLater DEF Opened
<1>13. OpenIsKnown'
  BY <1>12 DEF OpenIsKnown
<1>14. BeginsInPeace'
  <2>1. ~(run'.stage = "beginning" /\ run'.awaits = 0 /\ run'.talk = view.meta)
    BY <1>3 DEF BeginsInPeace
  <2> QED BY <1>3, <2>1 DEF BeginsInPeace
<1>15. BeginsAreAwaited'
  <2>1. CASE run.stage # "beginning" /\ run'.stage # "beginning"
    <3>1. News = {}
      BY <1>3, <1>9, <2>1 DEF BeginsAreAwaited
    <3> QED BY <1>7, <3>1 DEF BeginsAreAwaited
  <2>2. CASE wire' = wire /\ run' = run /\ unsent' = unsent \cup {Note(t, n)}
    <3>1. Note(t, n) \notin Range(wire)
      BY <1>2, <1>5, AppendedTo DEF Announced
    <3>2. \A p \in DOMAIN wire : wire[p] # Note(t, n)
      BY <3>1 DEF Range
    <3>3. \A p \in DOMAIN wire : wire[p].talk = t /\ wire[p].sequence = n => wire[p] = Note(t, n)
      <4>1. \A p \in DOMAIN wire : wire[p] \in Notes
        BY DEF ViewTyped
      <4> QED BY <4>1 DEF Notes, Note
    <3>4. \A p \in DOMAIN wire : wire[p].talk = t /\ wire[p].sequence \in News' => wire[p].sequence \in News
      BY <1>7, <3>2, <3>3
    <3>5. \A c \in News : Note(t, c) # Note(t, n)
      BY <1>7 DEF Note
    <3>6. \A c \in News' : Begin(c)' => c \in News /\ Begin(c)
      BY <1>7
    <3> QED BY <1>1, <1>3, <2>2, <3>4, <3>5, <3>6 DEF BeginsAreAwaited
  <2> QED BY <1>1, <1>2, <2>1, <2>2
<1> QED BY <1>3, <1>4, <1>10, <1>11, <1>13, <1>14, <1>15

----------------------------------------------------------------------------
(* Steps of the native side and of the run.                                *)

\* append by a caller that waits for the answer.
LEMMA SentIsAppending ==
  ASSUME ViewSound, linked, NEW t \in Talks, NEW e \in Events, AppendSent(t, e),
         UNCHANGED <<linked, view, load>>, run' \in UserRuns, spent' \in Spendings,
         e.kind = "turn_begin" => e.turn # 0,
         run'.stage # "idle" => run.stage # "idle" /\ run'.talk = run.talk /\ run'.turn # 0,
         AwaitsSoundly(run'),
         e.kind \in Marks /\ load.page # "none" /\ t = load.talk => t = view.meta
  PROVE Appending(t, e)
<1>1. PICK n \in Nat : n = Len(journals[t]) + 1
  BY ViewTypes DEF ViewSound
<1>2. Note(t, n) \in Notes
  BY DEF Note, Notes
<1>3. wire' = Append(wire, Note(t, n)) /\ unsent' = unsent
  BY <1>1 DEF AppendSent, Note
<1>4. wire' \in Seq(Notes) /\ Range(wire') = Range(wire) \cup {Note(t, n)}
  BY <1>2, <1>3, AnnouncedLast DEF ViewSound
<1>5. Announced' = Announced \cup {Note(t, n)}
  BY <1>3, <1>4 DEF Announced
<1>6. unsent' \in SUBSET Notes
  BY <1>3 DEF ViewSound, ViewTyped
<1> QED BY <1>1, <1>4, <1>5, <1>6 DEF Appending, AppendSent

\* append by another task.
LEMMA UnsentIsAppending ==
  ASSUME ViewSound, linked, NEW t \in Talks, NEW e \in Events, AppendUnsent(t, e),
         UNCHANGED <<linked, view, load, run>>, e.kind # "turn_begin",
         e.kind \in Marks /\ load.page # "none" /\ t = load.talk => t = view.meta
  PROVE Appending(t, e) /\ unsent' = unsent \cup {Note(t, Len(journals[t]) + 1)} /\ wire' = wire
<1>1. PICK n \in Nat : n = Len(journals[t]) + 1
  BY ViewTypes DEF ViewSound
<1>2. Note(t, n) \in Notes
  BY DEF Note, Notes
<1>3. wire' = wire /\ unsent' = unsent \cup {Note(t, n)}
  BY <1>1 DEF AppendUnsent, Note
<1>4. Announced' = Announced \cup {Note(t, n)}
  BY <1>3 DEF Announced
<1>5. unsent' \in SUBSET Notes /\ wire' \in Seq(Notes)
  BY <1>2, <1>3 DEF ViewSound, ViewTyped
<1>6. spent' \in Spendings
  <2>1. spent \in Spendings /\ spent' = [spent EXCEPT !.aside = @ + 1]
    BY DEF AppendUnsent, ViewSound, ViewTyped
  <2> QED BY <2>1 DEF Spendings
<1>7. /\ run' = run /\ run \in UserRuns
      /\ (run.stage # "idle" => run.turn # 0) /\ AwaitsSoundly(run)
  BY DEF ViewSound, ViewTyped, InJournals
<1> QED BY <1>1, <1>3, <1>4, <1>5, <1>6, <1>7 DEF Appending, AppendUnsent

\* A turn that is open is one of a journal of Talks, while the process runs.
LEMMA ActiveIsTyped ==
  ASSUME ViewSound, NEW t \in Talks
  PROVE Active(t) \in Nat /\ (Active(t) # 0 => linked)
<1>1. PICK j \in Seq(Events) : j = journals[t]
  BY ViewTypes DEF ViewSound
<1>2. PICK S \in SUBSET DOMAIN j : S = DOMAIN j
  OBVIOUS
<1>3. OpenIn(j, S) \in Nat
  BY OpenIsTyped
<1>4. Active(t) = OpenIn(j, S)
  BY <1>1, <1>2, ActiveIsOpen
<1> QED BY <1>3, <1>4 DEF ViewSound, InJournals, ViewTyped

\* The events of the kernel: no marks.
LEMMA ModelSpeaksIsSound ==
  ASSUME ViewSound, ModelSpeaks
  PROVE ViewSound'
<1>1. PICK t \in Talks : Active(t) # 0 /\ AppendUnsent(t, Event("model", Active(t), 0))
  BY DEF ModelSpeaks
<1>2. PICK e : e = Event("model", Active(t), 0)
  OBVIOUS
<1>3. e \in Events /\ e.kind = "model" /\ linked
  BY <1>1, <1>2, ActiveIsTyped DEF Events, Event, Words
<1>4. e.kind \notin Marks /\ UNCHANGED <<linked, view, load, run>>
  BY <1>3 DEF Marks, ModelSpeaks
<1>5. Appending(t, e) /\ unsent' = unsent \cup {Note(t, Len(journals[t]) + 1)} /\ wire' = wire
  BY <1>1, <1>2, <1>3, <1>4, UnsentIsAppending
<1> QED BY <1>3, <1>4, <1>5, OtherAppends

\* session/cancel by the user: the end of the open turn.
LEMMA UserStopsIsSound ==
  ASSUME ViewSound, UserStops
  PROVE ViewSound'
<1>1. PICK t \in Talks : t = view.meta /\ Active(t) # 0 /\ AppendUnsent(t, Event("interrupted", Active(t), 0))
  BY ViewTypes DEF UserStops, ViewSound
<1>2. PICK e : e = Event("interrupted", Active(t), 0)
  OBVIOUS
<1>3. e \in Events /\ e.kind = "interrupted" /\ linked
  BY <1>1, <1>2, ActiveIsTyped DEF Events, Event, Words, Marks
<1>4. e.kind \in Marks \ {"turn_begin"} /\ UNCHANGED <<linked, view, load, run>>
  BY <1>3 DEF Marks, UserStops
<1>5. Appending(t, e) /\ unsent' = unsent \cup {Note(t, Len(journals[t]) + 1)} /\ wire' = wire
  BY <1>1, <1>2, <1>3, <1>4, UnsentIsAppending
<1> QED BY <1>1, <1>3, <1>4, <1>5, EndAppends

\* A notification is sent: what is announced stays, and it is the last to be heard.
LEMMA SendsIsSound ==
  ASSUME ViewSound, Sends
  PROVE ViewSound'
<1> USE DEF ViewSound
<1>1. PICK u \in unsent : unsent' = unsent \ {u} /\ wire' = Append(wire, u)
  BY DEF Sends
<1>2. UNCHANGED <<journals, linked, view, load, run, spent>>
  BY DEF Sends
<1>3. u \in Notes /\ wire \in Seq(Notes)
  BY <1>1 DEF ViewTyped
<1>4. /\ wire' \in Seq(Notes) /\ Range(wire') = Range(wire) \cup {u}
      /\ \A p \in DOMAIN wire : p \in DOMAIN wire' /\ wire'[p] = wire[p]
      /\ \A p \in DOMAIN wire' : p \in DOMAIN wire \/ (wire'[p] = u /\ \A k \in DOMAIN wire : k \in 1..(p - 1))
  BY <1>1, <1>3, AnnouncedLast
<1>5. Announced' = Announced
  BY <1>1, <1>4 DEF Announced
<1>6. ViewTyped'
  BY <1>1, <1>2, <1>4 DEF ViewTyped
<1>7. InJournals'
  BY <1>1, <1>2, <1>5 DEF InJournals, Active, ActiveAmong
<1>8. LoadSound'
  BY <1>2, <1>5 DEF LoadSound, LastPage, Pending
<1>9. /\ News' = News /\ MarksNow' = MarksNow /\ Active(view.meta)' = Active(view.meta)
      /\ \A i : Begin(i)' <=> Begin(i)
  BY <1>2, <1>5 DEF News, MarksNow, Active, ActiveAmong, Begin, Pending
<1>10. ASSUME view.meta # NoTalk
       PROVE Current' /\ Covered' /\ NewsComeLast' /\ EndsFollow' /\ OpenIsKnown' /\ BeginsInPeace'
  <2>1. Current' /\ Covered'
    BY <1>2, <1>5, <1>10 DEF Current, Covered, Pending
  <2>2. NewsComeLast' /\ EndsFollow' /\ OpenIsKnown' /\ BeginsInPeace'
    BY <1>2, <1>9, <1>10 DEF NewsComeLast, EndsFollow, OpenIsKnown, BeginsInPeace
  <2> QED BY <2>1, <2>2
<1>11. ASSUME view.meta # NoTalk
       PROVE BeginsAreAwaited'
  <2> SUFFICES ASSUME NEW b \in News, Begin(b)
               PROVE /\ run.stage = "beginning" /\ run.talk = view.meta /\ run.awaits = b /\ run.asked = "turn_begin"
                     /\ Note(view.meta, b) \notin unsent'
                     /\ \A p \in DOMAIN wire' : wire'[p].talk = view.meta /\ wire'[p].sequence \in News \ {b}
                          => \E k \in 1..(p - 1) : wire'[k] = Note(view.meta, b)
    BY <1>2, <1>9 DEF BeginsAreAwaited
  <2>1. /\ run.stage = "beginning" /\ run.talk = view.meta /\ run.awaits = b /\ run.asked = "turn_begin"
        /\ Note(view.meta, b) \notin unsent
        /\ \A p \in DOMAIN wire : wire[p].talk = view.meta /\ wire[p].sequence \in News \ {b}
             => \E k \in 1..(p - 1) : wire[k] = Note(view.meta, b)
    BY <1>11 DEF BeginsAreAwaited
  <2>2. ASSUME NEW p \in DOMAIN wire', wire'[p].talk = view.meta, wire'[p].sequence \in News \ {b}
        PROVE \E k \in 1..(p - 1) : wire'[k] = Note(view.meta, b)
    <3>1. CASE p \in DOMAIN wire
      <4>1. PICK k \in 1..(p - 1) : wire[k] = Note(view.meta, b)
        BY <1>4, <2>1, <2>2, <3>1
      <4>2. k \in DOMAIN wire
        BY <1>3, <3>1
      <4> QED BY <1>4, <4>1, <4>2
    <3>2. CASE p \notin DOMAIN wire
      <4>1. Note(view.meta, b) \in Range(wire)
        BY <2>1 DEF News, Pending, Announced
      <4>2. PICK k \in DOMAIN wire : wire[k] = Note(view.meta, b)
        BY <4>1, NoteIsSomewhere
      <4> QED BY <1>4, <3>2, <4>2
    <3> QED BY <3>1, <3>2
  <2> QED BY <1>1, <2>1, <2>2
<1> QED BY <1>2, <1>6, <1>7, <1>8, <1>10, <1>11

\* A page is read, and what an answered selection may rely on holds.
LEMMA ReadsIsSound ==
  ASSUME ViewSound, Reads
  PROVE ViewSound'
<1> USE DEF ViewSound
<1>1. PICK t \in Talks : t = load.talk
  BY DEF Reads, LoadSound
<1>2. PICK j \in Seq(Events) : j = journals[t]
  BY ViewTypes
<1>3. PICK n \in Nat : n = Len(j)
  OBVIOUS
<1>4. PICK S \in SUBSET DOMAIN j : S = DOMAIN j
  OBVIOUS
<1>5. PICK next : /\ next = IF load.after + PageSize < n THEN load.after + PageSize ELSE n
                  /\ load' = [load EXCEPT !.page = "answered", !.next = next,
                                !.more = next < n, !.active = Active(t)]
  BY <1>1, <1>2, <1>3 DEF Reads
<1>6. /\ load.after \in Nat /\ load.after <= n /\ linked /\ load.page = "asked"
      /\ UNCHANGED <<journals, unsent, wire, linked, view, run, spent>>
  BY <1>1, <1>2, <1>3, ViewTypes DEF Reads, LoadSound
<1>7. next \in Nat /\ load.after <= next /\ next <= n
  BY <1>5, <1>6, PagesAreCounted
<1>8. Active(t) = OpenIn(j, S) /\ Active(t) \in Nat
  BY <1>1, <1>2, <1>4, ActiveIsOpen, OpenIsTyped
<1>9. /\ load' \in Selections /\ load'.talk = t /\ load'.page = "answered" /\ load'.next = next
      /\ (load'.more <=> next < n) /\ load'.active = OpenIn(j, S) /\ load'.after = load.after
      /\ load'.events = load.events /\ load'.buffer = load.buffer
  <2>1. PICK more \in BOOLEAN : more <=> next < n
    OBVIOUS
  <2>2. PICK active \in Nat : active = Active(t)
    BY <1>8
  <2>3. load' = [load EXCEPT !.page = "answered", !.next = next, !.more = more, !.active = active]
    <3>1. more = (next < n)
      BY <1>7, <2>1
    <3> QED BY <1>5, <2>2, <3>1, Zenon
  <2>4. load \in Selections
    BY DEF ViewTyped
  <2> QED BY <1>1, <1>7, <1>8, <2>1, <2>2, <2>3, <2>4 DEF Selections
<1>10. ViewTyped' /\ InJournals'
  BY <1>6, <1>9, NothingChanged DEF ViewTyped
<1>11. ASSUME ~load'.more
       PROVE LastPage'
  <2>1. next = n
    BY <1>3, <1>7, <1>9, <1>11
  <2>2. S = 1..next
    BY <1>3, <1>4, <2>1
  <2>3. \A i \in MarksIn(j, S) : i <= next
    BY <2>2 DEF MarksIn
  <2>4. view.meta = t => view.events \subseteq S
    BY <1>2, <1>4, TalksAreNamed DEF InJournals
  <2> QED BY <1>2, <1>4, <1>6, <1>9, <2>2, <2>3, <2>4 DEF LastPage
<1>12. LoadSound'
  BY <1>1, <1>2, <1>3, <1>6, <1>7, <1>9, <1>11 DEF LoadSound
<1>13. load # NoLoad /\ load' # NoLoad
  BY <1>6, <1>9 DEF NoLoad
<1>14. ASSUME view.meta # NoTalk
       PROVE /\ Current' /\ Covered' /\ NewsComeLast' /\ EndsFollow'
             /\ BeginsAreAwaited' /\ BeginsInPeace' /\ OpenIsKnown'
  <2>1. Covered'
    BY <1>13 DEF Covered
  <2> QED BY <1>6, <1>14, <2>1, NothingChanged
<1> QED BY <1>6, <1>10, <1>12, <1>14

\* A selection begins, or the start of the process selects again: no page is read yet.
LEMMA LoadingIsSound ==
  ASSUME ViewSound, UNCHANGED <<journals, unsent, wire, view, run>>, spent' \in Spendings, linked' \in BOOLEAN,
         linked => linked',
         \/ \E t \in Talks : /\ load' = Loading(t)
                             /\ t # view.meta => run.stage = "idle" \/ run.talk # t
         \/ load' = load /\ (load = NoLoad /\ linked' => linked \/ view.meta = NoTalk)
  PROVE ViewSound'
<1> USE DEF ViewSound
<1>1. CASE \E t \in Talks : load' = Loading(t) /\ (t # view.meta => run.stage = "idle" \/ run.talk # t)
  <2>1. PICK t \in Talks : load' = Loading(t) /\ (t # view.meta => run.stage = "idle" \/ run.talk # t)
    BY <1>1
  <2>2. /\ load' = [talk |-> t, after |-> 0, events |-> {}, buffer |-> {}, page |-> "asked",
                    next |-> 0, more |-> FALSE, active |-> 0]
    BY <2>1 DEF Loading, NoLoad
  <2>3. load' \in Selections
    BY <2>2 DEF Selections
  <2>4. ViewTyped'
    BY <2>3 DEF ViewTyped
  <2>5. Len(journals[t]) \in Nat
    BY ViewTypes
  <2>6. LoadSound'
    BY <2>1, <2>2, <2>5 DEF LoadSound
  <2>7. load' # NoLoad
    BY <2>2 DEF NoLoad
  <2>8. Covered'
    BY <2>7 DEF Covered
  <2> QED BY <2>4, <2>6, <2>8, NothingChanged
<1>2. CASE load' = load /\ (load = NoLoad /\ linked' => linked \/ view.meta = NoTalk)
  <2>1. ViewTyped'
    BY <1>2 DEF ViewTyped
  <2>2. LoadSound'
    <3>1. LastPage' <=> LastPage
      BY <1>2, NothingChanged DEF LastPage
    <3>2. linked => linked'
      OBVIOUS
    <3> QED BY <1>2, <3>1, <3>2 DEF LoadSound
  <2>3. view.meta # NoTalk => Covered'
    BY <1>2, NothingChanged DEF Covered
  <2> QED BY <1>2, <2>1, <2>2, <2>3, NothingChanged
<1> QED BY <1>1, <1>2

\* The workspace selects a conversation.
LEMMA SelectIsSound ==
  ASSUME ViewSound, NEW t \in Talks, Select(t)
  PROVE ViewSound'
<1>1. spent' \in Spendings
  <2>1. spent \in Spendings /\ spent' = [spent EXCEPT !.selects = @ + 1]
    BY DEF Select, ViewSound, ViewTyped
  <2> QED BY <2>1 DEF Spendings
<1>2. linked' = linked /\ linked \in BOOLEAN /\ run.stage = "idle"
  BY DEF Select, Busy, ViewSound, ViewTyped
<1>3. load' = Loading(t) /\ UNCHANGED <<journals, unsent, wire, view, run>>
  BY DEF Select
<1> QED BY <1>1, <1>2, <1>3, LoadingIsSound

\* A new process is ready, and its selection begins.
LEMMA ReadyIsSound ==
  ASSUME ViewSound, Ready
  PROVE ViewSound'
<1>1. UNCHANGED <<journals, unsent, wire, view, run>> /\ linked' = TRUE
  BY DEF Ready
<1>2. spent' \in Spendings
  BY DEF Ready, ViewSound, ViewTyped
<1>3. CASE view.meta # NoTalk /\ load = NoLoad
  <2>1. load' = Loading(view.meta) /\ view.meta \in Talks
    BY <1>3, ViewTypes DEF Ready, ViewSound
  <2> QED BY <1>1, <1>2, <2>1, LoadingIsSound
<1>4. CASE ~(view.meta # NoTalk /\ load = NoLoad)
  <2>1. load' = load
    BY <1>4 DEF Ready
  <2> QED BY <1>1, <1>2, <1>4, <2>1, LoadingIsSound
<1> QED BY <1>3, <1>4

\* Where nothing runs and no turn is shown open, none is open and no mark is on its way.
LEMMA NothingIsNew ==
  ASSUME ViewSound, view.meta # NoTalk, run.stage = "idle", view.activeTurn = 0
  PROVE News = {} /\ Active(view.meta) = 0
<1> USE DEF ViewSound
<1>1. PICK j \in Seq(Events) : j = journals[view.meta]
  BY ViewTypes
<1>2. PICK S \in SUBSET DOMAIN j : S = DOMAIN j
  OBVIOUS
<1>3. PICK E \in SUBSET DOMAIN j : E = view.events
  BY <1>1 DEF InJournals
<1>4. OpenIn(j, E) = 0 /\ MarksNow = MarksIn(j, S) /\ Active(view.meta) = OpenIn(j, S)
  BY <1>1, <1>2, <1>3, ActiveIsOpen DEF Current, MarksNow
<1>5. \A b \in News : ~Begin(b)
  BY DEF BeginsAreAwaited
<1>6. \A b \in MarksNow : j[b].kind = "turn_begin" => Opened(j[b]) # 0
  <2>1. view.meta \in Talks
    BY ViewTypes
  <2> QED BY <1>1, <1>2, <1>4, <2>1 DEF InJournals, MarksIn, Opened
<1>7. ASSUME NEW b \in MarksNow, Begin(b), b \in E, \A m \in MarksIn(j, E) : m <= b
      PROVE FALSE
  <2>1. b \in MarksIn(j, E) /\ E \in SUBSET Nat
    BY <1>4, <1>7 DEF MarksIn
  <2>2. OpenIn(j, E) = Opened(j[b])
    BY <1>7, <2>1, OpenIs
  <2> QED BY <1>1, <1>4, <1>6, <1>7, <2>2 DEF Begin
<1>8. MarksIn(j, E) \subseteq MarksNow \ News
  BY <1>1, <1>3, <1>4 DEF MarksIn, MarksNow, News
<1>9. News = {}
  <2> SUFFICES ASSUME NEW e \in News PROVE FALSE
    OBVIOUS
  <2>1. PICK b \in MarksNow : Begin(b) /\ b \in view.events \cup News /\ \A m \in MarksNow \ {e} : m <= b
    BY <1>5 DEF EndsFollow
  <2>2. b \in E
    BY <1>3, <1>5, <2>1
  <2>3. \A m \in MarksIn(j, E) : m <= b
    BY <1>8, <2>1
  <2> QED BY <1>7, <2>1, <2>2, <2>3
<1>10. Active(view.meta) = 0
  <2> SUFFICES ASSUME Active(view.meta) # 0 PROVE FALSE
    OBVIOUS
  <2>1. PICK c \in MarksNow : c \in view.events \cup News /\ \A m \in MarksNow : m <= c
    BY DEF OpenIsKnown
  <2>2. PICK d \in MarksIn(j, S) : j[d].kind = "turn_begin" /\ \A i \in MarksIn(j, S) : i <= d
    BY <1>4, OpenWasBegun
  <2>3. c <= d /\ d <= c /\ c \in Nat /\ d \in Nat
    BY <1>4, <2>1, <2>2 DEF MarksIn
  <2>4. Begin(c) /\ c \in E
    BY <1>1, <1>3, <1>9, <2>1, <2>2, <2>3 DEF Begin
  <2>5. \A m \in MarksIn(j, E) : m <= c
    BY <1>8, <2>1
  <2> QED BY <1>7, <2>1, <2>4, <2>5
<1> QED BY <1>9, <1>10

\* A request of the user starts on a snapshot that is not busy.
LEMMA RunStartsIsSound ==
  ASSUME ViewSound, RunStarts
  PROVE ViewSound'
<1>1. /\ run.stage = "idle" /\ view.activeTurn = 0 /\ view.meta # NoTalk
      /\ UNCHANGED <<journals, unsent, wire, linked, view, load>>
      /\ run' = [NoRun EXCEPT !.stage = "beginning", !.turn = spent.runs + 1, !.talk = view.meta]
      /\ spent' = [spent EXCEPT !.runs = @ + 1]
  BY DEF RunStarts, Busy
<1>2. spent \in Spendings /\ view.meta \in Talks
  BY <1>1, ViewTypes DEF ViewSound, ViewTyped
<1>3. spent' \in Spendings /\ spent.runs + 1 \in Nat \ {0}
  BY <1>1, <1>2 DEF Spendings
<1>4. /\ run' \in UserRuns /\ run'.talk = view.meta /\ run'.turn # 0 /\ AwaitsSoundly(run')
  BY <1>1, <1>2, <1>3 DEF NoRun, UserRuns, Steps, Asks, AwaitsSoundly
<1>5. News = {} /\ Active(view.meta) = 0
  BY <1>1, NothingIsNew
<1> QED BY <1>1, <1>2, <1>3, <1>4, <1>5, NothingHeard

\* The engine reports an event or ends.
LEMMA EngineStepsAreSound ==
  ASSUME ViewSound, Emits \/ EngineEnds
  PROVE ViewSound'
<1>1. /\ run.stage = "executing" /\ run \in UserRuns /\ spent' \in Spendings
      /\ UNCHANGED <<journals, unsent, wire, linked, view, load>>
      /\ run' \in {[run EXCEPT !.emitted = @ + 1], [run EXCEPT !.stage = "completing"], [run EXCEPT !.stage = "failing"]}
  BY DEF Emits, EngineEnds, ViewSound, ViewTyped
<1>2. /\ run' \in UserRuns /\ run'.stage # "beginning" /\ run'.talk = run.talk /\ run'.turn = run.turn
      /\ AwaitsSoundly(run')
  BY <1>1 DEF UserRuns, Steps, AwaitsSoundly
<1>3. /\ run.talk \in Talks /\ run.turn # 0
      /\ load.page # "none" /\ load.talk # view.meta => run.talk # load.talk
  BY <1>1 DEF ViewSound, InJournals, LoadSound
<1> QED BY <1>1, <1>2, <1>3, NothingHeard

\* The run asks for an event to be appended: it waits for it, or the request was refused.
LEMMA RequestIs ==
  ASSUME ViewSound, run.stage # "idle", NEW kind \in Asks, NEW allowed, NEW m, Request(kind, m, allowed),
         kind \in {"turn_begin", "record", "completed", "failed"},
         run.stage = "beginning" => kind = "turn_begin"
  PROVE /\ linked /\ run.awaits = 0 /\ run.talk \in Talks /\ run.turn \in Nat \ {0}
        /\ UNCHANGED <<linked, view, load, spent>>
        /\ \/ allowed /\ AppendSent(run.talk, Event(kind, run.turn, m))
              /\ run' = [run EXCEPT !.asked = kind, !.awaits = Len(journals[run.talk]) + 1]
              /\ run' \in UserRuns /\ run'.stage = run.stage /\ run'.talk = run.talk /\ run'.turn = run.turn
              /\ run'.asked = kind /\ run'.awaits = Len(journals[run.talk]) + 1 /\ run'.awaits # 0
              /\ AwaitsSoundly(run')
           \/ run' = Rejected([run EXCEPT !.asked = kind, !.awaits = Len(journals[run.talk]) + 1])
              /\ ViewSound'
<1>1. /\ linked /\ run.awaits = 0 /\ UNCHANGED <<linked, view, load, spent>>
  BY DEF Request
<1>2. run \in UserRuns /\ run.talk \in Talks /\ run.turn \in Nat \ {0}
  BY DEF ViewSound, ViewTyped, InJournals, UserRuns
<1>3. PICK n \in Nat \ {0} : n = Len(journals[run.talk]) + 1
  BY <1>2, ViewTypes DEF ViewSound
<1>4. PICK requested : requested = [run EXCEPT !.asked = kind, !.awaits = n]
  OBVIOUS
<1>5. /\ requested \in UserRuns /\ requested.stage = run.stage /\ requested.talk = run.talk /\ requested.turn = run.turn
      /\ requested.asked = kind /\ requested.awaits = n
  BY <1>2, <1>3, <1>4 DEF UserRuns
<1>6. \/ allowed /\ AppendSent(run.talk, Event(kind, run.turn, m)) /\ run' = requested
      \/ run' = Rejected(requested) /\ UNCHANGED <<journals, unsent, wire>>
  BY <1>3, <1>4 DEF Request
<1>7. CASE run' = Rejected(requested) /\ UNCHANGED <<journals, unsent, wire>>
  <2>1. /\ run' \in UserRuns
        /\ run'.stage # "idle" => run'.talk = run.talk /\ run'.turn = run.turn /\ run'.stage # "beginning"
        /\ run'.awaits = 0
    <3>1. CASE kind = "record"
      <4>1. run' = [requested EXCEPT !.awaits = 0, !.failed = TRUE]
        BY <1>5, <1>7, <3>1 DEF Rejected
      <4> QED BY <1>5, <3>1, <4>1 DEF UserRuns
    <3>2. CASE kind = "completed"
      <4>1. run' = [requested EXCEPT !.awaits = 0, !.stage = "failing"]
        BY <1>5, <1>7, <3>2 DEF Rejected
      <4> QED BY <1>5, <4>1 DEF UserRuns, Steps
    <3>3. CASE kind \notin {"record", "completed"}
      <4>1. run' = NoRun
        BY <1>5, <1>7, <3>3 DEF Rejected
      <4> QED BY <4>1 DEF NoRun, UserRuns, Steps, Asks
    <3> QED BY <3>1, <3>2, <3>3
  <2>2. spent' \in Spendings
    BY <1>1 DEF ViewSound, ViewTyped
  <2>3. load.page # "none" /\ load.talk # view.meta => run.talk # load.talk
    BY DEF ViewSound, LoadSound
  <2>4. ViewSound'
    <3>1. AwaitsSoundly(run')
      BY <2>1 DEF AwaitsSoundly
    <3> QED BY <1>1, <1>2, <1>7, <2>1, <2>2, <2>3, <3>1, NothingHeard
  <2> QED BY <1>1, <1>2, <1>3, <1>4, <1>7, <2>4
<1>8. CASE allowed /\ AppendSent(run.talk, Event(kind, run.turn, m)) /\ run' = requested
  <2>1. AwaitsSoundly(run')
    BY <1>5, <1>8 DEF AwaitsSoundly
  <2> QED BY <1>1, <1>2, <1>3, <1>4, <1>5, <1>8, <2>1
<1> QED BY <1>6, <1>7, <1>8

\* The turn begins: a mark that the run awaits.
LEMMA BeginsIsSound ==
  ASSUME ViewSound, Begins
  PROVE ViewSound'
<1>1. PICK allowed : allowed = (Active(run.talk) = 0)
  OBVIOUS
<1>2. run.stage = "beginning" /\ Request("turn_begin", 0, allowed)
  BY <1>1 DEF Begins
<1>3. /\ linked /\ run.awaits = 0 /\ run.talk \in Talks /\ run.turn \in Nat \ {0}
      /\ UNCHANGED <<linked, view, load, spent>>
      /\ \/ allowed /\ AppendSent(run.talk, Event("turn_begin", run.turn, 0))
            /\ run' \in UserRuns /\ run'.stage = run.stage /\ run'.talk = run.talk /\ run'.turn = run.turn
            /\ run'.asked = "turn_begin" /\ run'.awaits = Len(journals[run.talk]) + 1 /\ run'.awaits # 0
            /\ AwaitsSoundly(run')
         \/ ViewSound'
  BY <1>2, RequestIs DEF Asks
<1> SUFFICES ASSUME AppendSent(run.talk, Event("turn_begin", run.turn, 0)),
                    run' \in UserRuns, run'.stage = run.stage, run'.talk = run.talk, run'.turn = run.turn,
                    run'.asked = "turn_begin", run'.awaits = Len(journals[run.talk]) + 1, run'.awaits # 0, AwaitsSoundly(run')
             PROVE ViewSound'
  BY <1>3
<1>4. PICK t \in Talks : t = run.talk
  BY <1>3
<1>5. PICK e \in Events : e = Event("turn_begin", run.turn, 0)
  BY <1>3 DEF Event, Events, Words, Marks
<1>6. e.kind = "turn_begin" /\ e.turn # 0 /\ spent' \in Spendings
  BY <1>3, <1>5 DEF Event, ViewSound, ViewTyped
<1>7. load.page # "none" /\ t = load.talk => t = view.meta
  BY <1>2, <1>4 DEF ViewSound, LoadSound
<1>8. AppendSent(t, e)
  BY <1>4, <1>5
<1>9. Appending(t, e)
  BY <1>2, <1>3, <1>6, <1>7, <1>8, SentIsAppending
<1>10. CASE t = view.meta
  BY <1>2, <1>3, <1>4, <1>6, <1>8, <1>9, <1>10, BeginAppends
<1>11. CASE t # view.meta
  BY <1>2, <1>3, <1>8, <1>9, <1>11, OtherAppends
<1> QED BY <1>10, <1>11

\* A record is written: no mark.
LEMMA RecordsIsSound ==
  ASSUME ViewSound, Records
  PROVE ViewSound'
<1>1. PICK allowed : allowed = InTurn
  OBVIOUS
<1>2. PICK m : m = run.recorded + 1
  OBVIOUS
<1>3. run.stage \in {"executing", "completing", "failing"} /\ Request("record", m, allowed) /\ m \in Nat
  BY <1>1, <1>2 DEF Records, ViewSound, ViewTyped, UserRuns
<1>4. /\ linked /\ run.awaits = 0 /\ run.talk \in Talks /\ run.turn \in Nat \ {0}
      /\ UNCHANGED <<linked, view, load, spent>>
      /\ \/ allowed /\ AppendSent(run.talk, Event("record", run.turn, m))
            /\ run' \in UserRuns /\ run'.stage = run.stage /\ run'.talk = run.talk /\ run'.turn = run.turn
            /\ AwaitsSoundly(run')
         \/ ViewSound'
  BY <1>3, RequestIs DEF Asks
<1> SUFFICES ASSUME AppendSent(run.talk, Event("record", run.turn, m)),
                    run' \in UserRuns, run'.stage = run.stage, run'.talk = run.talk, run'.turn = run.turn, AwaitsSoundly(run')
             PROVE ViewSound'
  BY <1>4
<1>5. PICK t \in Talks : t = run.talk
  BY <1>4
<1>6. PICK e \in Events : e = Event("record", run.turn, m)
  BY <1>3, <1>4 DEF Event, Events, Words, Marks
<1>7. e.kind = "record" /\ e.kind \notin Marks /\ spent' \in Spendings
  BY <1>4, <1>6 DEF Event, Marks, ViewSound, ViewTyped
<1>8. AppendSent(t, e)
  BY <1>5, <1>6
<1>9. Appending(t, e)
  BY <1>3, <1>4, <1>7, <1>8, SentIsAppending
<1> QED BY <1>3, <1>7, <1>8, <1>9, OtherAppends

\* The turn ends: a mark after its begin.
LEMMA FinishesIsSound ==
  ASSUME ViewSound, Finishes
  PROVE ViewSound'
<1>1. PICK allowed : allowed = InTurn
  OBVIOUS
<1>2. PICK m : m = run.emitted
  OBVIOUS
<1>3. PICK kind \in {"completed", "failed"} : Request(kind, m, allowed)
  BY <1>1, <1>2 DEF Finishes
<1>4. run.stage \in {"completing", "failing"} /\ m \in Nat
  BY <1>2 DEF Finishes, Completes, ViewSound, ViewTyped, UserRuns
<1>5. /\ linked /\ run.awaits = 0 /\ run.talk \in Talks /\ run.turn \in Nat \ {0}
      /\ UNCHANGED <<linked, view, load, spent>>
      /\ \/ allowed /\ AppendSent(run.talk, Event(kind, run.turn, m))
            /\ run' \in UserRuns /\ run'.stage = run.stage /\ run'.talk = run.talk /\ run'.turn = run.turn
            /\ AwaitsSoundly(run')
         \/ ViewSound'
  BY <1>3, <1>4, RequestIs DEF Asks
<1> SUFFICES ASSUME allowed, AppendSent(run.talk, Event(kind, run.turn, m)),
                    run' \in UserRuns, run'.stage = run.stage, run'.talk = run.talk, run'.turn = run.turn, AwaitsSoundly(run')
             PROVE ViewSound'
  BY <1>5
<1>6. PICK t \in Talks : t = run.talk
  BY <1>5
<1>7. PICK e \in Events : e = Event(kind, run.turn, m)
  BY <1>4, <1>5 DEF Event, Events, Words, Marks
<1>8. e.kind = kind /\ e.kind \in Marks \ {"turn_begin"} /\ spent' \in Spendings
  BY <1>5, <1>7 DEF Event, Marks, ViewSound, ViewTyped
<1>9. load.page # "none" /\ t = load.talk => t = view.meta
  BY <1>4, <1>6 DEF ViewSound, LoadSound
<1>10. AppendSent(t, e)
  BY <1>6, <1>7
<1>11. Appending(t, e)
  BY <1>4, <1>5, <1>8, <1>9, <1>10, SentIsAppending
<1>12. Active(t) # 0
  BY <1>1, <1>5, <1>6 DEF InTurn
<1>13. CASE t = view.meta
  BY <1>4, <1>8, <1>11, <1>12, <1>13, EndAppends
<1>14. CASE t # view.meta
  BY <1>4, <1>10, <1>11, <1>14, OtherAppends
<1> QED BY <1>13, <1>14

\* The process ends: nothing is on its way any more, and no turn is open.
LEMMA ProcessEndsIsSound ==
  ASSUME ViewSound, ProcessEnds
  PROVE ViewSound'
<1> USE DEF ViewSound
<1>1. /\ linked' = FALSE /\ unsent' = {} /\ wire' = <<>> /\ load' = NoLoad /\ view' = view
      /\ run' = IF run.awaits = 0 THEN run ELSE Rejected(run)
  BY DEF ProcessEnds
<1>2. ASSUME NEW t \in Talks
      PROVE /\ journals'[t] \in Seq(Events) /\ DOMAIN journals[t] \subseteq DOMAIN journals'[t]
            /\ \A i \in DOMAIN journals[t] : journals'[t][i] = journals[t][i]
            /\ \A i \in DOMAIN journals'[t] \ DOMAIN journals[t] : journals'[t][i].kind = "interrupted"
            /\ OpenIn(journals'[t], DOMAIN journals'[t]) = 0
            /\ \A S \in SUBSET DOMAIN journals[t] : OpenIn(journals'[t], S) = OpenIn(journals[t], S)
  <2>1. PICK j \in Seq(Events) : j = journals[t]
    BY ViewTypes
  <2>2. CASE Active(t) = 0
    <3>1. journals'[t] = journals[t]
      BY <2>2 DEF ProcessEnds
    <3>2. OpenIn(journals'[t], DOMAIN journals'[t]) = 0
      BY <2>2, <3>1, ActiveIsOpen
    <3> QED BY <2>1, <3>1, <3>2
  <2>3. CASE Active(t) # 0
    <3>1. PICK e : e = Event("interrupted", Active(t), 0)
      OBVIOUS
    <3>2. e \in Events /\ e.kind = "interrupted"
      BY <3>1, ActiveIsTyped DEF Events, Event, Words, Marks
    <3>3. PICK k : k = Append(j, e)
      OBVIOUS
    <3>4. journals'[t] = k
      BY <2>1, <2>3, <3>1, <3>3 DEF ProcessEnds
    <3>5. PICK n \in Nat : n = Len(j) + 1
      OBVIOUS
    <3>6. /\ k \in Seq(Events) /\ DOMAIN k = DOMAIN j \cup {n} /\ k[n] = e
          /\ \A i \in DOMAIN j : k[i] = j[i] /\ i < n
      BY <3>2, <3>3, <3>5, AppendedEvent
    <3>7. /\ \A S \in SUBSET DOMAIN j : OpenIn(k, S) = OpenIn(j, S)
          /\ OpenIn(k, DOMAIN k) = Opened(k[n])
      <4>1. k[n].kind \in Marks
        BY <3>2, <3>6 DEF Marks
      <4> HIDE <3>3, <3>4
      <4> QED BY <3>6, <4>1, AppendedMarks
    <3>8. OpenIn(k, DOMAIN k) = 0
      BY <3>2, <3>6, <3>7 DEF Opened
    <3> QED BY <2>1, <3>2, <3>4, <3>6, <3>7, <3>8
  <2> QED BY <2>2, <2>3
<1>3. journals' \in [Talks -> Seq(Events)]
  BY <1>2 DEF ProcessEnds
<1>4. Announced' = {} /\ \A t : Pending(t)' = {}
  BY <1>1 DEF Announced, Pending, Range
<1>5. \A t \in Talks : Active(t)' = 0
  BY <1>2, ActiveLater
<1>6. /\ run' \in UserRuns
      /\ run'.stage # "idle" => run'.talk \in Talks /\ run'.turn # 0
      /\ AwaitsSoundly(run')
  <2>1. /\ run \in UserRuns /\ (run.stage # "idle" => run.talk \in Talks /\ run.turn # 0)
        /\ AwaitsSoundly(run)
    BY DEF ViewTyped, InJournals
  <2>2. CASE run.awaits = 0
    BY <1>1, <2>1, <2>2
  <2>3. CASE run.awaits # 0
    <3>1. CASE run.asked = "record"
      <4>1. run' = [run EXCEPT !.awaits = 0, !.failed = TRUE]
        BY <1>1, <2>3, <3>1 DEF Rejected
      <4> QED BY <2>1, <4>1 DEF UserRuns, AwaitsSoundly
    <3>2. CASE run.asked = "completed"
      <4>1. run' = [run EXCEPT !.awaits = 0, !.stage = "failing"]
        BY <1>1, <2>3, <3>2 DEF Rejected
      <4> QED BY <2>1, <2>3, <4>1 DEF UserRuns, Steps, AwaitsSoundly
    <3>3. CASE run.asked \notin {"record", "completed"}
      <4>1. run' = NoRun
        BY <1>1, <2>3, <3>3 DEF Rejected
      <4> QED BY <4>1 DEF NoRun, UserRuns, Steps, Asks, AwaitsSoundly
    <3> QED BY <3>1, <3>2, <3>3
  <2> QED BY <2>2, <2>3
<1>7. ViewTyped'
  <2>1. spent' \in Spendings
    <3>1. spent \in Spendings /\ spent' = [spent EXCEPT !.exits = @ + 1]
      BY DEF ProcessEnds, ViewTyped
    <3> QED BY <3>1 DEF Spendings
  <2>2. load' \in Selections
    BY <1>1 DEF NoLoad, Selections
  <2>3. wire' \in Seq(Notes) /\ view' \in Snapshots
    BY <1>1 DEF ViewTyped
  <2> QED BY <1>1, <1>3, <1>6, <2>1, <2>2, <2>3 DEF ViewTyped
<1>8. InJournals'
  <2>1. \A t \in Talks : \A i \in DOMAIN journals'[t] : journals'[t][i].kind = "turn_begin" => journals'[t][i].turn # 0
    BY <1>2 DEF InJournals
  <2>2. view.meta # NoTalk => view.events \subseteq DOMAIN journals'[view.meta]
    BY <1>2, ViewTypes DEF InJournals
  <2>3. view.meta = NoTalk => view.events = {} /\ view.activeTurn = 0
    BY DEF InJournals
  <2> QED BY <1>1, <1>4, <1>5, <1>6, <2>1, <2>2, <2>3 DEF InJournals
<1>9. LoadSound'
  BY <1>1 DEF LoadSound, NoLoad
<1>10. ASSUME view.meta # NoTalk
       PROVE Current' /\ Covered' /\ NewsComeLast' /\ EndsFollow' /\ BeginsAreAwaited' /\ BeginsInPeace' /\ OpenIsKnown'
  <2>1. PICK t \in Talks : t = view.meta
    BY <1>10, ViewTypes
  <2>2. News' = {}
    BY <1>4 DEF News
  <2>3. Active(view.meta)' = 0
    BY <1>1, <1>5, <2>1, ActiveLater
  <2>4. Current'
    <3>1. view.events \in SUBSET DOMAIN journals[t] /\ view.activeTurn = OpenIn(journals[t], view.events)
      BY <1>10, <2>1 DEF InJournals, Current
    <3> QED BY <1>1, <1>2, <2>1, <3>1 DEF Current
  <2>5. Covered'
    BY <1>1 DEF Covered
  <2> QED BY <2>2, <2>3, <2>4, <2>5 DEF NewsComeLast, EndsFollow, BeginsAreAwaited, BeginsInPeace, OpenIsKnown
<1> QED BY <1>1, <1>7, <1>8, <1>9, <1>10

----------------------------------------------------------------------------
(* What the view hears.                                                    *)

\* An answer that the run waited for.
LEMMA AnsweredIs ==
  ASSUME NEW r \in UserRuns, r.awaits # 0, AwaitsSoundly(r), r.stage # "idle" => r.talk \in Talks /\ r.turn # 0
  PROVE /\ Answered(r) \in UserRuns /\ Answered(r).awaits = 0 /\ Answered(r).stage # "beginning"
        /\ Answered(r).stage # "idle" => Answered(r).talk = r.talk /\ r.talk \in Talks /\ Answered(r).turn # 0
<1>1. PICK a : a = Answered(r)
  OBVIOUS
<1>2. CASE r.asked = "turn_begin"
  <2>1. a = [r EXCEPT !.awaits = 0, !.stage = "executing"]
    BY <1>1, <1>2 DEF Answered
  <2>2. a \in UserRuns /\ a.awaits = 0 /\ a.stage = "executing" /\ a.talk = r.talk /\ a.turn = r.turn
    BY <2>1 DEF UserRuns, Steps
  <2>3. r.talk \in Talks /\ r.turn # 0
    BY DEF AwaitsSoundly
  <2> QED BY <1>1, <2>2, <2>3
<1>3. CASE r.asked = "record"
  <2>0. PICK n \in Nat : n = r.recorded + 1
    BY DEF UserRuns
  <2>1. a = [r EXCEPT !.awaits = 0, !.recorded = n]
    BY <1>1, <1>3, <2>0 DEF Answered
  <2>2. a \in UserRuns /\ a.awaits = 0 /\ a.stage = r.stage /\ a.talk = r.talk /\ a.turn = r.turn
    BY <2>1 DEF UserRuns
  <2>3. r.stage # "beginning"
    BY <1>3 DEF AwaitsSoundly
  <2> QED BY <1>1, <2>2, <2>3
<1>4. CASE r.asked \notin {"turn_begin", "record"}
  <2>1. a = NoRun
    BY <1>1, <1>4 DEF Answered
  <2>2. a \in UserRuns /\ a.awaits = 0 /\ a.stage = "idle"
    BY <2>1 DEF NoRun, UserRuns, Steps, Asks
  <2> QED BY <1>1, <2>2
<1> QED BY <1>2, <1>3, <1>4

\* A mark that is news and heard now comes before the others that are news.
LEMMA HeardInOrder ==
  ASSUME ViewSound, view.meta # NoTalk, NEW i \in News, 1 \in DOMAIN wire, wire[1] = Note(view.meta, i),
         NEW u \in News \ {i}
  PROVE i < u
<1> USE DEF ViewSound
<1>1. News \in SUBSET MarksNow /\ MarksNow \in SUBSET Nat
  BY ViewTypes DEF News, MarksNow, MarksIn
<1>2. \A e \in News : ~Begin(e) => \A m \in MarksNow \ {e} : m < e
  <2> SUFFICES ASSUME NEW e \in News, ~Begin(e), NEW m \in MarksNow \ {e}
               PROVE m < e
    OBVIOUS
  <2>1. PICK b \in MarksNow : b < e /\ m <= b
    BY DEF EndsFollow
  <2> QED BY <1>1, <2>1
<1>3. CASE Begin(i)
  <2>1. ~Begin(u)
    BY <1>3 DEF BeginsAreAwaited
  <2> QED BY <1>1, <1>2, <2>1
<1>4. CASE ~Begin(i)
  <2>1. CASE Begin(u)
    <3>1. wire[1].talk = view.meta /\ wire[1].sequence \in News \ {u}
      BY DEF Note
    <3>2. \E k \in 1..(1 - 1) : wire[k] = Note(view.meta, u)
      BY <2>1, <3>1 DEF BeginsAreAwaited
    <3> QED BY <3>2
  <2>2. CASE ~Begin(u)
    <3>1. u < i /\ i < u
      BY <1>1, <1>2, <1>4, <2>2
    <3> QED BY <1>1, <3>1
  <2> QED BY <2>1, <2>2
<1> QED BY <1>3, <1>4

\* A notification is heard: in the order of the marks, by HeardInOrder.
LEMMA NotifiedIsSound ==
  ASSUME ViewSound, Notified
  PROVE ViewSound'
<1> USE DEF ViewSound
<1>1. wire # <<>> /\ wire' = Tail(wire)
  BY DEF Notified
<1>2. PICK x \in Notes :
        /\ x = Head(wire) /\ wire' \in Seq(Notes) /\ Range(wire) = Range(wire') \cup {x}
        /\ 1 \in DOMAIN wire /\ wire[1] = x
        /\ \A p \in DOMAIN wire' : p \in Nat /\ p + 1 \in DOMAIN wire /\ wire'[p] = wire[p + 1]
        /\ \A p \in DOMAIN wire : p = 1 \/ (p - 1 \in DOMAIN wire' /\ wire'[p - 1] = wire[p])
  BY <1>1, HeardNote
<1>3. PICK w : w = wire
  OBVIOUS
<1>4. PICK v : v = wire'
  OBVIOUS
<1>5. /\ v \in Seq(Notes) /\ Range(w) = Range(v) \cup {x} /\ w # <<>>
      /\ 1 \in DOMAIN w /\ w[1] = x
      /\ \A p \in DOMAIN v : p \in Nat /\ p + 1 \in DOMAIN w /\ v[p] = w[p + 1]
      /\ \A p \in DOMAIN w : p = 1 \/ (p - 1 \in DOMAIN v /\ v[p - 1] = w[p])
  BY <1>1, <1>2, <1>3, <1>4
<1>6. PICK t \in Talks : t = x.talk
  BY DEF Notes
<1>7. PICK i \in Nat : i = x.sequence
  BY DEF Notes
<1>8. /\ load' = IF load.talk = t THEN [load EXCEPT !.buffer = @ \cup {i}] ELSE load
      /\ view' = IF view.meta # t \/ i \in view.events THEN view
                 ELSE [view EXCEPT !.events = @ \cup {i},
                         !.activeTurn = CASE journals[t][i].kind = "turn_begin" -> journals[t][i].turn
                                          [] journals[t][i].kind \in Marks \ {"turn_begin"} -> 0
                                          [] OTHER -> @]
      /\ run' = IF run.talk = t /\ run.awaits = i THEN Answered(run) ELSE run
      /\ UNCHANGED <<journals, unsent, linked, spent>>
  BY <1>2, <1>6, <1>7 DEF Notified
<1>9. x = Note(t, i)
  BY <1>6, <1>7 DEF Notes, Note
<1>10. Announced = Announced' \cup {Note(t, i)} /\ Announced' \subseteq Announced
  BY <1>2, <1>8, <1>9 DEF Announced
<1>11. i \in DOMAIN journals[t] /\ i # 0
  <2>1. Note(t, i) \in Announced
    BY <1>10
  <2>2. i \in DOMAIN journals[t]
    BY <2>1 DEF InJournals, Note
  <2>3. journals[t] \in Seq(Events)
    BY ViewTypes
  <2> QED BY <2>2, <2>3
<1>12. PICK j \in Seq(Events) : j = journals[t]
  BY ViewTypes
<1>13. /\ \A s : Pending(s)' \subseteq Pending(s)
       /\ \A s : s # t => Pending(s)' = Pending(s)
       /\ \A p \in Pending(t) : p \in Pending(t)' \/ p = i
       /\ i \in Pending(t)
  BY <1>8, <1>10, <1>11 DEF Pending, Note
<1>14. /\ view'.meta = view.meta /\ view' \in Snapshots
       /\ view.meta # t => view' = view
       /\ view.meta = t => view'.events = view.events \cup {i}
       /\ view.meta = t /\ i \in view.events => view' = view
       /\ view.meta = t /\ i \notin view.events =>
            /\ j[i].kind \in Marks => view'.activeTurn = Opened(j[i])
            /\ j[i].kind \notin Marks => view'.activeTurn = view.activeTurn
  <2>1. j[i].turn \in Nat
    <3>1. j[i] \in Events
      BY <1>11, <1>12
    <3> QED BY <3>1 DEF Events
  <2>2. view \in Snapshots
    BY DEF ViewTyped
  <2>3. PICK turn : turn = CASE j[i].kind = "turn_begin" -> j[i].turn
                             [] j[i].kind \in Marks \ {"turn_begin"} -> 0
                             [] OTHER -> view.activeTurn
    OBVIOUS
  <2>4. /\ j[i].kind \in Marks => turn = Opened(j[i])
        /\ j[i].kind \notin Marks => turn = view.activeTurn
        /\ turn \in Nat
    <3>1. CASE j[i].kind = "turn_begin"
      <4>1. turn = j[i].turn
        BY <2>3, <3>1
      <4>2. Opened(j[i]) = j[i].turn /\ j[i].kind \in Marks
        BY <3>1 DEF Opened, Marks
      <4> QED BY <2>1, <4>1, <4>2
    <3>2. CASE j[i].kind # "turn_begin" /\ j[i].kind \in Marks
      <4>1. turn = 0
        BY <2>3, <3>2
      <4> QED BY <3>2, <4>1 DEF Opened
    <3>3. CASE j[i].kind \notin Marks
      <4>1. turn = view.activeTurn /\ view.activeTurn \in Nat
        BY <2>2, <2>3, <3>3 DEF Marks, Snapshots
      <4> QED BY <3>3, <4>1
    <3> QED BY <3>1, <3>2, <3>3
  <2>5. view' = IF view.meta # t \/ i \in view.events THEN view
                ELSE [view EXCEPT !.events = @ \cup {i}, !.activeTurn = turn]
    BY <1>8, <1>12, <2>3
  <2> QED BY <2>2, <2>4, <2>5 DEF Snapshots
<1>15. /\ load' \in Selections /\ load'.page = load.page /\ load'.talk = load.talk /\ load'.after = load.after
       /\ load'.events = load.events /\ load'.next = load.next /\ load'.more = load.more /\ load'.active = load.active
       /\ load'.buffer = load.buffer \cup (IF load.talk = t THEN {i} ELSE {})
       /\ load.talk # t => load' = load
  <2>1. load \in Selections
    BY DEF ViewTyped
  <2> QED BY <1>8, <2>1 DEF Selections
<1>16. /\ run' \in UserRuns /\ AwaitsSoundly(run')
       /\ run'.stage # "idle" => run'.talk = run.talk /\ run'.talk \in Talks /\ run'.turn # 0
       /\ ~(run.talk = t /\ run.awaits = i) => run' = run
       /\ run.talk = t /\ run.awaits = i => run'.stage # "beginning"
  <2>1. /\ run \in UserRuns /\ AwaitsSoundly(run)
        /\ run.stage # "idle" => run.talk \in Talks /\ run.turn # 0
    BY DEF ViewTyped, InJournals
  <2>2. CASE run.talk = t /\ run.awaits = i
    <3>1. PICK a : a = Answered(run)
      OBVIOUS
    <3>2. /\ a \in UserRuns /\ a.awaits = 0 /\ a.stage # "beginning"
          /\ a.stage # "idle" => a.talk = run.talk /\ run.talk \in Talks /\ a.turn # 0
      BY <1>11, <2>1, <2>2, <3>1, AnsweredIs
    <3>3. run' = a
      BY <1>8, <2>2, <3>1
    <3> QED BY <2>2, <3>2, <3>3 DEF AwaitsSoundly
  <2>3. CASE ~(run.talk = t /\ run.awaits = i)
    BY <1>8, <2>1, <2>3
  <2> QED BY <2>2, <2>3
<1>17. ViewTyped'
  BY <1>2, <1>8, <1>14, <1>15, <1>16 DEF ViewTyped
<1>18. \A s : Active(s)' = Active(s)
  BY <1>8, ActiveIsOpen, ActiveLater
<1>19. linked
  BY <1>1 DEF InJournals
<1>20. InJournals'
  <2>1. \A n \in Announced' : n.sequence \in DOMAIN journals'[n.talk]
    BY <1>8, <1>10 DEF InJournals
  <2>2. view.meta # NoTalk => view'.events \subseteq DOMAIN journals'[view.meta]
    BY <1>8, <1>11, <1>14 DEF InJournals
  <2>3. view.meta = NoTalk => view'.events = {} /\ view'.activeTurn = 0
    BY <1>6, <1>14, TalksAreNamed DEF InJournals
  <2>4. \A s \in Talks : \A p \in DOMAIN journals'[s] : journals'[s][p].kind = "turn_begin" => journals'[s][p].turn # 0
    BY <1>8 DEF InJournals
  <2> QED BY <1>8, <1>14, <1>16, <1>19, <2>1, <2>2, <2>3, <2>4 DEF InJournals
<1>21. LoadSound'
  <2>1. CASE load.page = "none"
    <3>1. load = NoLoad
      BY <2>1 DEF LoadSound
    <3>2. load' = load
      BY <1>6, <1>15, <3>1, TalksAreNamed DEF NoLoad
    <3> QED BY <2>1, <3>1, <3>2 DEF LoadSound
  <2>2. CASE load.page # "none"
    <3>1. /\ load'.talk \in Talks
          /\ load'.events = 1..load'.after /\ load'.after <= Len(journals'[load'.talk])
          /\ load'.talk # view'.meta => run'.stage = "idle" \/ run'.talk # load'.talk
      <4>1. /\ load.talk \in Talks /\ load.events = 1..load.after /\ load.after <= Len(journals[load.talk])
            /\ load.talk # view.meta => run.stage = "idle" \/ run.talk # load.talk
        BY <2>2 DEF LoadSound
      <4>2. run.stage = "idle" => run' = run
        <5>1. run.stage = "idle" => run.awaits = 0
          BY DEF InJournals, AwaitsSoundly
        <5> QED BY <1>11, <1>16, <5>1
      <4>3. load'.talk # view'.meta => run'.stage = "idle" \/ run'.talk # load'.talk
        BY <1>14, <1>15, <1>16, <4>1, <4>2
      <4> QED BY <1>8, <1>15, <4>1, <4>3
    <3>2. load'.buffer \subseteq DOMAIN journals'[load'.talk]
      BY <1>8, <1>11, <1>15, <2>2 DEF LoadSound
    <3>3. load'.talk = view'.meta => load'.buffer \subseteq view'.events
      BY <1>14, <1>15, <2>2 DEF LoadSound
    <3>4. load.page = "answered" => linked' /\ load'.after <= load'.next /\ load'.next <= Len(journals'[load'.talk])
      BY <1>8, <1>15 DEF LoadSound
    <3>5. ASSUME load.page = "answered", ~load.more
          PROVE LastPage'
      <4>1. LastPage
        BY <3>5 DEF LoadSound
      <4>2. DOMAIN journals'[load'.talk] \subseteq (1..load'.next) \cup load'.buffer \cup Pending(load.talk)'
        BY <1>8, <1>13, <1>15, <4>1 DEF LastPage
      <4>4. load'.talk = view'.meta => view'.events \subseteq (1..load'.next) \cup load'.buffer
        BY <1>14, <1>15, <4>1 DEF LastPage
      <4>5. load'.active = OpenIn(journals'[load'.talk], 1..load'.next)
        BY <1>8, <1>15, <4>1 DEF LastPage
      <4>6. load'.talk # view'.meta =>
              \A m \in MarksIn(journals'[load'.talk], DOMAIN journals'[load'.talk]) : m <= load'.next
        BY <1>8, <1>14, <1>15, <4>1 DEF LastPage
      <4> QED BY <4>2, <4>4, <4>5, <4>6 DEF LastPage
    <3> QED BY <1>15, <2>2, <3>1, <3>2, <3>3, <3>4, <3>5 DEF LoadSound
  <2> QED BY <2>1, <2>2
<1>22. ASSUME view.meta # NoTalk
       PROVE Current' /\ Covered' /\ NewsComeLast' /\ EndsFollow' /\ BeginsAreAwaited' /\ BeginsInPeace' /\ OpenIsKnown'
  <2>1. /\ MarksNow' = MarksNow /\ Active(view.meta)' = Active(view.meta)
        /\ \A m : Begin(m)' <=> Begin(m)
    BY <1>8, <1>14, ActiveIsOpen, ActiveLater DEF MarksNow, Begin
  <2>2. News' = IF view.meta = t THEN News \ {i} ELSE News
    <3>1. News' = {m \in MarksNow : m \in Pending(view.meta)' /\ m \notin view'.events}
      BY <1>14, <2>1 DEF News, Pending
    <3>2. CASE view.meta = t
      BY <1>13, <1>14, <3>1, <3>2 DEF News
    <3>3. CASE view.meta # t
      BY <1>13, <1>14, <3>1, <3>3 DEF News
    <3> QED BY <3>2, <3>3
  <2>3. News \in SUBSET MarksNow /\ MarksNow \in SUBSET Nat /\ News' \subseteq News
    BY <1>22, <2>2, ViewTypes DEF News, MarksNow, MarksIn
  <2>4. \A m \in view.events \cup News : m \in view'.events \cup News'
    BY <1>14, <2>2
  <2>5. Current'
    <3>1. CASE view.meta # t \/ i \in view.events
      BY <1>8, <1>14, <1>22, <3>1 DEF Current
    <3>2. CASE view.meta = t /\ i \notin view.events
      <4>1. PICK E \in SUBSET DOMAIN j : E = view.events
        BY <1>12, <1>22, <3>2 DEF InJournals
      <4>2. PICK F \in SUBSET DOMAIN j : F = E \cup {i}
        BY <1>11, <1>12
      <4>3. E \in SUBSET Nat /\ F \in SUBSET Nat
        OBVIOUS
      <4>4. view.activeTurn = OpenIn(j, E)
        BY <1>12, <1>22, <3>2, <4>1 DEF Current
      <4>5. CASE j[i].kind \in Marks
        <5>1. i \in News
          BY <1>11, <1>12, <1>13, <3>2, <4>5 DEF News, MarksNow, MarksIn
        <5>2. \A m \in MarksIn(j, E) : m \in MarksNow \ News
          BY <1>12, <3>2, <4>1 DEF MarksIn, MarksNow, News
        <5>3. \A m \in MarksIn(j, E) : m < i
          BY <1>22, <5>1, <5>2 DEF NewsComeLast
        <5>4. MarksIn(j, F) = MarksIn(j, E) \cup {i}
          BY <4>2, <4>5 DEF MarksIn
        <5>5. i \in MarksIn(j, F) /\ \A m \in MarksIn(j, F) : m <= i
          BY <4>3, <5>3, <5>4 DEF MarksIn
        <5>6. OpenIn(j, F) = Opened(j[i])
          BY <4>3, <5>5, OpenIs
        <5> QED BY <1>8, <1>12, <1>14, <3>2, <4>1, <4>2, <4>5, <5>6 DEF Current
      <4>6. CASE j[i].kind \notin Marks
        <5>1. MarksIn(j, F) = MarksIn(j, E)
          BY <4>2, <4>6 DEF MarksIn
        <5>2. OpenIn(j, F) = OpenIn(j, E)
          BY <4>3, <5>1, SameMarksSameTurn
        <5> QED BY <1>8, <1>12, <1>14, <3>2, <4>1, <4>2, <4>4, <4>6, <5>2 DEF Current
      <4> QED BY <4>5, <4>6
    <3> QED BY <3>1, <3>2
  <2>6. Covered'
    <3>1. linked /\ load' = NoLoad => load = NoLoad
      BY <1>6, <1>15, TalksAreNamed DEF NoLoad
    <3>2. linked /\ load = NoLoad => DOMAIN journals[view.meta] \subseteq view'.events \cup Pending(view.meta)'
      BY <1>13, <1>14, <1>22 DEF Covered
    <3> QED BY <1>8, <1>14, <3>1, <3>2 DEF Covered
  <2>7. NewsComeLast'
    <3> SUFFICES ASSUME NEW u \in News', NEW m \in MarksNow \ News'
                 PROVE m < u
      BY <2>1 DEF NewsComeLast
    <3>1. u \in News
      BY <2>3
    <3>2. CASE m \notin News
      BY <1>22, <3>1, <3>2 DEF NewsComeLast
    <3>3. CASE m \in News
      <4>1. m = i /\ view.meta = t /\ u \in News \ {i}
        BY <2>2, <3>3
      <4>2. 1 \in DOMAIN wire /\ wire[1] = Note(view.meta, i)
        BY <1>2, <1>9, <4>1
      <4>3. i \in News
        BY <3>3, <4>1
      <4>4. i < u
        BY <1>22, <4>1, <4>2, <4>3, HeardInOrder
      <4> QED BY <4>1, <4>4
    <3> QED BY <3>2, <3>3
  <2>8. EndsFollow' /\ OpenIsKnown'
    BY <1>22, <2>1, <2>3, <2>4 DEF EndsFollow, OpenIsKnown
  <2>9. BeginsInPeace'
    <3>1. run'.stage = "beginning" => run' = run
      BY <1>16
    <3> QED BY <1>14, <1>22, <2>1, <2>3, <3>1 DEF BeginsInPeace
  <2>10. BeginsAreAwaited'
    <3> SUFFICES ASSUME NEW b \in News', Begin(b)
                 PROVE /\ run'.stage = "beginning" /\ run'.talk = view.meta /\ run'.awaits = b /\ run'.asked = "turn_begin"
                       /\ Note(view.meta, b) \notin unsent
                       /\ \A p \in DOMAIN v : v[p].talk = view.meta /\ v[p].sequence \in News' \ {b}
                            => \E k \in 1..(p - 1) : v[k] = Note(view.meta, b)
      BY <1>4, <1>8, <1>14, <2>1 DEF BeginsAreAwaited
    <3>1. b \in News /\ ~(view.meta = t /\ b = i)
      BY <2>2
    <3>2. /\ run.stage = "beginning" /\ run.talk = view.meta /\ run.awaits = b /\ run.asked = "turn_begin"
          /\ Note(view.meta, b) \notin unsent
          /\ \A p \in DOMAIN w : w[p].talk = view.meta /\ w[p].sequence \in News \ {b}
               => \E k \in 1..(p - 1) : w[k] = Note(view.meta, b)
      BY <1>3, <1>22, <3>1 DEF BeginsAreAwaited
    <3>3. run' = run
      BY <1>16, <3>1, <3>2
    <3>4. ASSUME NEW p \in DOMAIN v, v[p].talk = view.meta, v[p].sequence \in News' \ {b}
          PROVE \E k \in 1..(p - 1) : v[k] = Note(view.meta, b)
      <4>1. p \in Nat /\ p + 1 \in DOMAIN w /\ w[p + 1] = v[p]
        BY <1>5
      <4>2. PICK k \in 1..p : w[k] = Note(view.meta, b)
        <5>1. \E k \in 1..((p + 1) - 1) : w[k] = Note(view.meta, b)
          BY <2>3, <3>2, <3>4, <4>1
        <5> QED BY <4>1, <5>1
      <4>3. k # 1
        BY <1>5, <1>9, <3>1, <4>2 DEF Note
      <4>4. k \in DOMAIN w
        BY <4>1, <4>2
      <4>5. v[k - 1] = w[k] /\ k - 1 \in 1..(p - 1)
        BY <1>5, <4>1, <4>2, <4>3, <4>4
      <4> QED BY <4>2, <4>5
    <3> QED BY <3>2, <3>3, <3>4
  <2> QED BY <2>5, <2>6, <2>7, <2>8, <2>9, <2>10
<1> QED BY <1>14, <1>17, <1>20, <1>21, <1>22

\* A page arrives that is not the last: the next one is asked for.
LEMMA PagesGoOn ==
  ASSUME ViewSound, PageArrives, load.more
  PROVE ViewSound'
<1> USE DEF ViewSound
<1>1. /\ load.page = "answered" /\ UNCHANGED <<journals, unsent, wire, linked, view, run, spent>>
      /\ load' = [load EXCEPT !.page = "asked", !.after = load.next,
                    !.events = load.events \cup (load.after + 1)..load.next]
  BY DEF PageArrives
<1>2. /\ load.talk \in Talks /\ load.events = 1..load.after
      /\ load.after <= load.next /\ load.next <= Len(journals[load.talk])
      /\ load.buffer \subseteq DOMAIN journals[load.talk]
      /\ load.talk # view.meta => run.stage = "idle" \/ run.talk # load.talk
      /\ load.talk = view.meta => load.buffer \subseteq view.events
  BY <1>1 DEF LoadSound
<1>3. load.after \in Nat /\ load.next \in Nat /\ load \in Selections
  BY DEF ViewTyped, Selections
<1>4. load.events \cup (load.after + 1)..load.next = 1..load.next
  BY <1>2, <1>3
<1>5. load' = [load EXCEPT !.page = "asked", !.after = load.next, !.events = 1..load.next]
  BY <1>1, <1>4
<1>6. /\ load' \in Selections /\ load'.page = "asked" /\ load'.talk = load.talk /\ load'.after = load.next
      /\ load'.events = 1..load.next /\ load'.buffer = load.buffer
  <2>1. 1..load.next \in SUBSET Nat
    BY <1>3
  <2> QED BY <1>3, <1>5, <2>1 DEF Selections
<1>7. ViewTyped' /\ InJournals'
  BY <1>1, <1>6, NothingChanged DEF ViewTyped
<1>8. LoadSound'
  BY <1>1, <1>2, <1>6 DEF LoadSound
<1>9. load # NoLoad /\ load' # NoLoad
  <2>1. NoLoad.page = "none"
    BY DEF NoLoad
  <2> QED BY <1>1, <1>6, <2>1
<1>10. ASSUME view.meta # NoTalk
       PROVE /\ Current' /\ Covered' /\ NewsComeLast' /\ EndsFollow'
             /\ BeginsAreAwaited' /\ BeginsInPeace' /\ OpenIsKnown'
  <2>1. Covered'
    BY <1>9 DEF Covered
  <2> QED BY <1>1, <1>10, <2>1, NothingChanged
<1> QED BY <1>1, <1>7, <1>8, <1>10

\* The last page arrives: the snapshot has the whole journal, but for what is announced.
LEMMA SelectionEnds ==
  ASSUME ViewSound, PageArrives, ~load.more
  PROVE ViewSound'
<1> USE DEF ViewSound
<1>1. /\ load.page = "answered" /\ UNCHANGED <<journals, unsent, wire, linked, run, spent>>
      /\ load' = NoLoad
      /\ view' = [meta |-> load.talk,
                  events |-> (load.events \cup (load.after + 1)..load.next) \cup load.buffer,
                  activeTurn |-> IF \E i \in (load.events \cup (load.after + 1)..load.next) \cup load.buffer :
                                      journals[load.talk][i].kind \in Marks
                                 THEN ActiveAmong(load.talk, (load.events \cup (load.after + 1)..load.next) \cup load.buffer)
                                 ELSE load.active]
  BY DEF PageArrives
<1>2. PICK t \in Talks : t = load.talk
  BY <1>1 DEF LoadSound
<1>3. PICK j \in Seq(Events) : j = journals[t]
  BY ViewTypes
<1>4. PICK next \in Nat : next = load.next
  BY ViewTypes
<1>5. /\ linked /\ load.events = 1..load.after /\ load.after <= next /\ next <= Len(j)
      /\ load.buffer \subseteq DOMAIN j /\ LastPage
      /\ t # view.meta => run.stage = "idle" \/ run.talk # t
      /\ t = view.meta => load.buffer \subseteq view.events
  BY <1>1, <1>2, <1>3, <1>4 DEF LoadSound
<1>6. PICK S \in SUBSET DOMAIN j : S = 1..next
  <2>1. 1..next \subseteq DOMAIN j
    BY <1>5
  <2> QED BY <2>1
<1>7. load.events \cup (load.after + 1)..load.next = S
  BY <1>4, <1>5, <1>6, ViewTypes
<1>8. PICK M \in SUBSET DOMAIN j : M = S \cup load.buffer
  BY <1>5, <1>6
<1>9. /\ DOMAIN j \subseteq M \cup Pending(t)
      /\ load.active = OpenIn(j, S)
      /\ t # view.meta => \A i \in MarksIn(j, DOMAIN j) : i <= next
      /\ t = view.meta => view.events \subseteq M
  BY <1>2, <1>3, <1>4, <1>5, <1>6, <1>8 DEF LastPage
<1>10. view'.meta = t /\ view'.events = M
  BY <1>1, <1>2, <1>7, <1>8
<1>11. S \in SUBSET Nat /\ M \in SUBSET Nat /\ DOMAIN j \in SUBSET Nat
  OBVIOUS
<1>12. view'.activeTurn = OpenIn(j, M)
  <2>1. view'.activeTurn = IF \E i \in M : j[i].kind \in Marks THEN ActiveAmong(t, M) ELSE load.active
    BY <1>1, <1>2, <1>3, <1>7, <1>8
  <2>2. CASE \E i \in M : j[i].kind \in Marks
    BY <1>3, <2>1, <2>2 DEF ActiveAmong, OpenIn
  <2>3. CASE ~ \E i \in M : j[i].kind \in Marks
    <3>1. MarksIn(j, M) = {} /\ MarksIn(j, S) = {}
      BY <1>8, <2>3 DEF MarksIn
    <3>2. OpenIn(j, M) = 0 /\ OpenIn(j, S) = 0
      BY <3>1, NothingIsOpen
    <3> QED BY <1>9, <2>1, <2>3, <3>2
  <2> QED BY <2>2, <2>3
<1>13. ViewTyped'
  <2>1. view' \in Snapshots
    <3>1. PICK turn \in Nat : turn = OpenIn(j, M)
      BY OpenIsTyped
    <3>2. view' = [meta |-> t, events |-> M, activeTurn |-> turn]
      BY <1>1, <1>10, <1>12, <3>1
    <3> QED BY <1>11, <3>2 DEF Snapshots
  <2>2. load' \in Selections
    BY <1>1 DEF NoLoad, Selections
  <2> QED BY <1>1, <2>1, <2>2 DEF ViewTyped
<1>14. \A s : Active(s)' = Active(s) /\ Pending(s)' = Pending(s)
  BY <1>1, ActiveIsOpen, ActiveLater DEF Pending, Announced
<1>15. InJournals'
  <2>1. view'.meta # NoTalk /\ view'.events \subseteq DOMAIN journals'[view'.meta]
    BY <1>1, <1>2, <1>3, <1>10, TalksAreNamed
  <2>2. Announced' = Announced
    BY <1>1 DEF Announced
  <2> QED BY <1>1, <1>14, <2>1, <2>2 DEF InJournals
<1>16. LoadSound'
  BY <1>1 DEF LoadSound, NoLoad
<1>17. Current' /\ Covered'
  BY <1>1, <1>3, <1>9, <1>10, <1>12, <1>14 DEF Current, Covered
<1>18. /\ MarksNow' = MarksIn(j, DOMAIN j) /\ News' = {i \in MarksIn(j, DOMAIN j) : i \in Pending(t) /\ i \notin M}
       /\ \A i : Begin(i)' <=> j[i].kind = "turn_begin"
  BY <1>1, <1>3, <1>10, <1>14 DEF MarksNow, News, Begin
<1>19. \A i \in News' : i > next
  BY <1>6, <1>8, <1>11, <1>18 DEF MarksIn
<1>20. CASE t # view.meta
  <2>1. News' = {}
    BY <1>9, <1>11, <1>18, <1>19, <1>20 DEF MarksIn
  <2>2. OpenIsKnown'
    <3> SUFFICES ASSUME Active(t) # 0
                 PROVE \E b \in MarksIn(j, DOMAIN j) : b \in M /\ \A m \in MarksIn(j, DOMAIN j) : m <= b
      BY <1>10, <1>14, <1>18 DEF OpenIsKnown
    <3>1. PICK D \in SUBSET DOMAIN j : D = DOMAIN j
      OBVIOUS
    <3>2. OpenIn(j, D) # 0
      BY <1>3, <3>1, ActiveIsOpen
    <3>3. PICK b \in MarksIn(j, D) : \A i \in MarksIn(j, D) : i <= b
      BY <3>2, OpenWasBegun
    <3>4. b \in 1..next
      <4>1. b <= next /\ b \in DOMAIN j
        BY <1>9, <1>20, <3>1, <3>3 DEF MarksIn
      <4> QED BY <4>1
    <3> QED BY <1>6, <1>8, <3>1, <3>3, <3>4
  <2>3. BeginsInPeace'
    BY <1>1, <1>5, <1>10, <1>20 DEF BeginsInPeace
  <2> QED BY <1>13, <1>15, <1>16, <1>17, <2>1, <2>2, <2>3 DEF NewsComeLast, EndsFollow, BeginsAreAwaited
<1>21. CASE t = view.meta
  <2>1. view.meta # NoTalk
    BY <1>21, TalksAreNamed
  <2>2. /\ MarksNow' = MarksNow /\ News' = News \ M /\ Active(view.meta)' = Active(view.meta)
        /\ \A i : Begin(i)' <=> Begin(i)
    <3>1. MarksNow = MarksIn(j, DOMAIN j)
      BY <1>3, <1>21 DEF MarksNow
    <3>2. News' = News \ M
      BY <1>9, <1>18, <1>21, <3>1 DEF News
    <3>3. Active(view.meta)' = Active(view.meta)
      BY <1>1, <1>10, <1>21, ActiveIsOpen, ActiveLater
    <3>4. \A i : Begin(i)' <=> Begin(i)
      BY <1>3, <1>18, <1>21 DEF Begin
    <3> QED BY <1>18, <3>1, <3>2, <3>3, <3>4
  <2>3. News' \subseteq News /\ News \subseteq MarksNow /\ MarksNow \in SUBSET Nat
    BY <2>1, <2>2, ViewTypes DEF News, MarksNow, MarksIn
  <2>4. view.events \cup News \subseteq view'.events \cup News'
    BY <1>9, <1>10, <1>21, <2>2
  <2>5. NewsComeLast'
    <3> SUFFICES ASSUME NEW u \in News', NEW m \in MarksNow \ News'
                 PROVE m < u
      BY <2>2 DEF NewsComeLast
    <3>1. CASE m \notin News
      BY <2>1, <2>3, <3>1 DEF NewsComeLast
    <3>2. CASE m \in News
      <4>1. m \in M /\ m \notin view.events
        BY <2>2, <3>2 DEF News
      <4>2. m <= next
        BY <1>5, <1>6, <1>8, <1>21, <4>1
      <4>3. u > next
        BY <1>19
      <4> QED BY <1>4, <2>3, <4>2, <4>3
    <3> QED BY <3>1, <3>2
  <2>6. EndsFollow' /\ OpenIsKnown'
    BY <2>1, <2>2, <2>3, <2>4 DEF EndsFollow, OpenIsKnown
  <2>7. BeginsInPeace'
    BY <1>1, <1>10, <1>21, <2>1, <2>2, <2>3 DEF BeginsInPeace
  <2>8. BeginsAreAwaited'
    <3>1. ASSUME NEW b \in News', Begin(b)
          PROVE /\ run'.stage = "beginning" /\ run'.talk = view'.meta /\ run'.awaits = b /\ run'.asked = "turn_begin"
                /\ Note(view'.meta, b) \notin unsent'
                /\ \A p \in DOMAIN wire' : wire'[p].talk = view'.meta /\ wire'[p].sequence \in News' \ {b}
                     => \E k \in 1..(p - 1) : wire'[k] = Note(view'.meta, b)
      <4>1. b \in News
        BY <2>3
      <4>2. /\ run.stage = "beginning" /\ run.talk = view.meta /\ run.awaits = b /\ run.asked = "turn_begin"
            /\ Note(view.meta, b) \notin unsent
            /\ \A p \in DOMAIN wire : wire[p].talk = view.meta /\ wire[p].sequence \in News \ {b}
                 => \E k \in 1..(p - 1) : wire[k] = Note(view.meta, b)
        BY <2>1, <3>1, <4>1 DEF BeginsAreAwaited
      <4> QED BY <1>1, <1>10, <1>21, <2>3, <4>2
    <3> QED BY <2>2, <3>1 DEF BeginsAreAwaited
  <2> QED BY <1>13, <1>15, <1>16, <1>17, <2>5, <2>6, <2>7, <2>8
<1> QED BY <1>20, <1>21

\* The invariant: holds at first, is kept by every step.
LEMMA ViewStarts ==
  ASSUME ViewInit
  PROVE ViewSound
<1> USE DEF ViewInit
<1>1. ViewTyped
  BY DEF ViewTyped, Snapshots, Selections, UserRuns, Spendings, NoLoad, NoRun, Steps, Asks
<1>2. Announced = {}
  BY DEF Announced, Range
<1>3. InJournals
  BY <1>2 DEF InJournals, AwaitsSoundly, NoRun
<1>4. LoadSound
  BY DEF LoadSound, NoLoad
<1> QED BY <1>1, <1>3, <1>4 DEF ViewSound

\* Every step keeps the invariant.
LEMMA ViewStaysSound ==
  ASSUME ViewSound, [ViewNext]_viewVars
  PROVE ViewSound'
<1>1. CASE ViewNext
  <2>1. CASE ModelSpeaks \/ UserStops \/ Sends \/ Reads
    BY <2>1, ModelSpeaksIsSound, UserStopsIsSound, SendsIsSound, ReadsIsSound
  <2>2. CASE Notified \/ PageArrives \/ ProcessEnds \/ Ready
    <3>1. CASE PageArrives
      BY <3>1, PagesGoOn, SelectionEnds
    <3> QED BY <2>2, <3>1, NotifiedIsSound, ProcessEndsIsSound, ReadyIsSound
  <2>3. CASE \E t \in Talks : Select(t)
    BY <2>3, SelectIsSound
  <2>4. CASE RunStarts \/ Begins \/ Emits \/ Records \/ EngineEnds \/ Finishes
    BY <2>4, RunStartsIsSound, BeginsIsSound, EngineStepsAreSound, RecordsIsSound, FinishesIsSound
  <2> QED BY <1>1, <2>1, <2>2, <2>3, <2>4 DEF ViewNext
<1>2. CASE UNCHANGED viewVars
  <2>1. UNCHANGED <<journals, unsent, wire, linked, view, load, run, spent>>
    BY <1>2 DEF viewVars
  <2>2. ViewTyped' /\ InJournals'
    BY <2>1, NothingChanged DEF ViewSound, ViewTyped
  <2>3. \A t : Pending(t)' = Pending(t)
    BY <2>1, NothingChanged
  <2>4. LoadSound' /\ (view.meta # NoTalk => Covered')
    BY <2>1, <2>3 DEF ViewSound, LoadSound, LastPage, Covered
  <2>5. view.meta # NoTalk => /\ Current' /\ NewsComeLast' /\ EndsFollow'
                              /\ BeginsAreAwaited' /\ BeginsInPeace' /\ OpenIsKnown'
    BY <2>1, NothingChanged DEF ViewSound
  <2> QED BY <2>1, <2>2, <2>4, <2>5 DEF ViewSound
<1> QED BY <1>1, <1>2

\* The invariant of the conversation view.
LEMMA ViewIsSound == ViewSpec => []ViewSound
<1>1. ViewInit => ViewSound
  BY ViewStarts
<1>2. ViewSound /\ [ViewNext]_viewVars => ViewSound'
  BY ViewStaysSound
<1> QED BY <1>1, <1>2, PTL DEF ViewSpec

\* Once nothing of the selected conversation is on its way, the snapshot of the
\* conversation store (conversations.ts) has exactly the events of its journal and its
\* open turn, whatever was reordered, lost, or announced during a selection.
THEOREM SettledViewsAreJournals == ViewSpec => []SettledViewIsJournal
<1>1. ViewSound => SettledViewIsJournal
  <2> SUFFICES ASSUME ViewSound, linked, load = NoLoad, view.meta # NoTalk,
                      \A n \in unsent \cup Range(wire) : n.talk # view.meta
               PROVE view.events = DOMAIN journals[view.meta] /\ view.activeTurn = Active(view.meta)
    BY DEF SettledViewIsJournal
  <2>1. Pending(view.meta) = {}
    BY DEF Pending, Announced, Note
  <2>2. view.events = DOMAIN journals[view.meta]
    BY <2>1 DEF ViewSound, Covered, InJournals
  <2>3. view.activeTurn = Active(view.meta)
    BY <2>2, ActiveIsOpen DEF ViewSound, Current
  <2> QED BY <2>2, <2>3
<1> QED BY <1>1, ViewIsSound, PTL

----------------------------------------------------------------------------
(* The records of a turn.                                                  *)

RecordsOf(j, turn) == {i \in DOMAIN j : j[i].kind = "record" /\ j[i].turn = turn}
WithRecords(j, turn, n) ==
  /\ {j[i].n : i \in RecordsOf(j, turn)} = 1..n
  /\ \A i, k \in RecordsOf(j, turn) : i < k => j[i].n < j[k].n

CompletedSoundly(js) ==
  \A t \in Talks : \A i \in DOMAIN js[t] :
    js[t][i].kind = "completed" => WithRecords(js[t], js[t][i].turn, js[t][i].n)
Counted(js, runs) == \A t \in Talks : \A i \in DOMAIN js[t] : js[t][i].turn <= runs

\* The records of the run that its journal has: the one it waits for is there already.
Stored(r) == IF r.asked = "record" /\ r.awaits # 0 THEN r.recorded + 1 ELSE r.recorded
\* What the run waits for is of its stage.
AsksSoundly(r) ==
  /\ r.recorded <= r.emitted
  /\ r.stage = "beginning" => r.recorded = 0 /\ r.emitted = 0 /\ ~r.failed
  /\ r.awaits # 0 /\ r.asked = "turn_begin" => r.stage = "beginning"
  /\ r.awaits # 0 /\ r.asked = "record" =>
       r.stage \in {"executing", "completing", "failing"} /\ ~r.failed /\ r.recorded < r.emitted
  /\ r.awaits # 0 /\ r.asked \in {"completed", "failed"} => r.stage \in {"completing", "failing"}
Chained(js, runs, r) ==
  r.stage # "idle" =>
    /\ r.turn = runs /\ AsksSoundly(r)
    /\ \A t \in Talks : \A i \in DOMAIN js[t] : js[t][i].turn = r.turn => t = r.talk
    /\ ~r.failed => WithRecords(js[r.talk], r.turn, Stored(r))
    /\ \A i \in DOMAIN js[r.talk] : js[r.talk][i].kind = "completed" /\ js[r.talk][i].turn = r.turn =>
         r.stage \in {"completing", "failing"} /\ r.recorded = r.emitted /\ ~r.failed

RecordsSound ==
  /\ CompletedSoundly(journals) /\ Counted(journals, spent.runs)
  /\ Chained(journals, spent.runs, run)

\* Journals that grow.
Grown(js, ks) ==
  \A t \in Talks : DOMAIN js[t] \subseteq DOMAIN ks[t] /\ \A i \in DOMAIN js[t] : ks[t][i] = js[t][i]

\* Events that are neither records nor completions change nothing for those that are.
LEMMA SameRecords ==
  ASSUME NEW j, NEW k, DOMAIN j \subseteq DOMAIN k, \A i \in DOMAIN j : k[i] = j[i], NEW turn,
         \A i \in DOMAIN k \ DOMAIN j : k[i].kind # "record" \/ k[i].turn # turn
  PROVE \A n : WithRecords(j, turn, n) => WithRecords(k, turn, n)
<1>1. RecordsOf(k, turn) = RecordsOf(j, turn)
  BY DEF RecordsOf
<1>2. \A i \in RecordsOf(j, turn) : k[i] = j[i]
  BY DEF RecordsOf
<1>3. {k[i].n : i \in RecordsOf(k, turn)} = {j[i].n : i \in RecordsOf(j, turn)}
  BY <1>1, <1>2
<1> QED BY <1>1, <1>2, <1>3 DEF WithRecords

\* Journals that grow by events that are neither records nor completions.
LEMMA QuietKeeps ==
  ASSUME NEW js, NEW ks, Grown(js, ks),
         \A t \in Talks : \A i \in DOMAIN ks[t] \ DOMAIN js[t] : ks[t][i].kind \notin {"record", "completed"}
  PROVE /\ \A t \in Talks : \A turn, n : WithRecords(js[t], turn, n) => WithRecords(ks[t], turn, n)
        /\ CompletedSoundly(js) => CompletedSoundly(ks)
        /\ \A runs : /\ Counted(js, runs)
                     /\ \A t \in Talks : \A i \in DOMAIN ks[t] \ DOMAIN js[t] : ks[t][i].turn <= runs
                     => Counted(ks, runs)
        /\ \A runs, r : /\ Chained(js, runs, r) /\ (r.stage # "idle" => r.talk \in Talks)
                        /\ \A t \in Talks : \A i \in DOMAIN ks[t] \ DOMAIN js[t] : ks[t][i].turn = r.turn => t = r.talk
                        => Chained(ks, runs, r)
<1>1. ASSUME NEW t \in Talks, NEW turn, NEW n, WithRecords(js[t], turn, n)
      PROVE WithRecords(ks[t], turn, n)
  <2>1. DOMAIN js[t] \subseteq DOMAIN ks[t] /\ \A i \in DOMAIN js[t] : ks[t][i] = js[t][i]
    BY DEF Grown
  <2>2. \A i \in DOMAIN ks[t] \ DOMAIN js[t] : ks[t][i].kind # "record" \/ ks[t][i].turn # turn
    OBVIOUS
  <2>3. PICK j : j = js[t]
    OBVIOUS
  <2>4. PICK k : k = ks[t]
    OBVIOUS
  <2>5. /\ DOMAIN j \subseteq DOMAIN k /\ \A i \in DOMAIN j : k[i] = j[i]
        /\ \A i \in DOMAIN k \ DOMAIN j : k[i].kind # "record" \/ k[i].turn # turn
        /\ WithRecords(j, turn, n)
    BY <1>1, <2>1, <2>2, <2>3, <2>4
  <2>6. WithRecords(k, turn, n)
    BY <2>5, SameRecords
  <2> QED BY <2>4, <2>6
<1>2. ASSUME CompletedSoundly(js)
      PROVE CompletedSoundly(ks)
  <2> SUFFICES ASSUME NEW t \in Talks, NEW i \in DOMAIN ks[t], ks[t][i].kind = "completed"
               PROVE WithRecords(ks[t], ks[t][i].turn, ks[t][i].n)
    BY DEF CompletedSoundly
  <2>1. i \in DOMAIN js[t] /\ ks[t][i] = js[t][i]
    BY DEF Grown
  <2>2. WithRecords(js[t], ks[t][i].turn, ks[t][i].n)
    BY <1>2, <2>1 DEF CompletedSoundly
  <2> QED BY <1>1, <2>2
<1>3. ASSUME NEW runs, Counted(js, runs),
             \A t \in Talks : \A i \in DOMAIN ks[t] \ DOMAIN js[t] : ks[t][i].turn <= runs
      PROVE Counted(ks, runs)
  BY <1>3 DEF Counted, Grown
<1>4. ASSUME NEW runs, NEW r, Chained(js, runs, r), r.stage # "idle" => r.talk \in Talks,
             \A t \in Talks : \A i \in DOMAIN ks[t] \ DOMAIN js[t] : ks[t][i].turn = r.turn => t = r.talk
      PROVE Chained(ks, runs, r)
  <2> SUFFICES ASSUME r.stage # "idle"
               PROVE Chained(ks, runs, r)
    BY DEF Chained
  <2>1. \A t \in Talks : \A i \in DOMAIN ks[t] : ks[t][i].turn = r.turn => t = r.talk
    BY <1>4 DEF Chained, Grown
  <2>2. ~r.failed => WithRecords(ks[r.talk], r.turn, Stored(r))
    BY <1>1, <1>4 DEF Chained
  <2>3. ASSUME NEW i \in DOMAIN ks[r.talk], ks[r.talk][i].kind = "completed", ks[r.talk][i].turn = r.turn
        PROVE r.stage \in {"completing", "failing"} /\ r.recorded = r.emitted /\ ~r.failed
    <3>1. i \in DOMAIN js[r.talk] /\ ks[r.talk][i] = js[r.talk][i]
      BY <1>4, <2>3 DEF Grown
    <3> QED BY <1>4, <2>3, <3>1 DEF Chained
  <2>4. r.turn = runs /\ AsksSoundly(r)
    BY <1>4 DEF Chained
  <2> QED BY <2>1, <2>2, <2>3, <2>4 DEF Chained
<1> QED BY <1>1, <1>2, <1>3, <1>4

\* The next record of a turn is appended.
LEMMA NextRecord ==
  ASSUME NEW j, DOMAIN j \in SUBSET Nat, NEW k, NEW n \in Nat, NEW turn, NEW m \in Nat,
         DOMAIN k = DOMAIN j \cup {n}, \A i \in DOMAIN j : k[i] = j[i] /\ i < n,
         k[n].kind = "record", k[n].turn = turn, k[n].n = m + 1, WithRecords(j, turn, m)
  PROVE WithRecords(k, turn, m + 1)
<1>1. RecordsOf(k, turn) = RecordsOf(j, turn) \cup {n}
  BY DEF RecordsOf
<1>2. /\ \A i \in RecordsOf(j, turn) : k[i] = j[i] /\ i < n /\ i \in Nat
      /\ {j[i].n : i \in RecordsOf(j, turn)} = 1..m
  BY DEF RecordsOf, WithRecords
<1>3. \A i \in RecordsOf(j, turn) : j[i].n \in 1..m
  BY <1>2
<1>4. {k[i].n : i \in RecordsOf(k, turn)} = 1..(m + 1)
  <2>1. \A i \in RecordsOf(k, turn) : k[i].n \in 1..(m + 1)
    BY <1>1, <1>2, <1>3
  <2>2. ASSUME NEW x \in 1..(m + 1)
        PROVE \E i \in RecordsOf(k, turn) : k[i].n = x
    <3>1. CASE x = m + 1
      BY <1>1, <3>1
    <3>2. CASE x # m + 1
      <4>1. x \in 1..m
        BY <3>2
      <4>2. PICK i \in RecordsOf(j, turn) : j[i].n = x
        BY <1>2, <4>1
      <4> QED BY <1>1, <1>2, <4>2
    <3> QED BY <3>1, <3>2
  <2>3. {k[i].n : i \in RecordsOf(k, turn)} \subseteq 1..(m + 1)
    BY <2>1
  <2>4. 1..(m + 1) \subseteq {k[i].n : i \in RecordsOf(k, turn)}
    BY <2>2
  <2> QED BY <2>3, <2>4
<1>5. ASSUME NEW i \in RecordsOf(k, turn), NEW h \in RecordsOf(k, turn), i < h
      PROVE k[i].n < k[h].n
  <2>1. i # n
    BY <1>1, <1>2, <1>5
  <2>2. CASE h = n
    <3>1. i \in RecordsOf(j, turn) /\ k[i] = j[i] /\ j[i].n \in 1..m
      BY <1>1, <1>2, <1>3, <2>1
    <3>2. k[i].n < m + 1 /\ k[h].n = m + 1
      BY <2>2, <3>1
    <3> QED BY <3>2
  <2>3. CASE h # n
    BY <1>1, <1>2, <1>5, <2>1, <2>3 DEF WithRecords
  <2> QED BY <2>2, <2>3
<1> QED BY <1>4, <1>5 DEF WithRecords

\* A run that goes on as q.
LEMMA ChainGoesOn ==
  ASSUME NEW js, NEW runs, NEW r, NEW q, Chained(js, runs, r), r.stage # "idle",
         q.stage # "idle" =>
           /\ q.turn = r.turn /\ q.talk = r.talk /\ AsksSoundly(q)
           /\ ~q.failed => ~r.failed /\ Stored(q) = Stored(r)
           /\ r.stage \in {"completing", "failing"} /\ r.recorded = r.emitted /\ ~r.failed =>
                q.stage \in {"completing", "failing"} /\ q.recorded = q.emitted /\ ~q.failed
  PROVE Chained(js, runs, q)
<1> SUFFICES ASSUME q.stage # "idle"
             PROVE Chained(js, runs, q)
  BY DEF Chained
<1>1. /\ q.turn = runs /\ AsksSoundly(q)
      /\ \A t \in Talks : \A i \in DOMAIN js[t] : js[t][i].turn = q.turn => t = q.talk
  BY DEF Chained
<1>2. ~q.failed => WithRecords(js[q.talk], q.turn, Stored(q))
  BY DEF Chained
<1>3. \A i \in DOMAIN js[q.talk] : js[q.talk][i].kind = "completed" /\ js[q.talk][i].turn = q.turn =>
        q.stage \in {"completing", "failing"} /\ q.recorded = q.emitted /\ ~q.failed
  BY DEF Chained
<1> QED BY <1>1, <1>2, <1>3 DEF Chained

\* An answer that the run waited for.
LEMMA AnsweredChain ==
  ASSUME NEW js, NEW runs, NEW r \in UserRuns, r.awaits # 0, r.stage # "idle", Chained(js, runs, r)
  PROVE Chained(js, runs, Answered(r))
<1>1. AsksSoundly(r)
  BY DEF Chained
<1>2. PICK a : a = Answered(r)
  OBVIOUS
<1>3. PICK n \in Nat : n = r.recorded + 1
  BY DEF UserRuns
<1>4. CASE r.asked = "turn_begin"
  <2>1. a = [r EXCEPT !.awaits = 0, !.stage = "executing"]
    BY <1>2, <1>4 DEF Answered
  <2>2. /\ a.stage = "executing" /\ a.turn = r.turn /\ a.talk = r.talk /\ a.failed = r.failed /\ a.awaits = 0
        /\ a.recorded = r.recorded /\ a.emitted = r.emitted /\ a.asked = r.asked
    BY <2>1 DEF UserRuns
  <2>3. AsksSoundly(a) /\ Stored(a) = Stored(r) /\ r.stage = "beginning"
    BY <1>1, <1>4, <2>2 DEF AsksSoundly, Stored
  <2>4. Chained(js, runs, a)
    BY <2>2, <2>3, ChainGoesOn
  <2> QED BY <1>2, <2>4
<1>5. CASE r.asked = "record"
  <2>1. a = [r EXCEPT !.awaits = 0, !.recorded = n]
    BY <1>2, <1>3, <1>5 DEF Answered
  <2>2. /\ a.stage = r.stage /\ a.turn = r.turn /\ a.talk = r.talk /\ a.failed = r.failed /\ a.awaits = 0
        /\ a.recorded = n /\ a.emitted = r.emitted /\ a.asked = r.asked
    BY <2>1 DEF UserRuns
  <2>3. AsksSoundly(a) /\ Stored(a) = Stored(r) /\ r.recorded < r.emitted
    BY <1>1, <1>3, <1>5, <2>2 DEF AsksSoundly, Stored, UserRuns
  <2>4. r.recorded # r.emitted
    BY <2>3 DEF UserRuns
  <2>5. Chained(js, runs, a)
    BY <2>2, <2>3, <2>4, ChainGoesOn
  <2> QED BY <1>2, <2>5
<1>6. CASE r.asked \notin {"turn_begin", "record"}
  <2>1. a.stage = "idle"
    BY <1>2, <1>6 DEF Answered, NoRun
  <2> QED BY <1>2, <2>1 DEF Chained
<1> QED BY <1>4, <1>5, <1>6

\* What the run r asked for is refused or lost: p is r with its request.
LEMMA RejectedChain ==
  ASSUME NEW js, NEW runs, NEW r \in UserRuns, NEW p \in UserRuns, r.stage # "idle", Chained(js, runs, r),
         p.stage = r.stage, p.turn = r.turn, p.talk = r.talk, p.failed = r.failed,
         p.recorded = r.recorded, p.emitted = r.emitted,
         p.asked = "record" => r.stage # "beginning" /\ r.recorded < r.emitted,
         p.asked = "completed" => Stored(r) = r.recorded
  PROVE Chained(js, runs, Rejected(p))
<1>1. AsksSoundly(r)
  BY DEF Chained
<1>2. PICK b : b = Rejected(p)
  OBVIOUS
<1>3. CASE p.asked = "record"
  <2>1. b = [p EXCEPT !.awaits = 0, !.failed = TRUE]
    BY <1>2, <1>3 DEF Rejected
  <2>2. /\ b.stage = r.stage /\ b.turn = r.turn /\ b.talk = r.talk /\ b.failed /\ b.awaits = 0
        /\ b.recorded = r.recorded /\ b.emitted = r.emitted
    BY <2>1 DEF UserRuns
  <2>3. AsksSoundly(b) /\ r.recorded # r.emitted
    BY <1>1, <1>3, <2>2 DEF AsksSoundly, UserRuns
  <2>4. Chained(js, runs, b)
    BY <2>2, <2>3, ChainGoesOn
  <2> QED BY <1>2, <2>4
<1>4. CASE p.asked = "completed"
  <2>1. b = [p EXCEPT !.awaits = 0, !.stage = "failing"]
    BY <1>2, <1>4 DEF Rejected
  <2>2. /\ b.stage = "failing" /\ b.turn = r.turn /\ b.talk = r.talk /\ b.failed = r.failed /\ b.awaits = 0
        /\ b.recorded = r.recorded /\ b.emitted = r.emitted
    BY <2>1 DEF UserRuns
  <2>3. AsksSoundly(b) /\ Stored(b) = Stored(r)
    BY <1>1, <1>4, <2>2 DEF AsksSoundly, Stored
  <2>4. Chained(js, runs, b)
    BY <2>2, <2>3, ChainGoesOn
  <2> QED BY <1>2, <2>4
<1>5. CASE p.asked \notin {"record", "completed"}
  <2>1. b.stage = "idle"
    BY <1>2, <1>5 DEF Rejected, NoRun
  <2> QED BY <1>2, <2>1 DEF Chained
<1> QED BY <1>3, <1>4, <1>5

\* A turn that is open is one of an event of its journal.
LEMMA ActiveIsOfEvent ==
  ASSUME ViewSound, NEW t \in Talks, Active(t) # 0
  PROVE \E i \in DOMAIN journals[t] : journals[t][i].turn = Active(t)
<1>1. PICK j \in Seq(Events) : j = journals[t]
  BY ViewTypes DEF ViewSound
<1>2. PICK S \in SUBSET DOMAIN j : S = DOMAIN j
  OBVIOUS
<1>3. Active(t) = OpenIn(j, S)
  BY <1>1, <1>2, ActiveIsOpen
<1>4. PICK b \in MarksIn(j, S) : OpenIn(j, S) = j[b].turn
  BY <1>3, OpenWasBegun
<1> QED BY <1>1, <1>2, <1>3, <1>4 DEF MarksIn

\* An event that is neither a record nor a completion, of a turn that t may have.
LEMMA QuietAppend ==
  ASSUME ViewSound, RecordsSound, NEW t \in Talks, NEW e \in Events,
         journals' = [journals EXCEPT ![t] = Append(@, e)],
         e.kind \notin {"record", "completed"}, e.turn <= spent.runs,
         run.stage # "idle" /\ e.turn = run.turn => t = run.talk
  PROVE /\ CompletedSoundly(journals') /\ Counted(journals', spent.runs)
        /\ Chained(journals', spent.runs, run)
<1>1. PICK j \in Seq(Events) : j = journals[t]
  BY ViewTypes DEF ViewSound
<1>2. PICK k : k = Append(j, e)
  OBVIOUS
<1>3. PICK n \in Nat : n = Len(j) + 1
  OBVIOUS
<1>4. /\ DOMAIN k = DOMAIN j \cup {n} /\ \A i \in DOMAIN j : k[i] = j[i]
      /\ k[n] = e
  BY <1>2, <1>3, AppendedEvent
<1>5. journals \in [Talks -> Seq(Events)] /\ journals' = [journals EXCEPT ![t] = k]
  BY <1>1, <1>2 DEF ViewSound, ViewTyped
<1>6. journals'[t] = k /\ \A s \in Talks \ {t} : journals'[s] = journals[s]
  BY <1>5
<1>7. /\ Grown(journals, journals')
      /\ \A s \in Talks : \A i \in DOMAIN journals'[s] \ DOMAIN journals[s] : s = t /\ journals'[s][i] = e
  BY <1>1, <1>4, <1>6 DEF Grown
<1>8. PICK js : js = journals
  OBVIOUS
<1>9. PICK ks : ks = journals'
  OBVIOUS
<1>10. Grown(js, ks) /\ \A s \in Talks : \A i \in DOMAIN ks[s] \ DOMAIN js[s] : s = t /\ ks[s][i] = e
  BY <1>7, <1>8, <1>9
<1>11. CompletedSoundly(js) /\ Counted(js, spent.runs) /\ Chained(js, spent.runs, run)
  BY <1>8 DEF RecordsSound
<1>12. \A s \in Talks : \A i \in DOMAIN ks[s] \ DOMAIN js[s] : ks[s][i].kind \notin {"record", "completed"}
  BY <1>10
<1>13. CompletedSoundly(ks)
  BY <1>10, <1>11, <1>12, QuietKeeps
<1>14. Counted(ks, spent.runs)
  <2>1. \A s \in Talks : \A i \in DOMAIN ks[s] \ DOMAIN js[s] : ks[s][i].turn <= spent.runs
    BY <1>10
  <2> QED BY <1>10, <1>11, <1>12, <2>1, QuietKeeps
<1>15. Chained(ks, spent.runs, run)
  <2>1. CASE run.stage = "idle"
    BY <2>1 DEF Chained
  <2>2. CASE run.stage # "idle"
    <3>1. \A s \in Talks : \A i \in DOMAIN ks[s] \ DOMAIN js[s] : ks[s][i].turn = run.turn => s = run.talk
      BY <1>10, <2>2
    <3>2. run.talk \in Talks
      BY <2>2 DEF ViewSound, InJournals
    <3> QED BY <1>10, <1>11, <1>12, <3>1, <3>2, QuietKeeps
  <2> QED BY <2>1, <2>2
<1> QED BY <1>9, <1>13, <1>14, <1>15

\* An open turn is one that was counted, and the run's only in its conversation.
LEMMA ActiveIsCounted ==
  ASSUME ViewSound, RecordsSound, NEW t \in Talks, Active(t) # 0
  PROVE Active(t) <= spent.runs /\ (run.stage # "idle" /\ Active(t) = run.turn => t = run.talk)
<1>1. PICK i \in DOMAIN journals[t] : journals[t][i].turn = Active(t)
  BY ActiveIsOfEvent
<1> QED BY <1>1 DEF RecordsSound, Counted, Chained

\* The kernel speaks, or the user stops the turn.
LEMMA NativeKeepsRecords ==
  ASSUME ViewSound, RecordsSound, ModelSpeaks \/ UserStops
  PROVE RecordsSound'
<1>1. PICK t \in Talks, kind \in {"model", "interrupted"} :
        Active(t) # 0 /\ AppendUnsent(t, Event(kind, Active(t), 0))
  BY ViewTypes DEF ModelSpeaks, UserStops, ViewSound
<1>2. PICK e : e = Event(kind, Active(t), 0)
  OBVIOUS
<1>3. e \in Events /\ e.kind \notin {"record", "completed"} /\ e.turn = Active(t)
  BY <1>1, <1>2, ActiveIsTyped DEF Events, Event, Words, Marks
<1>4. journals' = [journals EXCEPT ![t] = Append(@, e)] /\ run' = run
  BY <1>1, <1>2 DEF AppendUnsent, ModelSpeaks, UserStops
<1>5. spent'.runs = spent.runs
  <2>1. spent \in Spendings /\ spent' = [spent EXCEPT !.aside = @ + 1]
    BY <1>1 DEF AppendUnsent, ViewSound, ViewTyped
  <2> QED BY <2>1 DEF Spendings
<1>6. e.turn <= spent.runs /\ (run.stage # "idle" /\ e.turn = run.turn => t = run.talk)
  BY <1>1, <1>3, ActiveIsCounted
<1>7. /\ CompletedSoundly(journals') /\ Counted(journals', spent.runs)
      /\ Chained(journals', spent.runs, run)
  BY <1>3, <1>4, <1>6, QuietAppend
<1> QED BY <1>4, <1>5, <1>7 DEF RecordsSound

\* Steps that change neither the journals nor the run.
LEMMA RecordsAside ==
  ASSUME ViewSound, RecordsSound, UNCHANGED <<journals, run>>, spent'.runs = spent.runs
  PROVE RecordsSound'
BY DEF RecordsSound

\* Notifications that are sent, pages and selections.
LEMMA ViewKeepsRecords ==
  ASSUME ViewSound, RecordsSound,
         Sends \/ Reads \/ PageArrives \/ Ready \/ \E t \in Talks : Select(t)
  PROVE RecordsSound'
<1>1. UNCHANGED <<journals, run>>
  BY DEF Sends, Reads, PageArrives, Ready, Select
<1>2. spent'.runs = spent.runs
  <2>1. CASE \E t \in Talks : Select(t)
    <3>1. spent \in Spendings /\ spent' = [spent EXCEPT !.selects = @ + 1]
      BY <2>1 DEF Select, ViewSound, ViewTyped
    <3> QED BY <3>1 DEF Spendings
  <2>2. CASE Sends \/ Reads \/ PageArrives \/ Ready
    BY <2>2 DEF Sends, Reads, PageArrives, Ready
  <2> QED BY <2>1, <2>2
<1> QED BY <1>1, <1>2, RecordsAside

\* The run hears the answer it waits for.
LEMMA NotifiedKeepsRecords ==
  ASSUME ViewSound, RecordsSound, Notified
  PROVE RecordsSound'
<1>1. UNCHANGED <<journals, spent>> /\ \E i : run' = IF run.talk = Head(wire).talk /\ run.awaits = i THEN Answered(run) ELSE run
  BY DEF Notified
<1>2. wire # <<>> /\ wire \in Seq(Notes) /\ Head(wire).sequence \in DOMAIN journals[Head(wire).talk] /\ Head(wire).talk \in Talks
  <2>1. PICK w \in Seq(Notes) : w = wire /\ w # <<>>
    BY DEF Notified, ViewSound, ViewTyped
  <2>2. PICK x \in Notes : x = Head(w)
    BY <2>1
  <2>3. 1 \in DOMAIN w /\ w[1] = x
    BY <2>1, <2>2
  <2>4. x \in Announced
    BY <2>1, <2>3 DEF Announced, Range
  <2>5. x.sequence \in DOMAIN journals[x.talk]
    BY <2>4 DEF ViewSound, InJournals
  <2> QED BY <2>1, <2>2, <2>5 DEF Notes
<1>3. Head(wire).sequence # 0
  <2>1. PICK t \in Talks : t = Head(wire).talk
    BY <1>2
  <2>2. journals[t] \in Seq(Events)
    BY ViewTypes DEF ViewSound
  <2> QED BY <1>2, <2>1, <2>2
<1>4. (run' = Answered(run) /\ run.awaits # 0) \/ run' = run
  BY <1>3 DEF Notified
<1>5. Chained(journals, spent.runs, run')
  <2>1. PICK r \in UserRuns : r = run
    BY DEF ViewSound, ViewTyped
  <2>2. Chained(journals, spent.runs, r)
    BY <2>1 DEF RecordsSound
  <2>3. CASE run' = run
    BY <2>1, <2>2, <2>3
  <2>4. CASE run' = Answered(run) /\ run.awaits # 0
    <3>1. r.awaits # 0 /\ r.stage # "idle"
      BY <2>1, <2>4 DEF ViewSound, InJournals, AwaitsSoundly
    <3>2. Chained(journals, spent.runs, Answered(r))
      BY <2>2, <3>1, AnsweredChain
    <3> QED BY <2>1, <2>4, <3>2
  <2> QED BY <1>4, <2>3, <2>4
<1> QED BY <1>1, <1>5 DEF RecordsSound

\* The process ends: open turns are ended, and what was asked for is lost.
LEMMA ProcessEndKeepsRecords ==
  ASSUME ViewSound, RecordsSound, ProcessEnds
  PROVE RecordsSound'
<1>1. /\ run' = IF run.awaits = 0 THEN run ELSE Rejected(run)
      /\ journals' = [t \in Talks |-> IF Active(t) = 0 THEN journals[t]
                                      ELSE Append(journals[t], Event("interrupted", Active(t), 0))]
  BY DEF ProcessEnds
<1>2. spent'.runs = spent.runs
  <2>1. spent \in Spendings /\ spent' = [spent EXCEPT !.exits = @ + 1]
    BY DEF ProcessEnds, ViewSound, ViewTyped
  <2> QED BY <2>1 DEF Spendings
<1>3. ASSUME NEW t \in Talks
      PROVE /\ DOMAIN journals[t] \subseteq DOMAIN journals'[t]
            /\ \A i \in DOMAIN journals[t] : journals'[t][i] = journals[t][i]
            /\ \A i \in DOMAIN journals'[t] \ DOMAIN journals[t] :
                 /\ journals'[t][i].kind = "interrupted" /\ journals'[t][i].turn <= spent.runs
                 /\ run.stage # "idle" /\ journals'[t][i].turn = run.turn => t = run.talk
  <2>1. PICK j \in Seq(Events) : j = journals[t]
    BY ViewTypes DEF ViewSound
  <2>2. CASE Active(t) = 0
    BY <1>1, <2>2
  <2>3. CASE Active(t) # 0
    <3>1. PICK e : e = Event("interrupted", Active(t), 0)
      OBVIOUS
    <3>2. e \in Events /\ e.kind = "interrupted" /\ e.turn = Active(t)
      BY <3>1, ActiveIsTyped DEF Events, Event, Words, Marks
    <3>3. PICK k : k = Append(j, e)
      OBVIOUS
    <3>4. journals'[t] = k
      BY <1>1, <2>1, <2>3, <3>1, <3>3
    <3>5. PICK n \in Nat : n = Len(j) + 1
      OBVIOUS
    <3>6. DOMAIN k = DOMAIN j \cup {n} /\ k[n] = e /\ \A i \in DOMAIN j : k[i] = j[i]
      BY <3>2, <3>3, <3>5, AppendedEvent
    <3>7. Active(t) <= spent.runs /\ (run.stage # "idle" /\ Active(t) = run.turn => t = run.talk)
      BY <2>3, ActiveIsCounted
    <3> QED BY <2>1, <3>2, <3>4, <3>6, <3>7
  <2> QED BY <2>2, <2>3
<1>4. PICK js : js = journals
  OBVIOUS
<1>5. PICK ks : ks = journals'
  OBVIOUS
<1>6. PICK runs : runs = spent.runs
  OBVIOUS
<1>7. PICK r \in UserRuns : r = run
  BY DEF ViewSound, ViewTyped
<1>8. CompletedSoundly(js) /\ Counted(js, runs) /\ Chained(js, runs, r)
  BY <1>4, <1>6, <1>7 DEF RecordsSound
<1>9. /\ Grown(js, ks)
      /\ \A t \in Talks : \A i \in DOMAIN ks[t] \ DOMAIN js[t] :
           /\ ks[t][i].kind = "interrupted" /\ ks[t][i].turn <= runs
           /\ r.stage # "idle" /\ ks[t][i].turn = r.turn => t = r.talk
  BY <1>3, <1>4, <1>5, <1>6, <1>7 DEF Grown
<1>10. \A t \in Talks : \A i \in DOMAIN ks[t] \ DOMAIN js[t] : ks[t][i].kind \notin {"record", "completed"}
  BY <1>9
<1>11. CompletedSoundly(ks)
  BY <1>8, <1>9, <1>10, QuietKeeps
<1>12. Counted(ks, runs)
  <2>1. \A t \in Talks : \A i \in DOMAIN ks[t] \ DOMAIN js[t] : ks[t][i].turn <= runs
    BY <1>9
  <2> QED BY <1>8, <1>9, <1>10, <2>1, QuietKeeps
<1>13. Chained(ks, runs, r)
  <2>1. CASE r.stage = "idle"
    BY <2>1 DEF Chained
  <2>2. CASE r.stage # "idle"
    <3>1. \A t \in Talks : \A i \in DOMAIN ks[t] \ DOMAIN js[t] : ks[t][i].turn = r.turn => t = r.talk
      BY <1>9, <2>2
    <3>2. r.talk \in Talks
      BY <1>7, <2>2 DEF ViewSound, InJournals
    <3> QED BY <1>8, <1>9, <1>10, <3>1, <3>2, QuietKeeps
  <2> QED BY <2>1, <2>2
<1>14. Chained(ks, runs, run')
  <2>1. CASE r.awaits = 0
    BY <1>1, <1>7, <1>13, <2>1
  <2>2. CASE r.awaits # 0
    <3>1. r.stage # "idle" /\ AsksSoundly(r)
      BY <1>7, <1>13, <2>2 DEF ViewSound, InJournals, AwaitsSoundly, Chained
    <3>2. r.asked = "record" => r.stage # "beginning" /\ r.recorded < r.emitted
      BY <2>2, <3>1 DEF AsksSoundly
    <3>3. r.asked = "completed" => Stored(r) = r.recorded
      BY DEF Stored
    <3>4. Chained(ks, runs, Rejected(r))
      BY <1>13, <3>1, <3>2, <3>3, RejectedChain
    <3> QED BY <1>1, <1>7, <2>2, <3>4
  <2> QED BY <2>1, <2>2
<1> QED BY <1>2, <1>5, <1>6, <1>11, <1>12, <1>14 DEF RecordsSound

\* A new request has a turn of its own.
LEMMA RunStartKeepsRecords ==
  ASSUME ViewSound, RecordsSound, RunStarts
  PROVE RecordsSound'
<1>1. /\ journals' = journals /\ view.meta \in Talks
      /\ run' = [NoRun EXCEPT !.stage = "beginning", !.turn = spent.runs + 1, !.talk = view.meta]
  BY ViewTypes DEF RunStarts, ViewSound
<1>2. spent.runs \in Nat /\ spent'.runs = spent.runs + 1
  <2>1. spent \in Spendings /\ spent' = [spent EXCEPT !.runs = @ + 1]
    BY DEF RunStarts, ViewSound, ViewTyped
  <2> QED BY <2>1 DEF Spendings
<1>3. /\ run'.stage = "beginning" /\ run'.turn = spent.runs + 1 /\ run'.talk = view.meta /\ run'.recorded = 0
      /\ run'.emitted = 0 /\ ~run'.failed /\ run'.awaits = 0
  BY <1>1 DEF NoRun
<1>4. \A t \in Talks : \A i \in DOMAIN journals[t] : journals[t][i].turn \in Nat /\ journals[t][i].turn <= spent.runs
  <2>1. \A t \in Talks : \A i \in DOMAIN journals[t] : journals[t][i] \in Events
    BY ViewTypes DEF ViewSound
  <2> QED BY <2>1 DEF RecordsSound, Counted, Events
<1>5. \A t \in Talks : \A i \in DOMAIN journals[t] : journals[t][i].turn # run'.turn
  BY <1>2, <1>3, <1>4
<1>6. Counted(journals', spent'.runs)
  BY <1>1, <1>2, <1>4 DEF Counted
<1>7. Chained(journals', spent'.runs, run')
  <2>1. AsksSoundly(run') /\ Stored(run') = 0
    BY <1>3 DEF AsksSoundly, Stored
  <2>2. RecordsOf(journals[view.meta], run'.turn) = {}
    BY <1>1, <1>5 DEF RecordsOf
  <2>3. WithRecords(journals[view.meta], run'.turn, 0)
    BY <2>2 DEF WithRecords
  <2> QED BY <1>1, <1>2, <1>3, <1>5, <2>1, <2>3 DEF Chained
<1> QED BY <1>1, <1>6, <1>7 DEF RecordsSound

\* The engine reports an event or ends.
LEMMA EngineKeepsRecords ==
  ASSUME ViewSound, RecordsSound, Emits \/ EngineEnds
  PROVE RecordsSound'
<1>1. /\ UNCHANGED <<journals, spent>> /\ run.stage = "executing"
      /\ \/ run' = [run EXCEPT !.emitted = @ + 1]
         \/ \E stage \in {"completing", "failing"} : run' = [run EXCEPT !.stage = stage]
  BY DEF Emits, EngineEnds
<1>2. PICK r \in UserRuns : r = run
  BY DEF ViewSound, ViewTyped
<1>3. Chained(journals, spent.runs, r) /\ r.stage # "idle" /\ AsksSoundly(r)
  BY <1>1, <1>2 DEF RecordsSound, Chained
<1>4. PICK q : q = run'
  OBVIOUS
<1>5. CASE run' = [run EXCEPT !.emitted = @ + 1]
  <2>1. /\ q.stage = "executing" /\ q.turn = r.turn /\ q.talk = r.talk /\ q.failed = r.failed /\ q.awaits = r.awaits
        /\ q.recorded = r.recorded /\ q.emitted = r.emitted + 1 /\ q.asked = r.asked
    BY <1>1, <1>2, <1>4, <1>5 DEF UserRuns
  <2>2. AsksSoundly(q) /\ Stored(q) = Stored(r)
    BY <1>1, <1>2, <1>3, <2>1 DEF AsksSoundly, Stored, UserRuns
  <2>3. Chained(journals, spent.runs, q)
    BY <1>1, <1>2, <1>3, <2>1, <2>2, ChainGoesOn
  <2> QED BY <1>1, <1>4, <2>3 DEF RecordsSound
<1>6. CASE \E stage \in {"completing", "failing"} : run' = [run EXCEPT !.stage = stage]
  <2>1. /\ q.stage \in {"completing", "failing"} /\ q.turn = r.turn /\ q.talk = r.talk /\ q.failed = r.failed
        /\ q.awaits = r.awaits /\ q.recorded = r.recorded /\ q.emitted = r.emitted /\ q.asked = r.asked
    BY <1>2, <1>4, <1>6 DEF UserRuns
  <2>2. AsksSoundly(q) /\ Stored(q) = Stored(r)
    BY <1>1, <1>2, <1>3, <2>1 DEF AsksSoundly, Stored
  <2>3. Chained(journals, spent.runs, q)
    BY <1>1, <1>2, <1>3, <2>1, <2>2, ChainGoesOn
  <2> QED BY <1>1, <1>4, <2>3 DEF RecordsSound
<1> QED BY <1>1, <1>5, <1>6

\* A request that is refused.
LEMMA RefusedKeepsRecords ==
  ASSUME ViewSound, RecordsSound, run.stage # "idle", run.awaits = 0, NEW kind \in Asks, NEW n \in Nat,
         run' = Rejected([run EXCEPT !.asked = kind, !.awaits = n]), UNCHANGED <<journals, spent>>,
         kind = "record" => run.stage # "beginning" /\ run.recorded < run.emitted
  PROVE RecordsSound'
<1>1. PICK r \in UserRuns : r = run
  BY DEF ViewSound, ViewTyped
<1>2. PICK p : p = [r EXCEPT !.asked = kind, !.awaits = n]
  OBVIOUS
<1>3. /\ p \in UserRuns /\ p.asked = kind
      /\ p.stage = r.stage /\ p.turn = r.turn /\ p.talk = r.talk /\ p.failed = r.failed
      /\ p.recorded = r.recorded /\ p.emitted = r.emitted
  BY <1>2 DEF UserRuns
<1>4. Chained(journals, spent.runs, r) /\ r.stage # "idle" /\ Stored(r) = r.recorded
  BY <1>1 DEF RecordsSound, Stored
<1>5. p.asked = "record" => r.stage # "beginning" /\ r.recorded < r.emitted
  BY <1>1, <1>3
<1>6. Chained(journals, spent.runs, Rejected(p))
  BY <1>3, <1>4, <1>5, RejectedChain
<1>7. run' = Rejected(p)
  BY <1>1, <1>2
<1> QED BY <1>6, <1>7 DEF RecordsSound

\* What is asked for as event n of the journal, and done or refused.
Done(kind, m, n) ==
  /\ journals' = [journals EXCEPT ![run.talk] = Append(@, Event(kind, run.turn, m))]
  /\ run' = [run EXCEPT !.asked = kind, !.awaits = n]
Refused(kind, n) == run' = Rejected([run EXCEPT !.asked = kind, !.awaits = n]) /\ UNCHANGED journals

\* A request is done as the next event of the journal, or refused.
LEMMA AskedFor ==
  ASSUME ViewSound, run.stage # "idle", NEW kind \in Asks, NEW allowed, NEW m \in Nat, Request(kind, m, allowed)
  PROVE /\ run.awaits = 0 /\ run.talk \in Talks /\ run.turn \in Nat /\ UNCHANGED spent
        /\ \E n \in Nat \ {0} :
             /\ n = Len(journals[run.talk]) + 1
             /\ (allowed /\ Done(kind, m, n)) \/ Refused(kind, n)
<1>1. run.talk \in Talks /\ run.turn \in Nat
  BY DEF ViewSound, ViewTyped, InJournals, UserRuns
<1>2. PICK n \in Nat \ {0} : n = Len(journals[run.talk]) + 1
  BY <1>1, ViewTypes DEF ViewSound
<1>3. /\ run.awaits = 0 /\ UNCHANGED spent
      /\ (allowed /\ Done(kind, m, n)) \/ Refused(kind, n)
  BY <1>2 DEF Request, AppendSent, Done, Refused
<1> QED BY <1>1, <1>2, <1>3

\* A begin or a failure is written: no record, no completion.
LEMMA QuietRequest ==
  ASSUME ViewSound, RecordsSound, run.stage # "idle", NEW kind \in Asks, NEW allowed,
         kind \in {"turn_begin", "failed"}, NEW m \in Nat, Request(kind, m, allowed),
         kind = "turn_begin" => run.stage = "beginning",
         kind = "failed" => run.stage \in {"completing", "failing"}
  PROVE RecordsSound'
<1>2. /\ run.awaits = 0 /\ run.talk \in Talks /\ run.turn \in Nat /\ UNCHANGED spent
      /\ \E n \in Nat \ {0} :
           /\ n = Len(journals[run.talk]) + 1
           /\ (allowed /\ Done(kind, m, n)) \/ Refused(kind, n)
  BY AskedFor
<1>3. PICK n \in Nat \ {0} :
        Done(kind, m, n) \/ Refused(kind, n)
  BY <1>2
<1>4. CASE Refused(kind, n)
  BY <1>2, <1>4, RefusedKeepsRecords DEF Refused
<1>5. CASE Done(kind, m, n)
  <2>1. PICK t \in Talks : t = run.talk
    BY <1>2
  <2>2. PICK e : e = Event(kind, run.turn, m)
    OBVIOUS
  <2>3. e \in Events /\ e.kind = kind /\ e.turn = run.turn
    BY <1>2, <2>2 DEF Event, Events, Words, Marks
  <2>4. run.turn = spent.runs /\ AsksSoundly(run) /\ spent.runs \in Nat
    BY DEF RecordsSound, Chained, ViewSound, ViewTyped, Spendings
  <2>5. journals' = [journals EXCEPT ![t] = Append(@, e)]
    BY <1>5, <2>1, <2>2 DEF Done
  <2>6. e.kind \notin {"record", "completed"} /\ e.turn <= spent.runs
    BY <2>3, <2>4
  <2>7. /\ CompletedSoundly(journals') /\ Counted(journals', spent.runs)
        /\ Chained(journals', spent.runs, run)
    BY <2>1, <2>3, <2>5, <2>6, QuietAppend
  <2>8. PICK r \in UserRuns : r = run
    BY DEF ViewSound, ViewTyped
  <2>9. PICK q : q = run'
    OBVIOUS
  <2>10. /\ q.stage = r.stage /\ q.turn = r.turn /\ q.talk = r.talk /\ q.failed = r.failed /\ q.awaits = n
         /\ q.recorded = r.recorded /\ q.emitted = r.emitted /\ q.asked = kind
    BY <1>5, <2>8, <2>9 DEF UserRuns, Done
  <2>11. AsksSoundly(q) /\ Stored(q) = Stored(r)
    BY <1>2, <2>4, <2>8, <2>10 DEF AsksSoundly, Stored
  <2>12. PICK ks : ks = journals'
    OBVIOUS
  <2>13. Chained(ks, spent.runs, r) /\ r.stage # "idle"
    BY <2>7, <2>8, <2>12
  <2>14. Chained(ks, spent.runs, q)
    BY <2>10, <2>11, <2>13, ChainGoesOn
  <2> QED BY <1>2, <2>7, <2>9, <2>12, <2>14 DEF RecordsSound
<1> QED BY <1>3, <1>4, <1>5

\* The turn begins.
LEMMA BeginKeepsRecords ==
  ASSUME ViewSound, RecordsSound, Begins
  PROVE RecordsSound'
<1>1. PICK allowed : allowed = (Active(run.talk) = 0)
  OBVIOUS
<1>2. run.stage = "beginning" /\ Request("turn_begin", 0, allowed)
  BY <1>1 DEF Begins
<1> QED BY <1>2, QuietRequest DEF Asks

\* A record is appended: the next number of its turn.
LEMMA RecordKeepsRecords ==
  ASSUME ViewSound, RecordsSound, Records
  PROVE RecordsSound'
<1>1. PICK r \in UserRuns : r = run
  BY DEF ViewSound, ViewTyped
<1>2. PICK m \in Nat : m = r.recorded
  BY DEF UserRuns
<1>3. PICK allowed : allowed = InTurn
  OBVIOUS
<1>4. /\ r.stage \in {"executing", "completing", "failing"} /\ m < r.emitted /\ ~r.failed /\ m + 1 \in Nat
      /\ Request("record", m + 1, allowed) /\ "record" \in Asks
  BY <1>1, <1>2, <1>3 DEF Records, Asks
<1>5. /\ run.awaits = 0 /\ run.talk \in Talks /\ run.turn \in Nat /\ UNCHANGED spent
      /\ \E n \in Nat \ {0} :
           /\ n = Len(journals[run.talk]) + 1
           /\ (allowed /\ Done("record", m + 1, n)) \/ Refused("record", n)
  BY <1>1, <1>4, AskedFor
<1>6. PICK n \in Nat \ {0} :
        /\ n = Len(journals[run.talk]) + 1
        /\ Done("record", m + 1, n) \/ Refused("record", n)
  BY <1>5
<1>7. CASE Refused("record", n)
  <2>1. run.stage # "beginning" /\ run.stage # "idle" /\ run.recorded < run.emitted
    BY <1>1, <1>2, <1>4
  <2> QED BY <1>4, <1>5, <1>7, <2>1, RefusedKeepsRecords DEF Refused
<1>8. CASE Done("record", m + 1, n)
  <2>1. PICK t \in Talks : t = r.talk
    BY <1>1, <1>5
  <2>2. PICK e : e = Event("record", r.turn, m + 1)
    OBVIOUS
  <2>3. e \in Events /\ e.kind = "record" /\ e.turn = r.turn /\ e.n = m + 1
    BY <1>1, <1>5, <2>2 DEF Event, Events, Words
  <2>4. PICK j \in Seq(Events) : j = journals[t]
    BY ViewTypes DEF ViewSound
  <2>5. PICK k : k = Append(j, e)
    OBVIOUS
  <2>6. n = Len(j) + 1
    BY <1>1, <1>6, <2>1, <2>4
  <2>7. /\ DOMAIN j \in SUBSET Nat /\ n \notin DOMAIN j
        /\ DOMAIN k = DOMAIN j \cup {n} /\ k[n] = e /\ \A i \in DOMAIN j : k[i] = j[i] /\ i < n
    BY <2>3, <2>5, <2>6, AppendedEvent
  <2>8. journals'[t] = k /\ \A s \in Talks \ {t} : journals'[s] = journals[s]
    <3>1. journals \in [Talks -> Seq(Events)] /\ journals' = [journals EXCEPT ![t] = k]
      BY <1>1, <1>8, <2>1, <2>2, <2>4, <2>5 DEF ViewSound, ViewTyped, Done
    <3> QED BY <3>1
  <2> HIDE <1>8, <2>5
  <2>9. /\ r.turn = spent.runs /\ spent.runs \in Nat
        /\ \A s \in Talks : \A i \in DOMAIN journals[s] : journals[s][i].turn = r.turn => s = t
        /\ WithRecords(j, r.turn, m)
        /\ \A i \in DOMAIN j : ~(j[i].kind = "completed" /\ j[i].turn = r.turn)
    <3>1. Chained(journals, spent.runs, r) /\ Stored(r) = m /\ m # r.emitted /\ spent.runs \in Nat
      BY <1>1, <1>2, <1>4, <1>5 DEF RecordsSound, Stored, ViewSound, ViewTyped, Spendings, UserRuns
    <3> QED BY <1>2, <1>4, <2>1, <2>4, <3>1 DEF Chained
  <2>10. WithRecords(k, r.turn, m + 1)
    BY <2>3, <2>7, <2>9, NextRecord
  <2>11. \A turn, x : turn # r.turn /\ WithRecords(j, turn, x) => WithRecords(k, turn, x)
    <3> SUFFICES ASSUME NEW turn, turn # r.turn
                 PROVE \A x : WithRecords(j, turn, x) => WithRecords(k, turn, x)
      OBVIOUS
    <3>1. \A i \in DOMAIN k \ DOMAIN j : k[i].kind # "record" \/ k[i].turn # turn
      BY <2>3, <2>7
    <3> QED BY <2>7, <3>1, SameRecords
  <2>12. CompletedSoundly(journals')
    <3> SUFFICES ASSUME NEW s \in Talks, NEW i \in DOMAIN journals'[s], journals'[s][i].kind = "completed"
                 PROVE WithRecords(journals'[s], journals'[s][i].turn, journals'[s][i].n)
      BY DEF CompletedSoundly
    <3>1. CASE s # t
      BY <2>8, <3>1 DEF RecordsSound, CompletedSoundly
    <3>2. CASE s = t
      <4>1. i \in DOMAIN j /\ k[i] = j[i] /\ j[i].kind = "completed"
        BY <2>3, <2>7, <2>8, <3>2
      <4>2. WithRecords(j, j[i].turn, j[i].n) /\ j[i].turn # r.turn
        BY <2>4, <2>9, <4>1 DEF RecordsSound, CompletedSoundly
      <4>3. WithRecords(k, j[i].turn, j[i].n)
        BY <2>11, <4>2
      <4> QED BY <2>8, <3>2, <4>1, <4>3
    <3> QED BY <3>1, <3>2
  <2>13. Counted(journals', spent.runs)
    <3> SUFFICES ASSUME NEW s \in Talks, NEW i \in DOMAIN journals'[s]
                 PROVE journals'[s][i].turn <= spent.runs
      BY DEF Counted
    <3>1. CASE s # t
      BY <2>8, <3>1 DEF RecordsSound, Counted
    <3>2. CASE s = t
      <4>1. CASE i = n
        BY <2>3, <2>7, <2>8, <2>9, <3>2, <4>1
      <4>2. CASE i # n
        BY <2>4, <2>7, <2>8, <3>2, <4>2 DEF RecordsSound, Counted
      <4> QED BY <4>1, <4>2
    <3> QED BY <3>1, <3>2
  <2>14. PICK q : q = run'
    OBVIOUS
  <2>15. /\ q.stage = r.stage /\ q.turn = r.turn /\ q.talk = r.talk /\ q.failed = r.failed /\ q.awaits = n
         /\ q.recorded = m /\ q.emitted = r.emitted /\ q.asked = "record"
    BY <1>1, <1>2, <1>8, <2>14 DEF UserRuns, Done
  <2>16. Chained(journals', spent.runs, q)
    <3>1. AsksSoundly(q) /\ Stored(q) = m + 1
      BY <1>4, <2>15 DEF AsksSoundly, Stored, UserRuns
    <3>2. \A s \in Talks : \A i \in DOMAIN journals'[s] : journals'[s][i].turn = q.turn => s = q.talk
      BY <2>1, <2>8, <2>9, <2>15
    <3>3. \A i \in DOMAIN k : ~(k[i].kind = "completed" /\ k[i].turn = q.turn)
      BY <2>3, <2>7, <2>9, <2>15
    <3> QED BY <2>1, <2>8, <2>9, <2>10, <2>15, <3>1, <3>2, <3>3 DEF Chained
  <2> QED BY <1>5, <2>12, <2>13, <2>14, <2>16 DEF RecordsSound
<1> QED BY <1>6, <1>7, <1>8

\* The completion is appended when every reported event is a record.
LEMMA CompletionKeepsRecords ==
  ASSUME ViewSound, RecordsSound, Completes, NEW allowed, Request("completed", run.emitted, allowed)
  PROVE RecordsSound'
<1>1. PICK r \in UserRuns : r = run
  BY DEF ViewSound, ViewTyped
<1>2. PICK m \in Nat : m = r.emitted
  BY DEF UserRuns
<1>3. /\ r.stage = "completing" /\ r.recorded = m /\ ~r.failed
      /\ Request("completed", m, allowed) /\ "completed" \in Asks
  BY <1>1, <1>2 DEF Completes, Drained, Asks
<1>4. /\ run.awaits = 0 /\ run.talk \in Talks /\ run.turn \in Nat /\ UNCHANGED spent
      /\ \E n \in Nat \ {0} :
           /\ n = Len(journals[run.talk]) + 1
           /\ (allowed /\ Done("completed", m, n)) \/ Refused("completed", n)
  BY <1>1, <1>3, AskedFor
<1>5. PICK n \in Nat \ {0} :
        /\ n = Len(journals[run.talk]) + 1
        /\ Done("completed", m, n) \/ Refused("completed", n)
  BY <1>4
<1>6. CASE Refused("completed", n)
  BY <1>1, <1>3, <1>4, <1>6, RefusedKeepsRecords DEF Refused
<1>7. CASE Done("completed", m, n)
  <2>1. PICK t \in Talks : t = r.talk
    BY <1>1, <1>4
  <2>2. PICK e : e = Event("completed", r.turn, m)
    OBVIOUS
  <2>3. e \in Events /\ e.kind = "completed" /\ e.turn = r.turn /\ e.n = m
    BY <1>1, <1>4, <2>2 DEF Event, Events, Words, Marks
  <2>4. PICK j \in Seq(Events) : j = journals[t]
    BY ViewTypes DEF ViewSound
  <2>5. PICK k : k = Append(j, e)
    OBVIOUS
  <2>6. n = Len(j) + 1
    BY <1>1, <1>5, <2>1, <2>4
  <2>7. /\ n \notin DOMAIN j /\ DOMAIN k = DOMAIN j \cup {n} /\ k[n] = e /\ \A i \in DOMAIN j : k[i] = j[i]
    BY <2>3, <2>5, <2>6, AppendedEvent
  <2>8. journals'[t] = k /\ \A s \in Talks \ {t} : journals'[s] = journals[s]
    <3>1. journals \in [Talks -> Seq(Events)] /\ journals' = [journals EXCEPT ![t] = k]
      BY <1>1, <1>7, <2>1, <2>2, <2>4, <2>5 DEF ViewSound, ViewTyped, Done
    <3> QED BY <3>1
  <2> HIDE <1>7, <2>5
  <2>9. /\ r.turn = spent.runs /\ spent.runs \in Nat
        /\ \A s \in Talks : \A i \in DOMAIN journals[s] : journals[s][i].turn = r.turn => s = t
        /\ WithRecords(j, r.turn, m)
    <3>1. Chained(journals, spent.runs, r) /\ Stored(r) = m /\ spent.runs \in Nat
      BY <1>1, <1>3, <1>4 DEF RecordsSound, Stored, ViewSound, ViewTyped, Spendings
    <3> QED BY <1>3, <2>1, <2>4, <3>1 DEF Chained
  <2>10. \A turn, x : WithRecords(j, turn, x) => WithRecords(k, turn, x)
    <3> SUFFICES ASSUME NEW turn
                 PROVE \A x : WithRecords(j, turn, x) => WithRecords(k, turn, x)
      OBVIOUS
    <3>1. \A i \in DOMAIN k \ DOMAIN j : k[i].kind # "record" \/ k[i].turn # turn
      BY <2>3, <2>7
    <3> QED BY <2>7, <3>1, SameRecords
  <2>11. CompletedSoundly(journals')
    <3> SUFFICES ASSUME NEW s \in Talks, NEW i \in DOMAIN journals'[s], journals'[s][i].kind = "completed"
                 PROVE WithRecords(journals'[s], journals'[s][i].turn, journals'[s][i].n)
      BY DEF CompletedSoundly
    <3>1. CASE s # t
      BY <2>8, <3>1 DEF RecordsSound, CompletedSoundly
    <3>2. CASE s = t /\ i = n
      BY <2>3, <2>7, <2>8, <2>9, <2>10, <3>2
    <3>3. CASE s = t /\ i # n
      <4>1. i \in DOMAIN j /\ k[i] = j[i] /\ j[i].kind = "completed"
        BY <2>7, <2>8, <3>3
      <4>2. WithRecords(j, j[i].turn, j[i].n)
        BY <2>4, <4>1 DEF RecordsSound, CompletedSoundly
      <4> QED BY <2>8, <2>10, <3>3, <4>1, <4>2
    <3> QED BY <3>1, <3>2, <3>3
  <2>12. Counted(journals', spent.runs)
    <3> SUFFICES ASSUME NEW s \in Talks, NEW i \in DOMAIN journals'[s]
                 PROVE journals'[s][i].turn <= spent.runs
      BY DEF Counted
    <3>1. CASE s # t
      BY <2>8, <3>1 DEF RecordsSound, Counted
    <3>2. CASE s = t
      <4>1. CASE i = n
        BY <2>3, <2>7, <2>8, <2>9, <3>2, <4>1
      <4>2. CASE i # n
        BY <2>4, <2>7, <2>8, <3>2, <4>2 DEF RecordsSound, Counted
      <4> QED BY <4>1, <4>2
    <3> QED BY <3>1, <3>2
  <2>13. PICK q : q = run'
    OBVIOUS
  <2>14. /\ q.stage = "completing" /\ q.turn = r.turn /\ q.talk = r.talk /\ ~q.failed /\ q.awaits = n
         /\ q.recorded = m /\ q.emitted = m /\ q.asked = "completed"
    BY <1>1, <1>2, <1>3, <1>7, <2>13 DEF UserRuns, Done
  <2>15. Chained(journals', spent.runs, q)
    <3>1. AsksSoundly(q) /\ Stored(q) = m
      BY <2>14 DEF AsksSoundly, Stored
    <3>2. \A s \in Talks : \A i \in DOMAIN journals'[s] : journals'[s][i].turn = q.turn => s = q.talk
      BY <2>1, <2>8, <2>9, <2>14
    <3> QED BY <2>1, <2>8, <2>9, <2>10, <2>14, <3>1, <3>2 DEF Chained
  <2> QED BY <1>4, <2>11, <2>12, <2>13, <2>15 DEF RecordsSound
<1> QED BY <1>5, <1>6, <1>7

\* The turn is completed or failed.
LEMMA FinishKeepsRecords ==
  ASSUME ViewSound, RecordsSound, Finishes
  PROVE RecordsSound'
<1>1. PICK allowed : allowed = InTurn
  OBVIOUS
<1>2. PICK m \in Nat : m = run.emitted
  BY DEF ViewSound, ViewTyped, UserRuns
<1>3. CASE Completes /\ Request("completed", run.emitted, allowed)
  BY <1>3, CompletionKeepsRecords
<1>4. CASE run.stage \in {"failing", "completing"} /\ Request("failed", m, allowed)
  BY <1>4, QuietRequest DEF Asks
<1> QED BY <1>1, <1>2, <1>3, <1>4 DEF Finishes

\* Every step keeps the invariant.
LEMMA RecordsStaySound ==
  ASSUME ViewSound, RecordsSound, [ViewNext]_viewVars
  PROVE RecordsSound'
<1>1. CASE ViewNext
  <2>1. CASE ModelSpeaks \/ UserStops \/ ProcessEnds
    BY <2>1, NativeKeepsRecords, ProcessEndKeepsRecords
  <2>2. CASE Sends \/ Reads \/ PageArrives \/ Ready \/ \E t \in Talks : Select(t)
    BY <2>2, ViewKeepsRecords
  <2>3. CASE Notified \/ RunStarts \/ Emits \/ EngineEnds
    BY <2>3, NotifiedKeepsRecords, RunStartKeepsRecords, EngineKeepsRecords
  <2>4. CASE Begins \/ Records \/ Finishes
    BY <2>4, BeginKeepsRecords, RecordKeepsRecords, FinishKeepsRecords
  <2> QED BY <1>1, <2>1, <2>2, <2>3, <2>4 DEF ViewNext
<1>2. CASE UNCHANGED viewVars
  BY <1>2, RecordsAside DEF viewVars
<1> QED BY <1>1, <1>2

\* A request of the user (run in conversations.ts) is completed in the journal only with
\* every event that its engine reported, each once and in order, although records are
\* refused, the process ends between them, and the user may stop the turn.
THEOREM CompletedAlwaysHasItsRecords == ViewSpec => []CompletedHasItsRecords
<1>1. ViewInit => RecordsSound
  <2> SUFFICES ASSUME ViewInit
               PROVE RecordsSound
    OBVIOUS
  <2>1. \A t \in Talks : DOMAIN journals[t] = {}
    BY DEF ViewInit
  <2>2. Chained(journals, spent.runs, run)
    BY DEF ViewInit, Chained, NoRun
  <2> QED BY <2>1, <2>2 DEF RecordsSound, CompletedSoundly, Counted
<1>2. ViewSound /\ RecordsSound /\ [ViewNext]_viewVars => RecordsSound'
  BY RecordsStaySound
<1>3. RecordsSound => CompletedHasItsRecords
  BY DEF RecordsSound, CompletedSoundly, WithRecords, RecordsOf, CompletedHasItsRecords
<1> QED BY <1>1, <1>2, <1>3, ViewIsSound, PTL DEF ViewSpec

-----------------------------------------------------------------------------
(* The chat: its messages are any finite sequence, of records with the     *)
(* fields below; of texts and timelines nothing is said until what is      *)
(* shown is compared with what was heard.                                  *)

IsList(s) == \E S : s \in Seq(S)

IsTool(t) == t = [id |-> t.id, status |-> t.status]

IsCard(card) ==
  /\ card = [status |-> card.status, texts |-> card.texts, tools |-> card.tools, timeline |-> card.timeline]
  /\ IsList(card.tools) /\ \A i \in DOMAIN card.tools : IsTool(card.tools[i])

IsMessage(m) ==
  /\ m = [kind |-> m.kind, turn |-> m.turn, text |-> m.text, card |-> m.card, state |-> m.state]
  /\ IsCard(m.card)

IsOpen(o) ==
  o = [turn |-> o.turn, role |-> o.role, card |-> o.card, answer |-> o.answer, streamed |-> o.streamed]

\* The open turn is the last that began, and has the one card among its messages.
OpenTurn(c) ==
  \/ c.open = NoTurn
  \/ /\ c.open.turn = c.turns /\ c.turns >= 1
     /\ c.open.card \in DOMAIN c.messages /\ c.messages[c.open.card].turn = c.open.turn

\* A message of a turn that ended is at rest, and the open turn has one card.
AtRest(m) ==
  /\ m.kind = "card" =>
       m.card.status # "working" /\ \A i \in DOMAIN m.card.tools : m.card.tools[i].status # "running"
  /\ m.state # "asked"

ChatTyped(c) ==
  /\ c = [messages |-> c.messages, open |-> c.open, turns |-> c.turns]
  /\ IsList(c.messages) /\ \A m \in DOMAIN c.messages : IsMessage(c.messages[m])
  /\ IsOpen(c.open) /\ c.open.turn \in Nat /\ c.open.card \in Nat /\ c.open.answer \in Nat
  /\ c.turns \in Nat
  /\ c.open.answer # 0 => c.open.answer \in DOMAIN c.messages

Resting(c) ==
  \A m \in DOMAIN c.messages :
    /\ c.messages[m].turn \in 1..c.turns
    /\ c.messages[m].turn # c.open.turn => AtRest(c.messages[m])
    /\ c.messages[m].turn = c.open.turn /\ c.messages[m].kind = "card" => m = c.open.card

ChatSound(c) == ChatTyped(c) /\ OpenTurn(c) /\ Resting(c)

LEMMA Appended ==
  ASSUME NEW s, IsList(s), NEW e
  PROVE  /\ IsList(Append(s, e)) /\ Len(s) \in Nat /\ DOMAIN s = 1..Len(s)
         /\ DOMAIN Append(s, e) = 1..Len(s) + 1
         /\ Append(s, e)[Len(s) + 1] = e
         /\ \A i \in 1..Len(s) : Append(s, e)[i] = s[i]
<1>1. PICK S : s \in Seq(S)
  BY DEF IsList
<1>2. s \in Seq(S \cup {e}) /\ e \in S \cup {e}
  <2>1. S \subseteq S \cup {e}
    OBVIOUS
  <2>2. QED
    BY <1>1, <2>1
<1>3. Append(s, e) \in Seq(S \cup {e})
  BY <1>2
<1>4. QED
  BY <1>1, <1>2, <1>3 DEF IsList

\* A sequence that is changed in place is a sequence.
LEMMA Remade ==
  ASSUME NEW s, IsList(s), NEW t, DOMAIN t = DOMAIN s, t = [i \in DOMAIN s |-> t[i]]
  PROVE  IsList(t) /\ Len(t) = Len(s)
<1>1. PICK S : s \in Seq(S)
  BY DEF IsList
<1>2. DOMAIN s = 1..Len(s) /\ Len(s) \in Nat
  BY <1>1
<1> DEFINE T == {t[i] : i \in DOMAIN s}
<1>3. t \in [1..Len(s) -> T]
  BY <1>2
<1>4. t \in Seq(T) /\ DOMAIN t = 1..Len(t) /\ Len(t) \in Nat
  BY <1>2, <1>3
<1>5. IsList(t)
  BY <1>4 DEF IsList
<1>6. Len(t) = Len(s)
  BY <1>2, <1>4
<1>7. QED
  BY <1>5, <1>6

LEMMA WithTextTyped ==
  ASSUME NEW card, IsCard(card), NEW kind, NEW source, NEW piece
  PROVE  IsCard(WithText(card, kind, source, piece))
<1>1. \E held, timeline : WithText(card, kind, source, piece) =
                             [card EXCEPT !.texts = held, !.timeline = timeline]
  BY Zenon DEF WithText
<1>2. PICK held, timeline : WithText(card, kind, source, piece) =
                               [card EXCEPT !.texts = held, !.timeline = timeline]
  BY <1>1
<1>3. WithText(card, kind, source, piece) =
        [status |-> card.status, texts |-> held, tools |-> card.tools, timeline |-> timeline]
  BY <1>2 DEF IsCard
<1>4. QED
  BY <1>3 DEF IsCard

LEMMA WithToolTyped ==
  ASSUME NEW card, IsCard(card), NEW tool, NEW status
  PROVE  IsCard(WithTool(card, tool, status))
<1>1. CASE \E i \in DOMAIN card.tools : card.tools[i].id = tool
  <2> DEFINE tools == [i \in DOMAIN card.tools |-> IF card.tools[i].id = tool
                         THEN [card.tools[i] EXCEPT !.status = status] ELSE card.tools[i]]
  <2>1. WithTool(card, tool, status) =
          [status |-> card.status, texts |-> card.texts, tools |-> tools, timeline |-> card.timeline]
    BY <1>1 DEF WithTool, IsCard
  <2>2. IsList(tools)
    BY Remade DEF IsCard
  <2>3. \A i \in DOMAIN tools : IsTool(tools[i])
    BY DEF IsCard, IsTool
  <2>4. QED
    BY <2>1, <2>2, <2>3 DEF IsCard
<1>2. CASE ~ \E i \in DOMAIN card.tools : card.tools[i].id = tool
  <2> DEFINE new   == [id |-> tool, status |-> status]
             tools == Append(card.tools, new)
             lines == Append(card.timeline, [kind |-> "tool", id |-> tool, source |-> tool])
  <2>1. WithTool(card, tool, status) =
          [status |-> card.status, texts |-> card.texts, tools |-> tools, timeline |-> lines]
    BY <1>2 DEF WithTool, IsCard
  <2>2. /\ IsList(tools) /\ Len(card.tools) \in Nat /\ DOMAIN card.tools = 1..Len(card.tools)
        /\ DOMAIN tools = 1..Len(card.tools) + 1
        /\ tools[Len(card.tools) + 1] = new
        /\ \A i \in 1..Len(card.tools) : tools[i] = card.tools[i]
    BY Appended DEF IsCard
  <2>3. IsTool(new)
    BY DEF IsTool
  <2>4. \A i \in DOMAIN tools : IsTool(tools[i])
    <3> SUFFICES ASSUME NEW i \in DOMAIN tools PROVE IsTool(tools[i])
      OBVIOUS
    <3> HIDE DEF tools, new
    <3>1. i \in 1..Len(card.tools) \/ i = Len(card.tools) + 1
      BY <2>2
    <3>2. QED
      BY <2>2, <2>3, <3>1 DEF IsCard
  <2>5. QED
    BY <2>1, <2>2, <2>4 DEF IsCard
<1>3. QED
  BY <1>1, <1>2

\* A card whose turn ended is not working, and none of its tools is running.
LEMMA StatusRests ==
  ASSUME NEW card, IsCard(card), NEW status \in {"completed", "failed", "interrupted"}
  PROVE  LET after == WithStatus(card, status) IN
           /\ IsCard(after) /\ after.status # "working"
           /\ \A i \in DOMAIN after.tools : after.tools[i].status # "running"
<1>1. PICK left \in {"completed", "failed", "declined"} : WithStatus(card, status) = Stopped(card, status, left)
  BY DEF WithStatus
<1> DEFINE tools == [i \in DOMAIN card.tools |-> IF card.tools[i].status = "running"
                       THEN [card.tools[i] EXCEPT !.status = left] ELSE card.tools[i]]
<1>2. WithStatus(card, status) =
        [status |-> status, texts |-> card.texts, tools |-> tools, timeline |-> card.timeline]
  BY <1>1 DEF Stopped, IsCard
<1>3. IsList(tools)
  BY Remade DEF IsCard
<1>4. \A i \in DOMAIN tools : IsTool(tools[i]) /\ tools[i].status # "running"
  BY DEF IsCard, IsTool
<1>5. QED
  BY <1>2, <1>3, <1>4 DEF IsCard

LEMMA NewCard == IsCard(Card) /\ \A kind, turn : IsMessage(Message(kind, turn))
<1>1. IsCard(Card)
  <2>1. Card.tools = <<>> /\ <<>> \in Seq({})
    BY DEF Card
  <2>2. QED
    BY <2>1 DEF Card, IsCard, IsList
<1>2. QED
  BY <1>1 DEF Message, IsMessage

\* One more message: what was there is kept.
LEMMA PushTyped ==
  ASSUME NEW c, ChatTyped(c), NEW m, IsMessage(m)
  PROVE  LET n == Len(c.messages)
             after == Push(c, m)
         IN /\ ChatTyped(after) /\ after.open = c.open /\ after.turns = c.turns
            /\ n \in Nat /\ DOMAIN c.messages = 1..n /\ DOMAIN after.messages = 1..n + 1
            /\ after.messages[n + 1] = m
            /\ \A i \in 1..n : after.messages[i] = c.messages[i]
<1> DEFINE n == Len(c.messages)
           after == Push(c, m)
<1>1. after = [messages |-> Append(c.messages, m), open |-> c.open, turns |-> c.turns]
  BY DEF Push, ChatTyped
<1>2. /\ IsList(after.messages) /\ n \in Nat /\ DOMAIN c.messages = 1..n
      /\ DOMAIN after.messages = 1..n + 1
      /\ after.messages[n + 1] = m
      /\ \A i \in 1..n : after.messages[i] = c.messages[i]
  BY <1>1, Appended DEF ChatTyped
<1>3. \A i \in DOMAIN after.messages : IsMessage(after.messages[i])
  <2> SUFFICES ASSUME NEW i \in DOMAIN after.messages PROVE IsMessage(after.messages[i])
    OBVIOUS
  <2> HIDE DEF after, n
  <2>1. i \in 1..n \/ i = n + 1
    BY <1>2
  <2>2. QED
    BY <1>2, <2>1 DEF ChatTyped
<1>4. after.open = c.open /\ after.turns = c.turns
  BY <1>1
<1>5. ChatTyped(after)
  <2> HIDE DEF after, n
  <2>1. after = [messages |-> after.messages, open |-> after.open, turns |-> after.turns]
    BY <1>1
  <2>2. after.open.answer # 0 => after.open.answer \in DOMAIN after.messages
    BY <1>2, <1>4 DEF ChatTyped
  <2>3. QED
    BY <1>2, <1>3, <1>4, <2>1, <2>2 DEF ChatTyped
<1>6. QED
  BY <1>2, <1>4, <1>5

LEMMA CardChanged ==
  ASSUME NEW m, IsMessage(m), NEW card, IsCard(card), NEW x, x = [m EXCEPT !.card = card]
  PROVE  IsMessage(x) /\ x.kind = m.kind /\ x.turn = m.turn /\ x.text = m.text /\ x.card = card /\ x.state = m.state
<1>1. x = [kind |-> m.kind, turn |-> m.turn, text |-> m.text, card |-> card, state |-> m.state]
  BY DEF IsMessage
<1>2. QED
  BY <1>1 DEF IsMessage

LEMMA TextChanged ==
  ASSUME NEW m, IsMessage(m), NEW text, NEW x, x = [m EXCEPT !.text = text]
  PROVE  IsMessage(x) /\ x.kind = m.kind /\ x.turn = m.turn /\ x.text = text /\ x.card = m.card /\ x.state = m.state
<1>1. x = [kind |-> m.kind, turn |-> m.turn, text |-> text, card |-> m.card, state |-> m.state]
  BY DEF IsMessage
<1>2. QED
  BY <1>1 DEF IsMessage

LEMMA StateChanged ==
  ASSUME NEW m, IsMessage(m), NEW state, NEW x, x = [m EXCEPT !.state = state]
  PROVE  IsMessage(x) /\ x.kind = m.kind /\ x.turn = m.turn /\ x.text = m.text /\ x.card = m.card /\ x.state = state
<1>1. x = [kind |-> m.kind, turn |-> m.turn, text |-> m.text, card |-> m.card, state |-> state]
  BY DEF IsMessage
<1>2. QED
  BY <1>1 DEF IsMessage

\* Messages changed in place, in a turn that goes on.
LEMMA ReplacedSound ==
  ASSUME NEW c, ChatSound(c), NEW msgs,
         msgs = [i \in DOMAIN c.messages |-> msgs[i]],
         \A i \in DOMAIN c.messages :
           /\ IsMessage(msgs[i])
           /\ msgs[i].turn = c.messages[i].turn /\ msgs[i].kind = c.messages[i].kind
           /\ c.messages[i].turn # c.open.turn => AtRest(msgs[i])
  PROVE  ChatSound([c EXCEPT !.messages = msgs])
<1> DEFINE after == [c EXCEPT !.messages = msgs]
<1>1. after = [messages |-> msgs, open |-> c.open, turns |-> c.turns]
  BY DEF ChatSound, ChatTyped
<1>2. IsList(msgs) /\ DOMAIN msgs = DOMAIN c.messages
  BY Remade DEF ChatSound, ChatTyped
<1>3. after.messages = msgs /\ after.open = c.open /\ after.turns = c.turns
      /\ after = [messages |-> after.messages, open |-> after.open, turns |-> after.turns]
  BY <1>1
<1> HIDE DEF after
<1>4. ChatTyped(after)
  BY <1>2, <1>3 DEF ChatSound, ChatTyped
<1>5. OpenTurn(after)
  BY <1>2, <1>3 DEF ChatSound, OpenTurn
<1>6. Resting(after)
  BY <1>2, <1>3 DEF ChatSound, Resting
<1>7. QED
  BY <1>4, <1>5, <1>6 DEF ChatSound, after

\* One message changes, and is at rest if its turn ended.
LEMMA ChangedSound ==
  ASSUME NEW c, ChatSound(c), NEW k \in DOMAIN c.messages, NEW m, IsMessage(m),
         m.turn = c.messages[k].turn, m.kind = c.messages[k].kind, m.turn # c.open.turn => AtRest(m)
  PROVE  LET after == [c EXCEPT !.messages[k] = m] IN
           /\ ChatSound(after) /\ after.open = c.open /\ after.turns = c.turns
           /\ DOMAIN after.messages = DOMAIN c.messages
           /\ after.messages[k] = m
           /\ \A i \in DOMAIN c.messages \ {k} : after.messages[i] = c.messages[i]
<1> DEFINE msgs  == [c.messages EXCEPT ![k] = m]
           after == [c EXCEPT !.messages[k] = m]
<1>1. after = [c EXCEPT !.messages = msgs]
  OBVIOUS
<1>2. c.messages = [i \in DOMAIN c.messages |-> c.messages[i]]
  <2>1. PICK S : c.messages \in Seq(S)
    BY DEF ChatSound, ChatTyped, IsList
  <2>2. QED
    BY <2>1
<1>3. /\ msgs = [i \in DOMAIN c.messages |-> msgs[i]] /\ DOMAIN msgs = DOMAIN c.messages
      /\ msgs[k] = m /\ \A i \in DOMAIN c.messages \ {k} : msgs[i] = c.messages[i]
  BY <1>2
<1> HIDE DEF msgs
<1>4. ASSUME NEW i \in DOMAIN c.messages
      PROVE  /\ IsMessage(msgs[i])
             /\ msgs[i].turn = c.messages[i].turn /\ msgs[i].kind = c.messages[i].kind
             /\ c.messages[i].turn # c.open.turn => AtRest(msgs[i])
  BY <1>3 DEF ChatSound, ChatTyped, Resting
<1>5. ChatSound([c EXCEPT !.messages = msgs])
  BY <1>3, <1>4, ReplacedSound
<1>6. after = [messages |-> msgs, open |-> c.open, turns |-> c.turns]
  BY <1>1 DEF ChatSound, ChatTyped
<1>7. QED
  BY <1>1, <1>3, <1>5, <1>6

\* The card of the open turn changes.
LEMMA CardSound ==
  ASSUME NEW c, ChatSound(c), c.open # NoTurn, NEW card, IsCard(card)
  PROVE  LET after == [c EXCEPT !.messages[c.open.card].card = card] IN
           /\ ChatSound(after) /\ after.open = c.open /\ after.turns = c.turns
           /\ DOMAIN after.messages = DOMAIN c.messages /\ c.open.card \in DOMAIN c.messages
           /\ after.messages[c.open.card].card = card
<1>1. c.open.card \in DOMAIN c.messages /\ c.messages[c.open.card].turn = c.open.turn
  BY DEF ChatSound, OpenTurn
<1>2. PICK m : m = c.messages[c.open.card]
  OBVIOUS
<1>3. IsMessage(m)
  BY <1>1, <1>2 DEF ChatSound, ChatTyped
<1>4. PICK x : x = [m EXCEPT !.card = card]
  OBVIOUS
<1>5. IsMessage(x) /\ x.turn = m.turn /\ x.kind = m.kind /\ x.card = card
  BY <1>3, <1>4, CardChanged
<1>6. [c EXCEPT !.messages[c.open.card].card = card] = [c EXCEPT !.messages[c.open.card] = x]
  BY <1>2, <1>4
<1>7. x.turn = c.open.turn
  BY <1>1, <1>2, <1>5
<1>8. PICK k : k = c.open.card
  OBVIOUS
<1>9. /\ ChatSound([c EXCEPT !.messages[k] = x])
      /\ [c EXCEPT !.messages[k] = x].open = c.open /\ [c EXCEPT !.messages[k] = x].turns = c.turns
      /\ DOMAIN [c EXCEPT !.messages[k] = x].messages = DOMAIN c.messages
      /\ [c EXCEPT !.messages[k] = x].messages[k] = x
  BY <1>1, <1>2, <1>5, <1>7, <1>8, ChangedSound
<1>10. QED
  BY <1>1, <1>5, <1>6, <1>8, <1>9

\* A question that is answered waits no more.
LEMMA RepliedSound ==
  ASSUME NEW c, ChatSound(c), NEW k \in DOMAIN c.messages
  PROVE  ChatSound(Replied(c, k))
<1>1. PICK m : m = c.messages[k]
  OBVIOUS
<1>2. IsMessage(m)
  BY <1>1 DEF ChatSound, ChatTyped
<1>3. PICK x : x = [m EXCEPT !.state = "answered"]
  OBVIOUS
<1>4. IsMessage(x) /\ x.turn = m.turn /\ x.kind = m.kind /\ x.card = m.card /\ x.state = "answered"
  BY <1>2, <1>3, StateChanged
<1>5. Replied(c, k) = [c EXCEPT !.messages[k] = x]
  BY <1>1, <1>3 DEF Replied
<1>6. x.turn # c.open.turn => AtRest(x)
  BY <1>1, <1>4 DEF ChatSound, Resting, AtRest
<1>7. QED
  BY <1>1, <1>4, <1>5, <1>6, ChangedSound

LEMMA PushSound ==
  ASSUME NEW c, ChatSound(c), NEW m, IsMessage(m), m.turn \in 1..c.turns,
         m.turn = c.open.turn => m.kind # "card", m.turn # c.open.turn => AtRest(m)
  PROVE  ChatSound(Push(c, m))
<1> DEFINE n == Len(c.messages)
           after == Push(c, m)
<1>1. /\ ChatTyped(after) /\ after.open = c.open /\ after.turns = c.turns
      /\ n \in Nat /\ DOMAIN c.messages = 1..n /\ DOMAIN after.messages = 1..n + 1
      /\ after.messages[n + 1] = m
      /\ \A i \in 1..n : after.messages[i] = c.messages[i]
  BY PushTyped DEF ChatSound
<1> HIDE DEF after, n
<1>2. OpenTurn(after)
  BY <1>1 DEF ChatSound, OpenTurn
<1>3. Resting(after)
  <2> SUFFICES ASSUME NEW i \in DOMAIN after.messages
               PROVE  /\ after.messages[i].turn \in 1..after.turns
                      /\ after.messages[i].turn # after.open.turn => AtRest(after.messages[i])
                      /\ after.messages[i].turn = after.open.turn /\ after.messages[i].kind = "card"
                           => i = after.open.card
    BY DEF Resting
  <2>1. CASE i = n + 1
    BY <1>1, <2>1
  <2>2. CASE i \in 1..n
    BY <1>1, <2>2 DEF ChatSound, Resting
  <2>3. QED
    BY <1>1, <2>1, <2>2
<1>4. QED
  BY <1>1, <1>2, <1>3 DEF ChatSound, after

\* What the projection keeps of the open turn changes; the turn and its card do not.
LEMMA OpenSound ==
  ASSUME NEW c, ChatSound(c), NEW o, IsOpen(o), o.turn = c.open.turn, o.card = c.open.card,
         o.answer \in Nat, o.answer # 0 => o.answer \in DOMAIN c.messages, c.open # NoTurn
  PROVE  ChatSound([c EXCEPT !.open = o]) /\ [c EXCEPT !.open = o].open = o
<1> DEFINE after == [c EXCEPT !.open = o]
<1>1. after = [messages |-> c.messages, open |-> o, turns |-> c.turns]
  BY DEF ChatSound, ChatTyped
<1>2. after.messages = c.messages /\ after.open = o /\ after.turns = c.turns
      /\ after = [messages |-> after.messages, open |-> after.open, turns |-> after.turns]
  BY <1>1
<1> HIDE DEF after
<1>3. ChatTyped(after)
  BY <1>2 DEF ChatSound, ChatTyped
<1>4. OpenTurn(after)
  BY <1>2 DEF ChatSound, OpenTurn
<1>5. Resting(after)
  BY <1>2 DEF ChatSound, Resting
<1>6. QED
  BY <1>2, <1>3, <1>4, <1>5 DEF ChatSound, after

\* A text for the assistant's message.
LEMMA ShownSound ==
  ASSUME NEW c, ChatSound(c), c.open # NoTurn, NEW pieces
  PROVE  /\ ChatSound(Shown(c, pieces)) /\ Shown(c, pieces).open.turn = c.open.turn
         /\ Shown(c, pieces).open # NoTurn
<1> DEFINE after == Shown(c, pieces)
<1>0. c.open.turn # 0 /\ NoTurn.turn = 0
  BY DEF ChatSound, ChatTyped, OpenTurn, NoTurn
<1>1. CASE pieces = <<>>
  BY <1>0, <1>1 DEF Shown
<1>2. CASE pieces # <<>> /\ c.open.answer # 0
  <2>1. PICK k : k = c.open.answer
    OBVIOUS
  <2>2. k \in DOMAIN c.messages
    BY <1>2, <2>1 DEF ChatSound, ChatTyped
  <2>3. PICK m : m = c.messages[k]
    OBVIOUS
  <2>4. IsMessage(m)
    BY <2>2, <2>3 DEF ChatSound, ChatTyped
  <2>10. PICK text : text = m.text \o pieces
    OBVIOUS
  <2>5. PICK x : x = [m EXCEPT !.text = text]
    OBVIOUS
  <2>6. IsMessage(x) /\ x.turn = m.turn /\ x.kind = m.kind /\ x.card = m.card /\ x.state = m.state
    BY <2>4, <2>5, TextChanged
  <2>7. after = [c EXCEPT !.messages[k] = x]
    BY <1>2, <2>1, <2>3, <2>5, <2>10 DEF Shown
  <2>8. x.turn # c.open.turn => AtRest(x)
    BY <2>2, <2>3, <2>6 DEF ChatSound, Resting, AtRest
  <2>9. ChatSound(after) /\ after.open = c.open
    BY <2>2, <2>3, <2>6, <2>7, <2>8, ChangedSound
  <2>11. QED
    BY <1>0, <2>9
<1>3. CASE pieces # <<>> /\ c.open.answer = 0
  <2> DEFINE m == [Message("assistant", c.open.turn) EXCEPT !.text = pieces]
             pushed == Push(c, m)
             o == [c.open EXCEPT !.answer = Len(c.messages) + 1]
  <2>1. m.kind = "assistant" /\ m.turn = c.open.turn /\ m.state = "none" /\ IsMessage(m)
    <3>1. IsMessage(Message("assistant", c.open.turn))
      BY NewCard
    <3>2. Message("assistant", c.open.turn).kind = "assistant" /\ Message("assistant", c.open.turn).turn = c.open.turn
          /\ Message("assistant", c.open.turn).state = "none"
      BY DEF Message
    <3>3. QED
      BY <3>1, <3>2, TextChanged
  <2> HIDE DEF m
  <2>2. m.turn \in 1..c.turns
    BY <1>0, <2>1 DEF ChatSound, ChatTyped, OpenTurn
  <2>3. ChatSound(pushed)
    BY <2>1, <2>2, PushSound
  <2>4. pushed.open = c.open /\ Len(c.messages) \in Nat /\ DOMAIN pushed.messages = 1..Len(c.messages) + 1
    BY <2>1, PushTyped DEF ChatSound
  <2> HIDE DEF pushed
  <2>5. o = [turn |-> c.open.turn, role |-> c.open.role, card |-> c.open.card, answer |-> Len(c.messages) + 1,
             streamed |-> c.open.streamed]
    BY DEF ChatSound, ChatTyped, IsOpen
  <2>6. IsOpen(o) /\ o.turn = pushed.open.turn /\ o.card = pushed.open.card /\ o.answer \in Nat
        /\ o.answer \in DOMAIN pushed.messages
    <3> HIDE DEF o
    <3>1. QED BY <2>4, <2>5 DEF IsOpen
  <2>7. after = [pushed EXCEPT !.open = o]
    BY <1>3, <2>4 DEF Shown, pushed, m
  <2> HIDE DEF o, after
  <2>8. ChatSound(after) /\ after.open = o
    BY <1>0, <2>3, <2>4, <2>6, <2>7, OpenSound
  <2>9. QED
    BY <1>0, <2>4, <2>6, <2>8 DEF after
<1>4. QED
  BY <1>1, <1>2, <1>3

LEMMA StreamedSound ==
  ASSUME NEW c, ChatSound(c), c.open # NoTurn, NEW piece
  PROVE  ChatSound(Streamed(c, piece))
<1>1. PICK s : s = Shown(c, <<piece>>)
  OBVIOUS
<1>2. ChatSound(s) /\ s.open # NoTurn
  BY <1>1, ShownSound
<1>3. PICK p : p = s.open
  OBVIOUS
<1>4. PICK streamed : streamed = Append(p.streamed, piece)
  OBVIOUS
<1>5. PICK o : o = [p EXCEPT !.streamed = streamed]
  OBVIOUS
<1>6. Streamed(c, piece) = [s EXCEPT !.open = o]
  BY <1>1, <1>3, <1>4, <1>5 DEF Streamed
<1>7. IsOpen(p) /\ p.answer \in Nat /\ (p.answer # 0 => p.answer \in DOMAIN s.messages)
  BY <1>2, <1>3 DEF ChatSound, ChatTyped
<1>8. o = [turn |-> p.turn, role |-> p.role, card |-> p.card, answer |-> p.answer, streamed |-> streamed]
  BY <1>5, <1>7 DEF IsOpen
<1>9. IsOpen(o) /\ o.turn = p.turn /\ o.card = p.card /\ o.answer = p.answer
  BY <1>8 DEF IsOpen
<1>10. QED
  BY <1>2, <1>3, <1>6, <1>7, <1>9, OpenSound

LEMMA AskedSound ==
  ASSUME NEW c, ChatSound(c), c.open # NoTurn, NEW state
  PROVE  ChatSound(Asked(c, state))
<1> DEFINE m == [Message("question", c.open.turn) EXCEPT !.state = state]
           pushed == Push(c, m)
           o == [c.open EXCEPT !.answer = 0]
<1>1. m.kind = "question" /\ m.turn = c.open.turn /\ IsMessage(m)
  <2>1. IsMessage(Message("question", c.open.turn))
    BY NewCard
  <2>2. Message("question", c.open.turn).kind = "question" /\ Message("question", c.open.turn).turn = c.open.turn
    BY DEF Message
  <2>3. QED
    BY <2>1, <2>2, StateChanged
<1> HIDE DEF m
<1>2. m.turn \in 1..c.turns
  BY <1>1 DEF ChatSound, ChatTyped, OpenTurn
<1>3. ChatSound(pushed)
  BY <1>1, <1>2, PushSound
<1>4. pushed.open = c.open
  BY <1>1, PushTyped DEF ChatSound
<1> HIDE DEF pushed
<1>5. o = [turn |-> c.open.turn, role |-> c.open.role, card |-> c.open.card, answer |-> 0,
           streamed |-> c.open.streamed]
  BY DEF ChatSound, ChatTyped, IsOpen
<1>6. Asked(c, state) = [pushed EXCEPT !.open = o]
  BY <1>4 DEF Asked, pushed, m
<1> HIDE DEF o
<1>7. IsOpen(o) /\ o.turn = pushed.open.turn /\ o.card = pushed.open.card /\ o.answer = 0
  BY <1>4, <1>5 DEF IsOpen
<1>8. QED
  BY <1>3, <1>4, <1>6, <1>7, OpenSound

LEMMA ResultedSound ==
  ASSUME NEW c, ChatSound(c), c.open # NoTurn, NEW text
  PROVE  ChatSound(Resulted(c, text))
BY ShownSound DEF Resulted

LEMMA Remodelled ==
  ASSUME NEW m, NEW o, NEW t, NEW c, c = [messages |-> m, open |-> o, turns |-> t], NEW x, NEW y,
         NEW after, after = [c EXCEPT !.open = x, !.messages = y]
  PROVE  after = [messages |-> y, open |-> x, turns |-> t]
<1>1. PICK d : d = [c EXCEPT !.open = x]
  OBVIOUS
<1>2. d = [messages |-> m, open |-> x, turns |-> t]
  BY <1>1
<1>3. after = [d EXCEPT !.messages = y]
  BY <1>1
<1>4. QED
  BY <1>2, <1>3

LEMMA Reopened ==
  ASSUME NEW m, NEW o, NEW t, NEW c, c = [messages |-> m, open |-> o, turns |-> t], NEW x, NEW z,
         NEW after, after = [c EXCEPT !.turns = z, !.open = x]
  PROVE  after = [messages |-> m, open |-> x, turns |-> z]
<1>1. PICK d : d = [c EXCEPT !.turns = z]
  OBVIOUS
<1>2. d = [messages |-> m, open |-> o, turns |-> z]
  BY <1>1
<1>3. after = [d EXCEPT !.open = x]
  BY <1>1
<1>4. QED
  BY <1>2, <1>3

LEMMA NewlyOpen ==
  ASSUME NEW t, NEW r, NEW n, NEW open, open = [NoTurn EXCEPT !.turn = t, !.role = r, !.card = n]
  PROVE  open = [turn |-> t, role |-> r, card |-> n, answer |-> 0, streamed |-> <<>>]
<1>1. PICK e : e = <<>>
  OBVIOUS
<1>2. NoTurn = [turn |-> 0, role |-> "none", card |-> 0, answer |-> 0, streamed |-> e]
  BY <1>1 DEF NoTurn
<1>3. PICK a : a = [NoTurn EXCEPT !.turn = t]
  OBVIOUS
<1>4. a = [turn |-> t, role |-> "none", card |-> 0, answer |-> 0, streamed |-> e]
  BY <1>2, <1>3
<1>5. PICK b : b = [a EXCEPT !.role = r]
  OBVIOUS
<1>6. b = [turn |-> t, role |-> r, card |-> 0, answer |-> 0, streamed |-> e]
  BY <1>4, <1>5
<1>7. [b EXCEPT !.card = n] = [turn |-> t, role |-> r, card |-> n, answer |-> 0, streamed |-> e]
  BY <1>6
<1>8. open = [b EXCEPT !.card = n]
  BY <1>3, <1>5
<1>9. QED
  BY <1>1, <1>7, <1>8

\* The end of a turn: its card rests, and what waited for an answer expired.
Rested(c, status) ==
  LET rests == OnCard(c, LAMBDA card : WithStatus(card, status))
  IN [rests EXCEPT !.open = NoTurn,
        !.messages = [m \in DOMAIN @ |-> IF @[m].state = "asked" THEN [@[m] EXCEPT !.state = "expired"] ELSE @[m]]]

LEMMA EndedSound ==
  ASSUME NEW c, ChatSound(c), c.open # NoTurn, NEW status \in {"completed", "failed", "interrupted"}
  PROVE  ChatSound(Rested(c, status)) /\ ChatSound(Ended(c, status))
<1>1. PICK k : k = c.open.card
  OBVIOUS
<1>2. PICK card : card = WithStatus(c.messages[k].card, status)
  OBVIOUS
<1>3. /\ IsCard(card) /\ card.status # "working"
      /\ \A i \in DOMAIN card.tools : card.tools[i].status # "running"
  <2>1. k \in DOMAIN c.messages
    BY <1>1 DEF ChatSound, OpenTurn
  <2>2. IsCard(c.messages[k].card)
    BY <2>1 DEF ChatSound, ChatTyped, IsMessage
  <2>3. QED
    BY <1>2, <2>2, StatusRests
<1>4. PICK rests : rests = [c EXCEPT !.messages[k].card = card]
  OBVIOUS
<1>5. /\ ChatSound(rests) /\ rests.open = c.open /\ rests.turns = c.turns
      /\ rests.messages[k].card = card
  BY <1>1, <1>3, <1>4, CardSound
<1>6. OnCard(c, LAMBDA x : WithStatus(x, status)) = rests
  BY <1>1, <1>2, <1>4 DEF OnCard
<1> DEFINE msgs == [m \in DOMAIN rests.messages |->
                      IF rests.messages[m].state = "asked"
                        THEN [rests.messages[m] EXCEPT !.state = "expired"] ELSE rests.messages[m]]
           done == [messages |-> msgs, open |-> NoTurn, turns |-> c.turns]
<1>7. [rests EXCEPT !.open = NoTurn, !.messages = msgs] = done
  <2>1. PICK m, o, t : m = rests.messages /\ o = rests.open /\ t = rests.turns
    OBVIOUS
  <2>2. rests = [messages |-> m, open |-> o, turns |-> t]
    BY <1>5, <2>1 DEF ChatSound, ChatTyped
  <2> HIDE DEF msgs
  <2>3. PICK after : after = [rests EXCEPT !.open = NoTurn, !.messages = msgs]
    OBVIOUS
  <2>4. after = [messages |-> msgs, open |-> NoTurn, turns |-> t]
    BY <2>2, <2>3, Remodelled
  <2>5. QED
    BY <1>5, <2>1, <2>3, <2>4
<1>8. IsList(msgs) /\ DOMAIN msgs = DOMAIN rests.messages
  BY <1>5, Remade DEF ChatSound, ChatTyped
<1>9. ASSUME NEW m \in DOMAIN rests.messages
      PROVE  IsMessage(msgs[m]) /\ msgs[m].turn = rests.messages[m].turn /\ AtRest(msgs[m])
  <2>1. PICK x : x = rests.messages[m]
    OBVIOUS
  <2>2. IsMessage(x)
    BY <1>5, <2>1 DEF ChatSound, ChatTyped
  <2>3. x.turn = c.open.turn /\ x.kind = "card" => m = k /\ x.card = card
    BY <1>1, <1>5, <2>1 DEF ChatSound, Resting
  <2>4. x.kind = "card" => x.card.status # "working" /\ \A i \in DOMAIN x.card.tools : x.card.tools[i].status # "running"
    <3>1. CASE x.turn = c.open.turn
      BY <1>3, <2>3, <3>1
    <3>2. CASE x.turn # c.open.turn
      BY <1>5, <2>1, <3>2 DEF ChatSound, Resting, AtRest
    <3>3. QED
      BY <3>1, <3>2
  <2>5. CASE x.state = "asked"
    <3>1. PICK y : y = [x EXCEPT !.state = "expired"]
      OBVIOUS
    <3>2. IsMessage(y) /\ y.kind = x.kind /\ y.turn = x.turn /\ y.card = x.card /\ y.state = "expired"
      BY <2>2, <3>1, StateChanged
    <3>3. msgs[m] = y
      BY <2>1, <2>5, <3>1
    <3> HIDE DEF msgs
    <3>4. QED
      BY <2>1, <2>4, <3>2, <3>3 DEF AtRest
  <2>6. CASE x.state # "asked"
    <3>1. msgs[m] = x
      BY <2>1, <2>6
    <3> HIDE DEF msgs
    <3>2. QED
      BY <2>1, <2>2, <2>4, <2>6, <3>1 DEF AtRest
  <2>7. QED
    BY <2>5, <2>6
<1>10. NoTurn.turn = 0 /\ NoTurn.card = 0 /\ NoTurn.answer = 0 /\ IsOpen(NoTurn)
  BY DEF NoTurn, IsOpen
<1>11. ChatSound(done)
  <2>1. done.messages = msgs /\ done.open = NoTurn /\ done.turns = c.turns
        /\ done = [messages |-> done.messages, open |-> done.open, turns |-> done.turns]
    OBVIOUS
  <2> HIDE DEF done, msgs
  <2>2. c.turns \in Nat
    BY DEF ChatSound, ChatTyped
  <2>3. ChatTyped(done)
    BY <1>8, <1>9, <1>10, <2>1, <2>2 DEF ChatTyped
  <2>4. OpenTurn(done)
    BY <2>1 DEF OpenTurn
  <2>5. ASSUME NEW m \in DOMAIN done.messages
        PROVE  done.messages[m].turn \in 1..c.turns /\ done.messages[m].turn # 0 /\ AtRest(done.messages[m])
    BY <1>5, <1>8, <1>9, <2>1, <2>2 DEF ChatSound, Resting
  <2>6. Resting(done)
    BY <1>10, <2>1, <2>5 DEF Resting
  <2>7. QED
    BY <2>3, <2>4, <2>6 DEF ChatSound
<1>12. PICK e : e = Message("error", c.open.turn)
  OBVIOUS
<1>13. IsMessage(e) /\ e.turn = c.open.turn /\ e.kind = "error" /\ e.state = "none"
  BY <1>12, NewCard DEF Message
<1>14. e.turn \in 1..c.turns /\ e.turn # 0
  BY <1>13 DEF ChatSound, ChatTyped, OpenTurn
<1>15. ChatSound(Push(done, e))
  <2>1. done.open.turn = 0 /\ done.turns = c.turns
    BY <1>10
  <2> HIDE DEF done
  <2>2. AtRest(e)
    BY <1>13 DEF AtRest
  <2>3. QED
    BY <1>11, <1>13, <1>14, <2>1, <2>2, PushSound
<1>16. Ended(c, status) = IF status = "failed" THEN Push(done, e) ELSE done
  BY <1>6, <1>7, <1>12 DEF Ended
<1>17. Rested(c, status) = done
  BY <1>6, <1>7 DEF Rested
<1>18. QED
  BY <1>11, <1>15, <1>16, <1>17

\* A turn begins: the question of the user, its card, and no other turn open.
NewlyBegun(c, d, n) ==
  /\ n = Len(c.messages) /\ n \in Nat /\ DOMAIN c.messages = 1..n /\ DOMAIN d.messages = 1..n + 2
  /\ d.messages = Append(Append(c.messages, Message("user", c.turns + 1)), Message("card", c.turns + 1))
  /\ d.messages[n + 1] = Message("user", c.turns + 1) /\ d.messages[n + 2] = Message("card", c.turns + 1)
  /\ \A i \in 1..n : d.messages[i] = c.messages[i]
  /\ d.turns = c.turns + 1 /\ d.open.turn = c.turns + 1 /\ d.open.card = n + 2
  /\ d.open.answer = 0 /\ d.open.streamed = <<>>

LEMMA BegunSound ==
  ASSUME NEW c, ChatSound(c), c.open = NoTurn, NEW role
  PROVE  /\ ChatSound(Begun(c, role)) /\ DOMAIN c.messages \subseteq DOMAIN Begun(c, role).messages
         /\ \E n : NewlyBegun(c, Begun(c, role), n)
<1>1. PICK u : u = Message("user", c.turns + 1)
  OBVIOUS
<1>2. PICK d : d = Message("card", c.turns + 1)
  OBVIOUS
<1>3. /\ IsMessage(u) /\ u.turn = c.turns + 1 /\ u.kind = "user"
      /\ IsMessage(d) /\ d.turn = c.turns + 1
  BY <1>1, <1>2, NewCard DEF Message
<1>4. PICK n : n = Len(c.messages)
  OBVIOUS
<1>5. PICK a : a = Push(c, u)
  OBVIOUS
<1>6. /\ ChatTyped(a) /\ a.open = c.open /\ a.turns = c.turns /\ n \in Nat
      /\ DOMAIN c.messages = 1..n /\ DOMAIN a.messages = 1..n + 1 /\ a.messages[n + 1] = u
      /\ \A i \in 1..n : a.messages[i] = c.messages[i]
  BY <1>3, <1>4, <1>5, PushTyped DEF ChatSound
<1>7. Len(a.messages) = n + 1
  BY <1>3, <1>6, PushTyped
<1>8. PICK b : b = Push(a, d)
  OBVIOUS
<1>9. /\ ChatTyped(b) /\ b.open = c.open /\ b.turns = c.turns
      /\ DOMAIN b.messages = 1..n + 2 /\ b.messages[n + 2] = d /\ b.messages[n + 1] = u
      /\ \A i \in 1..n : b.messages[i] = c.messages[i]
  <2>1. /\ ChatTyped(b) /\ b.open = a.open /\ b.turns = a.turns
        /\ DOMAIN b.messages = 1..(n + 1) + 1 /\ b.messages[(n + 1) + 1] = d
        /\ \A i \in 1..(n + 1) : b.messages[i] = a.messages[i]
    <3>1. PICK k : k = Len(a.messages)
      OBVIOUS
    <3>2. /\ ChatTyped(b) /\ b.open = a.open /\ b.turns = a.turns
          /\ DOMAIN b.messages = 1..k + 1 /\ b.messages[k + 1] = d
          /\ \A i \in 1..k : b.messages[i] = a.messages[i]
      BY <1>3, <1>6, <1>8, <3>1, PushTyped
    <3>3. QED
      BY <1>7, <3>1, <3>2
  <2>2. (n + 1) + 1 = n + 2 /\ n + 1 \in 1..(n + 1) /\ 1..n \subseteq 1..(n + 1)
    BY <1>6
  <2>3. QED
    BY <1>6, <2>1, <2>2
<1> DEFINE o == [turn |-> c.turns + 1, role |-> role, card |-> n + 2, answer |-> 0, streamed |-> <<>>]
           after == [messages |-> b.messages, open |-> o, turns |-> c.turns + 1]
<1>10. Begun(c, role) = after
  <2>1. PICK m, q, t : m = b.messages /\ q = b.open /\ t = b.turns
    OBVIOUS
  <2>2. b = [messages |-> m, open |-> q, turns |-> t]
    BY <1>9, <2>1 DEF ChatTyped
  <2>3. o = [NoTurn EXCEPT !.turn = c.turns + 1, !.role = role, !.card = n + 2]
    <3>1. PICK x, y : x = c.turns + 1 /\ y = n + 2
      OBVIOUS
    <3>2. PICK open : open = [NoTurn EXCEPT !.turn = x, !.role = role, !.card = y]
      OBVIOUS
    <3>3. open = [turn |-> x, role |-> role, card |-> y, answer |-> 0, streamed |-> <<>>]
      BY <3>2, NewlyOpen
    <3>4. QED
      BY <3>1, <3>2, <3>3
  <2> HIDE DEF o
  <2>4. Begun(c, role) = [b EXCEPT !.turns = b.turns + 1, !.open = o]
    BY <1>1, <1>2, <1>4, <1>5, <1>8, <2>3 DEF Begun
  <2>5. Begun(c, role) = [messages |-> m, open |-> o, turns |-> b.turns + 1]
    <3>1. PICK z : z = b.turns + 1
      OBVIOUS
    <3>2. PICK begun : begun = [b EXCEPT !.turns = z, !.open = o]
      OBVIOUS
    <3>3. begun = [messages |-> m, open |-> o, turns |-> z]
      BY <2>2, <3>2, Reopened
    <3>4. QED
      BY <2>4, <3>1, <3>2, <3>3
  <2>6. QED
    BY <1>9, <2>1, <2>5
<1>11. /\ after.messages = b.messages /\ after.open = o /\ after.turns = c.turns + 1
       /\ after = [messages |-> after.messages, open |-> after.open, turns |-> after.turns]
       /\ o.turn = c.turns + 1 /\ o.card = n + 2 /\ o.answer = 0 /\ o.streamed = <<>> /\ IsOpen(o)
  BY DEF IsOpen
<1> HIDE DEF after, o
<1>12. c.turns \in Nat
  BY DEF ChatSound, ChatTyped
<1>13. ChatTyped(after)
  <2>1. o.turn \in Nat /\ o.card \in Nat /\ o.answer \in Nat /\ after.turns \in Nat
    BY <1>6, <1>11, <1>12
  <2>2. IsList(b.messages) /\ \A m \in DOMAIN b.messages : IsMessage(b.messages[m])
    BY <1>9 DEF ChatTyped
  <2>3. QED
    BY <1>11, <2>1, <2>2 DEF ChatTyped
<1>14. OpenTurn(after)
  BY <1>3, <1>6, <1>9, <1>11, <1>12 DEF OpenTurn
<1>15. Resting(after)
  <2> SUFFICES ASSUME NEW i \in DOMAIN after.messages
               PROVE  /\ after.messages[i].turn \in 1..after.turns
                      /\ after.messages[i].turn # after.open.turn => AtRest(after.messages[i])
                      /\ after.messages[i].turn = after.open.turn /\ after.messages[i].kind = "card"
                           => i = after.open.card
    BY DEF Resting
  <2>1. i \in 1..n \/ i = n + 1 \/ i = n + 2
    <3>1. i \in 1..n + 2 /\ n \in Nat
      BY <1>6, <1>9, <1>11
    <3>2. QED
      BY <3>1
  <2>2. CASE i \in 1..n
    <3>1. /\ after.messages[i] = c.messages[i] /\ c.messages[i].turn \in 1..c.turns
          /\ AtRest(c.messages[i])
      BY <1>6, <1>9, <1>11, <1>12, <2>2 DEF ChatSound, Resting, NoTurn
    <3>2. QED
      BY <1>11, <1>12, <3>1
  <2>3. CASE i = n + 1 \/ i = n + 2
    BY <1>3, <1>9, <1>11, <1>12, <2>3
  <2>4. QED
    BY <2>1, <2>2, <2>3
<1>16. DOMAIN c.messages \subseteq DOMAIN after.messages
  BY <1>6, <1>9, <1>11
<1>17. NewlyBegun(c, after, n)
  <2>1. b.messages = Append(a.messages, d) /\ a.messages = Append(c.messages, u)
    BY <1>5, <1>6, <1>8 DEF Push, ChatSound, ChatTyped
  <2>2. QED
    BY <1>1, <1>2, <1>4, <1>6, <1>9, <1>11, <2>1 DEF NewlyBegun
<1>18. QED
  BY <1>10, <1>13, <1>14, <1>15, <1>16, <1>17 DEF ChatSound

LEMMA ChatStep ==
  ASSUME ChatSound(chat), [ChatNext]_chatVars
  PROVE  ChatSound(chat')
<1> USE DEF Grows, InOpenTurn, ModelAtWork
<1>1. CASE TurnBegins
  <2>1. PICK role \in {"canvas", "project"} :
          \/ chat' = Begun(chat, role)
          \/ \E m \in DOMAIN chat.messages : chat' = Replied(Begun(chat, role), m)
    BY <1>1 DEF TurnBegins
  <2>2. ChatSound(Begun(chat, role)) /\ DOMAIN chat.messages \subseteq DOMAIN Begun(chat, role).messages
    BY <1>1, BegunSound DEF TurnBegins
  <2>3. QED
    BY <2>1, <2>2, RepliedSound
<1>2. CASE Thinks
  <2>1. PICK kind \in {"thinking", "commentary"}, source \in Sources :
          chat' = OnCard(chat, LAMBDA card : WithText(card, kind, source, length))
    BY <1>2 DEF Thinks
  <2>2. PICK card : card = WithText(chat.messages[chat.open.card].card, kind, source, length)
    OBVIOUS
  <2>3. IsCard(chat.messages[chat.open.card].card) /\ chat.open # NoTurn
    BY <1>2 DEF Thinks, ChatSound, ChatTyped, OpenTurn, IsMessage
  <2>4. chat' = [chat EXCEPT !.messages[chat.open.card].card = card]
    BY <2>1, <2>2 DEF OnCard
  <2>5. IsCard(card)
    BY <2>2, <2>3, WithTextTyped
  <2>6. QED
    BY <2>3, <2>4, <2>5, CardSound
<1>3. CASE UsesTool
  <2>1. PICK tool \in Tools, status \in {"running", "completed"} :
          chat' = OnCard(chat, LAMBDA card : WithTool(card, tool, status))
    BY <1>3 DEF UsesTool
  <2>2. PICK card : card = WithTool(chat.messages[chat.open.card].card, tool, status)
    OBVIOUS
  <2>3. IsCard(chat.messages[chat.open.card].card) /\ chat.open # NoTurn
    BY <1>3 DEF UsesTool, ChatSound, ChatTyped, OpenTurn, IsMessage
  <2>4. chat' = [chat EXCEPT !.messages[chat.open.card].card = card]
    BY <2>1, <2>2 DEF OnCard
  <2>5. IsCard(card)
    BY <2>2, <2>3, WithToolTyped
  <2>6. QED
    BY <2>3, <2>4, <2>5, CardSound
<1>4. CASE Speaks
  BY <1>4, StreamedSound DEF Speaks
<1>5. CASE AsksUser
  BY <1>5, AskedSound DEF AsksUser
<1>6. CASE UserAnswers
  BY <1>6, RepliedSound DEF UserAnswers
<1>7. CASE ResultArrives
  BY <1>7, ResultedSound DEF ResultArrives
<1>8. CASE TurnFinishes
  BY <1>8, EndedSound DEF TurnFinishes
<1>9. CASE UNCHANGED chatVars
  BY <1>9 DEF chatVars
<1>10. QED
  BY <1>1, <1>2, <1>3, <1>4, <1>5, <1>6, <1>7, <1>8, <1>9 DEF ChatNext

\* A turn that ended shows nothing at work, for any journal the native side writes: the card
\* of the turn that ends is the only one that can be at work (projectSession).
THEOREM EndedTurnsAlwaysRest == ChatSpec => []EndedTurnsRest
<1>1. ChatInit => ChatSound(chat)
  <2> SUFFICES ASSUME ChatInit PROVE ChatSound(chat)
    OBVIOUS
  <2>1. chat = [messages |-> <<>>, open |-> NoTurn, turns |-> 0] /\ <<>> \in Seq({})
    BY DEF ChatInit
  <2>2. QED
    BY <2>1 DEF ChatSound, ChatTyped, OpenTurn, Resting, IsList, IsOpen, NoTurn
<1>2. ChatSound(chat) /\ [ChatNext]_chatVars => ChatSound(chat)'
  BY ChatStep
<1>3. ChatSound(chat) => EndedTurnsRest
  BY DEF ChatSound, Resting, AtRest, EndedTurnsRest
<1>4. QED
  BY <1>1, <1>2, <1>3, PTL DEF ChatSpec
-----------------------------------------------------------------------------
(* Texts, and what a list of them says.                                    *)

Spoken == Seq(Nat)

\* f says what the first n texts of a list say together.
Says(f, list, n) == f \in [0..n -> Spoken] /\ f[0] = <<>> /\ \A i \in 1..n : f[i] = f[i - 1] \o list[i]

LEMMA SpokenJoin ==
  /\ <<>> \in Spoken
  /\ \A s, t \in Spoken : s \o t \in Spoken
  /\ \A s \in Spoken : s \o <<>> = s /\ <<>> \o s = s
  /\ \A s, t, u \in Spoken : (s \o t) \o u = s \o (t \o u)
<1>1. \A s, t \in Spoken : s \o t \in Spoken
  BY ConcatProperties DEF Spoken
<1>2. \A s \in Spoken : s \o <<>> = s /\ <<>> \o s = s
  BY ConcatEmptySeq DEF Spoken
<1>3. \A s, t, u \in Spoken : (s \o t) \o u = s \o (t \o u)
  BY ConcatAssociative DEF Spoken
<1>4. <<>> \in Spoken
  BY DEF Spoken
<1>5. QED
  BY <1>1, <1>2, <1>3, <1>4

\* What is said of one text more.
LEMMA SaysNext ==
  ASSUME NEW list, NEW m \in Nat, NEW f, Says(f, list, m), list[m + 1] \in Spoken,
         NEW g, g = [i \in 0..m + 1 |-> IF i = m + 1 THEN f[m] \o list[m + 1] ELSE f[i]]
  PROVE  Says(g, list, m + 1)
<1>1. f \in [0..m -> Spoken] /\ f[0] = <<>> /\ \A i \in 1..m : f[i] = f[i - 1] \o list[i]
  BY DEF Says
<1>0. 0 \in 0..m /\ m \in 0..m /\ 0 # m + 1
  OBVIOUS
<1>2. \A i \in 0..m : g[i] = f[i]
  OBVIOUS
<1>3. g[m + 1] = f[m] \o list[m + 1] /\ f[m] \o list[m + 1] \in Spoken
  BY <1>0, <1>1, SpokenJoin
<1>4. g \in [0..m + 1 -> Spoken]
  BY <1>1, <1>3
<1>5. ASSUME NEW i \in 1..m + 1 PROVE g[i] = g[i - 1] \o list[i]
  <2>1. i - 1 \in 0..m /\ g[i - 1] = f[i - 1]
    BY <1>2
  <2>2. CASE i = m + 1
    BY <1>3, <2>1, <2>2
  <2>3. CASE i # m + 1
    <3>1. i \in 1..m /\ i \in 0..m
      BY <2>3
    <3>2. QED
      BY <1>1, <1>2, <2>1, <3>1
  <2>4. QED
    BY <2>2, <2>3
<1>6. QED
  BY <1>0, <1>1, <1>2, <1>4, <1>5 DEF Says

\* A list of texts says something: there is no least number of texts that do not.
LEMMA SomethingSaid ==
  ASSUME NEW list \in Seq(Spoken)
  PROVE  \E f : Says(f, list, Len(list))
<1>1. PICK n \in Nat : n = Len(list)
  OBVIOUS
<1> DEFINE mute == {m \in 0..n : ~ \E f : Says(f, list, m)}
<1>2. mute = {}
  <2>1. SUFFICES ASSUME mute # {} PROVE FALSE
    OBVIOUS
  <2>2. PICK m \in mute : \A k \in mute : m <= k
    <3>1. mute \in SUBSET Nat
      OBVIOUS
    <3>2. QED
      BY <2>1, <3>1, LeastOf
  <2>3. m # 0
    <3>1. SUFFICES ASSUME m = 0 PROVE FALSE
      OBVIOUS
    <3>2. PICK f : f = [i \in 0..0 |-> <<>>]
      OBVIOUS
    <3>3. f \in [0..0 -> Spoken] /\ f[0] = <<>> /\ 1..0 = {}
      BY <3>2, SpokenJoin
    <3>4. Says(f, list, 0)
      BY <3>3 DEF Says
    <3>5. QED
      BY <2>2, <3>1, <3>4
  <2>4. PICK k \in Nat : m = k + 1
    BY <2>2, <2>3
  <2>5. k \in 0..n /\ ~(m <= k) /\ k + 1 \in 1..n
    BY <2>2, <2>4
  <2>6. k \notin mute
    BY <2>2, <2>5
  <2>7. PICK f : Says(f, list, k)
    BY <2>5, <2>6
  <2>8. PICK g : g = [i \in 0..k + 1 |-> IF i = k + 1 THEN f[k] \o list[k + 1] ELSE f[i]]
    OBVIOUS
  <2>9. list[k + 1] \in Spoken
    BY <1>1, <2>5
  <2>10. Says(g, list, k + 1)
    BY <2>7, <2>8, <2>9, SaysNext
  <2>11. QED
    BY <2>2, <2>4, <2>10
<1>3. n \in 0..n
  OBVIOUS
<1>4. QED
  BY <1>1, <1>2, <1>3

\* It says one thing,
LEMMA SaidOnce ==
  ASSUME NEW list \in Seq(Spoken), NEW n \in Nat, NEW f, Says(f, list, n), NEW g, Says(g, list, n)
  PROVE  f[n] = g[n]
<1> DEFINE apart == {m \in 0..n : f[m] # g[m]}
<1>1. apart = {}
  <2>1. SUFFICES ASSUME apart # {} PROVE FALSE
    OBVIOUS
  <2>2. PICK m \in apart : \A k \in apart : m <= k
    <3>1. apart \in SUBSET Nat
      OBVIOUS
    <3>2. QED
      BY <2>1, <3>1, LeastOf
  <2>3. m # 0
    BY <2>2 DEF Says
  <2>4. m \in 1..n /\ m - 1 \in 0..n /\ ~(m <= m - 1)
    BY <2>2, <2>3
  <2>5. f[m - 1] = g[m - 1]
    BY <2>2, <2>4
  <2>6. f[m] = f[m - 1] \o list[m] /\ g[m] = g[m - 1] \o list[m]
    BY <2>4 DEF Says
  <2>7. QED
    BY <2>2, <2>5, <2>6
<1>2. QED
  BY <1>1

\* and that is what FlattenSeq makes of it.
LEMMA SaidIs ==
  ASSUME NEW list \in Seq(Spoken), NEW f, Says(f, list, Len(list))
  PROVE  FlattenSeq(list) = f[Len(list)] /\ FlattenSeq(list) \in Spoken
<1>1. PICK n \in Nat : n = Len(list)
  OBVIOUS
<1>2. f \in [0..n -> Spoken] /\ f[0] = <<>> /\ \A i \in 1..n : f[i] = f[i - 1] \o list[i]
  BY <1>1 DEF Says
<1>3. \A i \in 1..n : list[i] \in Spoken
  BY <1>1
<1>4. CASE n = 0
  <2>1. list = <<>>
    <3>1. Len(list) = 0
      BY <1>1, <1>4
    <3>2. QED
      BY <3>1
  <2>2. FlattenSeq(list) = list
    BY <1>1, <1>4 DEF FlattenSeq
  <2>3. f[n] = <<>>
    BY <1>2, <1>4
  <2>4. QED
    BY <1>1, <2>1, <2>2, <2>3, SpokenJoin
<1>5. CASE n # 0
  <2> DEFINE Joins(x) == x = [i \in 1..n |-> IF i = 1 THEN list[i] ELSE x[i - 1] \o list[i]]
  <2>1. PICK h : h = CHOOSE x : Joins(x)
    OBVIOUS
  <2>2. FlattenSeq(list) = h[n]
    BY <1>1, <1>5, <2>1 DEF FlattenSeq
  <2>3. PICK e : e = [i \in 1..n |-> f[i]]
    OBVIOUS
  <2>4. Joins(e)
    <3>1. ASSUME NEW i \in 1..n PROVE e[i] = IF i = 1 THEN list[i] ELSE e[i - 1] \o list[i]
      <4>1. f[i] = f[i - 1] \o list[i] /\ list[i] \in Spoken
        BY <1>2, <1>3
      <4>2. CASE i = 1
        <5>1. f[i - 1] = <<>>
          BY <1>2, <4>2
        <5>2. QED
          BY <2>3, <4>1, <4>2, <5>1, SpokenJoin
      <4>3. CASE i # 1
        <5>1. i - 1 \in 1..n
          BY <4>3
        <5>2. QED
          BY <2>3, <4>1, <4>3, <5>1
      <4>4. QED
        BY <4>2, <4>3
    <3>2. QED
      BY <2>3, <3>1
  <2>5. Joins(h)
    BY <2>1, <2>4
  <2>6. PICK g : g = [i \in 0..n |-> IF i = 0 THEN <<>> ELSE h[i]]
    OBVIOUS
  <2>7. \A i \in 1..n : h[i] = IF i = 1 THEN list[i] ELSE h[i - 1] \o list[i]
    BY <2>5
  <2> HIDE DEF Joins
  <2>8. Says(g, list, n)
    <3>1. ASSUME NEW i \in 1..n PROVE g[i] = g[i - 1] \o list[i]
      <4>1. CASE i = 1
        <5>1. g[1] = h[1] /\ h[1] = list[1] /\ g[0] = <<>> /\ list[1] \in Spoken
          BY <1>3, <2>6, <2>7, <4>1
        <5>2. <<>> \o list[1] = list[1]
          BY <5>1, SpokenJoin
        <5>3. i - 1 = 0
          BY <4>1
        <5>4. QED
          BY <4>1, <5>1, <5>2, <5>3
      <4>2. CASE i # 1
        <5>1. i - 1 \in 0..n /\ i \in 0..n /\ i - 1 # 0 /\ i # 0
          BY <4>2
        <5>2. QED
          BY <2>6, <2>7, <4>2, <5>1
      <4>3. QED
        BY <4>1, <4>2
    <3>2. g[0] = <<>>
      BY <2>6
    <3>3. \A i \in 0..n : g[i] \in Spoken
      <4> DEFINE odd == {m \in 0..n : g[m] \notin Spoken}
      <4>1. SUFFICES ASSUME odd # {} PROVE FALSE
        OBVIOUS
      <4>2. PICK m \in odd : \A k \in odd : m <= k
        <5>1. odd \in SUBSET Nat
          OBVIOUS
        <5>2. QED
          BY <4>1, <5>1, LeastOf
      <4>3. m # 0
        BY <3>2, <4>2, SpokenJoin
      <4>4. m \in 1..n /\ m - 1 \in 0..n /\ ~(m <= m - 1)
        BY <4>2, <4>3
      <4>5. g[m - 1] \in Spoken
        BY <4>2, <4>4
      <4>6. list[m] \in Spoken /\ g[m] = g[m - 1] \o list[m]
        BY <1>3, <3>1, <4>4
      <4>7. QED
        BY <4>2, <4>5, <4>6, SpokenJoin
    <3>4. g \in [0..n -> Spoken]
      BY <2>6, <3>3
    <3>5. QED
      BY <3>1, <3>2, <3>4 DEF Says
  <2>9. g[n] = f[n]
    BY <1>1, <2>8, SaidOnce
  <2>10. g[n] = h[n] /\ f[n] \in Spoken
    BY <1>2, <1>5, <2>6
  <2>11. QED
    BY <1>1, <2>2, <2>9, <2>10
<1>6. QED
  BY <1>4, <1>5

\* A text more at the end.
LEMMA SaidMore ==
  ASSUME NEW list \in Seq(Spoken), NEW text \in Spoken, NEW more, more = Append(list, text)
  PROVE  more \in Seq(Spoken) /\ FlattenSeq(more) = FlattenSeq(list) \o text
<1>1. PICK n \in Nat : n = Len(list)
  OBVIOUS
<1>2. /\ more \in Seq(Spoken) /\ Len(more) = n + 1 /\ more[n + 1] = text
      /\ \A i \in 1..n : more[i] = list[i]
  BY <1>1
<1>3. PICK f : Says(f, list, n)
  BY <1>1, SomethingSaid
<1>4. Says(f, more, n)
  BY <1>2, <1>3 DEF Says
<1>5. PICK g : g = [i \in 0..n + 1 |-> IF i = n + 1 THEN f[n] \o more[n + 1] ELSE f[i]]
  OBVIOUS
<1>6. Says(g, more, n + 1)
  BY <1>2, <1>4, <1>5, SaysNext
<1>7. FlattenSeq(list) = f[n]
  BY <1>1, <1>3, SaidIs
<1>8. FlattenSeq(more) = g[n + 1]
  BY <1>2, <1>6, SaidIs
<1>9. g[n + 1] = f[n] \o text
  BY <1>2, <1>5
<1>10. QED
  BY <1>2, <1>7, <1>8, <1>9

\* A text that grows, when the texts behind it are empty.
LEMMA SaidLonger ==
  ASSUME NEW list \in Seq(Spoken), NEW k \in 1..Len(list), NEW text \in Spoken,
         \A i \in 1..Len(list) : i > k => list[i] = <<>>,
         NEW longer, longer = [list EXCEPT ![k] = list[k] \o text]
  PROVE  longer \in Seq(Spoken) /\ FlattenSeq(longer) = FlattenSeq(list) \o text
<1>1. PICK n \in Nat : n = Len(list)
  OBVIOUS
<1>2. list \in [1..n -> Spoken] /\ list[k] \in Spoken /\ k \in 1..n
  BY <1>1
<1>3. PICK t : t = list[k] \o text
  OBVIOUS
<1>4. t \in Spoken
  BY <1>2, <1>3, SpokenJoin
<1>5. longer = [list EXCEPT ![k] = t]
  BY <1>3
<1>6. longer \in [1..n -> Spoken] /\ longer[k] = t /\ \A i \in 1..n : i # k => longer[i] = list[i]
  BY <1>2, <1>4, <1>5
<1>7. longer \in Seq(Spoken) /\ Len(longer) = n
  BY <1>6
<1>8. PICK f : Says(f, list, n)
  BY <1>1, SomethingSaid
<1>9. f \in [0..n -> Spoken] /\ f[0] = <<>> /\ \A i \in 1..n : f[i] = f[i - 1] \o list[i]
  BY <1>8 DEF Says
<1>10. PICK g : g = [i \in 0..n |-> IF i < k THEN f[i] ELSE f[i] \o text]
  OBVIOUS
<1>11. g \in [0..n -> Spoken] /\ g[0] = <<>>
  <2>1. \A i \in 0..n : f[i] \in Spoken /\ f[i] \o text \in Spoken
    BY <1>9, SpokenJoin
  <2>2. g \in [0..n -> Spoken]
    BY <1>10, <2>1
  <2>3. 0 \in 0..n /\ 0 < k
    BY <1>2
  <2>4. QED
    BY <1>9, <1>10, <2>2, <2>3
<1>12. ASSUME NEW i \in 1..n PROVE g[i] = g[i - 1] \o longer[i]
  <2>1. i - 1 \in 0..n /\ i \in 0..n /\ i \in Nat /\ k \in Nat
    BY <1>2
  <2>2. CASE i < k
    <3>1. g[i] = f[i] /\ g[i - 1] = f[i - 1] /\ longer[i] = list[i]
      BY <1>6, <1>10, <2>1, <2>2
    <3>2. QED
      BY <1>9, <3>1
  <2>3. CASE i = k
    <3>1. g[i] = f[i] \o text /\ f[i] = f[i - 1] \o list[k]
      <4>1. f[i] = f[i - 1] \o list[i]
        BY <1>9
      <4>2. ~(i < k)
        BY <2>1, <2>3
      <4>3. g[i] = f[i] \o text
        BY <1>10, <2>1, <4>2
      <4>4. QED
        BY <2>3, <4>1, <4>3
    <3>2. g[i - 1] = f[i - 1] /\ f[i - 1] \in Spoken
      BY <1>9, <1>10, <2>1, <2>3
    <3>3. (f[i - 1] \o list[k]) \o text = f[i - 1] \o (list[k] \o text)
      BY <1>2, <3>2, SpokenJoin
    <3>4. longer[i] = list[k] \o text
      BY <1>3, <1>6, <2>3
    <3>5. QED
      BY <3>1, <3>2, <3>3, <3>4
  <2>4. CASE i > k
    <3>1. list[i] = <<>> /\ longer[i] = <<>>
      BY <1>1, <1>6, <2>1, <2>4
    <3>2. f[i - 1] \in Spoken /\ f[i] = f[i - 1] \o <<>>
      BY <1>9, <2>1, <3>1
    <3>3. f[i] = f[i - 1]
      BY <3>2, SpokenJoin
    <3>4. g[i] = f[i] \o text /\ g[i - 1] = f[i - 1] \o text
      <4>1. i \in 0..n /\ ~(i < k)
        BY <2>1, <2>4
      <4>2. i - 1 \in 0..n /\ ~(i - 1 < k)
        BY <2>1, <2>4
      <4>3. g[i] = f[i] \o text
        BY <1>10, <4>1
      <4>4. g[i - 1] = f[i - 1] \o text
        BY <1>10, <4>2
      <4>5. QED
        BY <4>3, <4>4
    <3>5. g[i - 1] \o <<>> = g[i - 1]
      BY <1>11, <2>1, SpokenJoin
    <3>6. QED
      BY <3>1, <3>3, <3>4, <3>5
  <2>5. QED
    <3>1. i < k \/ i = k \/ i > k
      BY <2>1
    <3>2. QED
      BY <2>2, <2>3, <2>4, <3>1
<1>13. Says(g, longer, n)
  BY <1>11, <1>12 DEF Says
<1>14. FlattenSeq(list) = f[n]
  BY <1>1, <1>8, SaidIs
<1>15. FlattenSeq(longer) = g[n]
  BY <1>7, <1>13, SaidIs
<1>16. g[n] = f[n] \o text
  BY <1>2, <1>10
<1>17. QED
  BY <1>7, <1>14, <1>15, <1>16

\* Empty texts say nothing.
LEMMA NothingSaid ==
  ASSUME NEW list \in Seq(Spoken), \A i \in 1..Len(list) : list[i] = <<>>
  PROVE  FlattenSeq(list) = <<>>
<1>1. PICK n \in Nat : n = Len(list)
  OBVIOUS
<1>2. PICK f : f = [i \in 0..n |-> <<>>]
  OBVIOUS
<1>3. <<>> \o <<>> = <<>>
  BY SpokenJoin
<1>4. Says(f, list, n)
  <2>1. f \in [0..n -> Spoken] /\ f[0] = <<>>
    BY <1>2, SpokenJoin
  <2>2. ASSUME NEW i \in 1..n PROVE f[i] = f[i - 1] \o list[i]
    <3>1. f[i] = <<>> /\ f[i - 1] = <<>> /\ list[i] = <<>>
      BY <1>1, <1>2
    <3>2. QED
      BY <1>3, <3>1
  <2>3. QED
    BY <2>1, <2>2 DEF Says
<1>5. FlattenSeq(list) = f[n]
  BY <1>1, <1>4, SaidIs
<1>6. QED
  BY <1>2, <1>5

-----------------------------------------------------------------------------
(* The rows of a card say what its timeline says.                          *)

IsLine(e) == e.kind \in {"tool", "thinking", "commentary"}

\* Each segment of a timeline has a text of its own.
Key(card, i) == <<card.timeline[i].kind, card.timeline[i].id>>
Texted(card) ==
  /\ IsList(card.timeline)
  /\ \A i \in DOMAIN card.timeline : IsLine(card.timeline[i])
  /\ \A i \in DOMAIN card.timeline : card.timeline[i].kind # "tool" =>
       Key(card, i) \in DOMAIN card.texts /\ card.texts[Key(card, i)] \in Spoken
  /\ \A i, j \in DOMAIN card.timeline :
       card.timeline[i].kind # "tool" /\ card.timeline[j].kind # "tool" /\ i # j => Key(card, i) # Key(card, j)

LineText(card, i) == IF card.timeline[i].kind = "tool" THEN <<>> ELSE card.texts[Key(card, i)]
Lines(card) == [i \in DOMAIN card.timeline |-> LineText(card, i)]

RowText(row) == IF row.kind = "tools" THEN <<>> ELSE row.holds
RowTexts(rows) == [i \in DOMAIN rows |-> RowText(rows[i])]
IsRow(row) == row = [kind |-> row.kind, holds |-> row.holds] /\ (row.kind # "tools" => row.holds \in Spoken)
AreRows(rows) == IsList(rows) /\ \A i \in DOMAIN rows : IsRow(rows[i])

\* Lists of texts.
LEMMA TextList ==
  ASSUME NEW s, IsList(s), NEW t, t = [i \in DOMAIN s |-> t[i]], \A i \in DOMAIN s : t[i] \in Spoken
  PROVE  t \in Seq(Spoken) /\ Len(t) = Len(s) /\ DOMAIN s = 1..Len(s) /\ Len(s) \in Nat
<1>1. DOMAIN s = 1..Len(s) /\ Len(s) \in Nat
  BY DEF IsList
<1>2. t \in [1..Len(s) -> Spoken]
  BY <1>1
<1>3. t \in Seq(Spoken) /\ DOMAIN t = 1..Len(t) /\ Len(t) \in Nat
  BY <1>1, <1>2
<1>4. QED
  BY <1>1, <1>2, <1>3

LEMMA SameTexts ==
  ASSUME NEW s \in Seq(Spoken), NEW t \in Seq(Spoken), Len(s) = Len(t), \A i \in 1..Len(s) : s[i] = t[i]
  PROVE  s = t
<1>1. s = [i \in 1..Len(s) |-> s[i]] /\ t = [i \in 1..Len(t) |-> t[i]]
  OBVIOUS
<1>2. QED
  BY <1>1

LEMMA LinesAreTexts ==
  ASSUME NEW card, Texted(card)
  PROVE  /\ Lines(card) \in Seq(Spoken) /\ Len(Lines(card)) = Len(card.timeline) /\ Len(card.timeline) \in Nat
         /\ DOMAIN card.timeline = 1..Len(card.timeline)
<1>1. \A i \in DOMAIN card.timeline : Lines(card)[i] \in Spoken
  BY SpokenJoin DEF Texted, Lines, LineText
<1>2. Lines(card) = [i \in DOMAIN card.timeline |-> Lines(card)[i]]
  BY DEF Lines
<1>3. QED
  BY <1>1, <1>2, TextList DEF Texted

LEMMA RowsAreTexts ==
  ASSUME NEW rows, AreRows(rows)
  PROVE  /\ RowTexts(rows) \in Seq(Spoken) /\ Len(RowTexts(rows)) = Len(rows) /\ Len(rows) \in Nat
         /\ DOMAIN rows = 1..Len(rows)
<1>1. \A i \in DOMAIN rows : RowTexts(rows)[i] \in Spoken
  BY SpokenJoin DEF AreRows, IsRow, RowTexts, RowText
<1>2. RowTexts(rows) = [i \in DOMAIN rows |-> RowTexts(rows)[i]]
  BY DEF RowTexts
<1>3. QED
  BY <1>1, <1>2, TextList DEF AreRows

\* A row more, and what it says.
LEMMA RowAdded ==
  ASSUME NEW rows, AreRows(rows), NEW row, IsRow(row), NEW more, more = Append(rows, row)
  PROVE  AreRows(more) /\ FlattenSeq(RowTexts(more)) = FlattenSeq(RowTexts(rows)) \o RowText(row)
<1>1. PICK n \in Nat : n = Len(rows)
  BY RowsAreTexts
<1>2. /\ IsList(more) /\ DOMAIN rows = 1..n /\ DOMAIN more = 1..n + 1 /\ more[n + 1] = row
      /\ \A i \in 1..n : more[i] = rows[i]
  BY <1>1, Appended DEF AreRows
<1>3. AreRows(more)
  <2>1. ASSUME NEW i \in 1..n + 1 PROVE IsRow(more[i])
    <3>1. i \in 1..n \/ i = n + 1
      OBVIOUS
    <3>2. QED
      BY <1>2, <3>1 DEF AreRows
  <2>2. QED
    BY <1>2, <2>1 DEF AreRows
<1>4. RowText(row) \in Spoken
  BY SpokenJoin DEF RowText, IsRow
<1>5. PICK said : said = Append(RowTexts(rows), RowText(row))
  OBVIOUS
<1>6. /\ said \in Seq(Spoken) /\ Len(said) = n + 1 /\ said[n + 1] = RowText(row)
      /\ \A i \in 1..n : said[i] = RowTexts(rows)[i]
  BY <1>1, <1>4, <1>5, RowsAreTexts
<1>7. Len(more) = n + 1 /\ RowTexts(more) \in Seq(Spoken) /\ Len(RowTexts(more)) = n + 1
  <2>1. RowTexts(more) \in Seq(Spoken) /\ Len(RowTexts(more)) = Len(more) /\ 1..Len(more) = 1..n + 1 /\ Len(more) \in Nat
    BY <1>2, <1>3, RowsAreTexts
  <2>2. Len(more) = n + 1
    BY <2>1
  <2>3. QED
    BY <2>1, <2>2
<1>8. ASSUME NEW i \in 1..n + 1 PROVE RowTexts(more)[i] = said[i]
  <2>1. RowTexts(more)[i] = RowText(more[i])
    BY <1>2 DEF RowTexts
  <2>2. CASE i = n + 1
    BY <1>2, <1>6, <2>1, <2>2
  <2>3. CASE i # n + 1
    <3>1. i \in 1..n
      BY <2>3
    <3>2. QED
      BY <1>2, <1>6, <2>1, <3>1 DEF RowTexts
  <2>4. QED
    BY <2>2, <2>3
<1>9. RowTexts(more) = said
  BY <1>6, <1>7, <1>8, SameTexts
<1>10. FlattenSeq(said) = FlattenSeq(RowTexts(rows)) \o RowText(row)
  BY <1>4, <1>5, RowsAreTexts, SaidMore
<1>11. QED
  BY <1>3, <1>9, <1>10

\* A tool joins the tools before it: nothing more is said.
LEMMA ToolJoins ==
  ASSUME NEW rows, AreRows(rows), rows # <<>>, rows[Len(rows)].kind = "tools", NEW tool,
         NEW more, more = [rows EXCEPT ![Len(rows)].holds = Append(@, tool)]
  PROVE  AreRows(more) /\ RowTexts(more) = RowTexts(rows)
<1>1. PICK n \in Nat : n = Len(rows)
  BY RowsAreTexts
<1>2. DOMAIN rows = 1..n /\ n \in DOMAIN rows
  <2>1. PICK S : rows \in Seq(S)
    BY DEF AreRows, IsList
  <2>2. n # 0
    BY <1>1, <2>1
  <2>3. QED
    BY <1>1, <2>2, RowsAreTexts
<1>3. PICK row : row = rows[n]
  OBVIOUS
<1>4. PICK holds : holds = Append(row.holds, tool)
  OBVIOUS
<1>5. PICK joined : joined = [row EXCEPT !.holds = holds]
  OBVIOUS
<1>6. IsRow(row) /\ row.kind = "tools"
  BY <1>1, <1>2, <1>3 DEF AreRows
<1>7. joined = [kind |-> "tools", holds |-> holds]
  BY <1>5, <1>6 DEF IsRow
<1>8. IsRow(joined) /\ joined.kind = "tools"
  BY <1>7 DEF IsRow
<1>9. more = [rows EXCEPT ![n] = joined]
  BY <1>1, <1>3, <1>4, <1>5
<1>10. rows = [i \in DOMAIN rows |-> rows[i]]
  <2>1. PICK S : rows \in Seq(S)
    BY DEF AreRows, IsList
  <2>2. QED
    BY <2>1
<1>11. /\ more = [i \in DOMAIN rows |-> more[i]] /\ DOMAIN more = DOMAIN rows /\ more[n] = joined
       /\ \A i \in DOMAIN rows : i # n => more[i] = rows[i]
  BY <1>2, <1>9, <1>10
<1>12. IsList(more)
  BY <1>11, Remade DEF AreRows
<1>13. \A i \in DOMAIN rows : IsRow(more[i]) /\ RowText(more[i]) = RowText(rows[i])
  BY <1>3, <1>6, <1>8, <1>11 DEF AreRows, RowText
<1>14. QED
  BY <1>11, <1>12, <1>13 DEF AreRows, RowTexts

\* r are the rows of the first lines.
RowsOf(r, card, n) ==
  r = [i \in 0..n |-> IF i = 0 THEN <<>> ELSE WithRow(r[i - 1], card.timeline[i], card.texts)]

LEMMA RowsExist ==
  ASSUME NEW card, NEW n \in Nat
  PROVE  \E r : RowsOf(r, card, n)
<1> DEFINE none == {m \in Nat : ~ \E r : RowsOf(r, card, m)}
<1>1. SUFFICES ASSUME none # {} PROVE FALSE
  OBVIOUS
<1>2. PICK m \in none : \A k \in none : m <= k
  <2>1. none \in SUBSET Nat
    OBVIOUS
  <2>2. QED
    BY <1>1, <2>1, LeastOf
<1>3. CASE m = 0
  <2>1. PICK r : r = [i \in 0..0 |-> <<>>]
    OBVIOUS
  <2>2. \A i \in 0..0 : i = 0
    OBVIOUS
  <2>3. RowsOf(r, card, 0)
    BY <2>1, <2>2 DEF RowsOf
  <2>4. QED
    BY <1>2, <1>3, <2>3
<1>4. CASE m # 0
  <2>1. PICK k \in Nat : m = k + 1
    BY <1>2, <1>4
  <2>2. PICK r : RowsOf(r, card, k)
    BY <1>2, <2>1
  <2>3. PICK s : s = [i \in 0..k + 1 |-> IF i = 0 THEN <<>> ELSE WithRow(r[i - 1], card.timeline[i], card.texts)]
    OBVIOUS
  <2>4. \A i \in 0..k : i \in 0..k + 1 /\ s[i] = r[i]
    BY <2>2, <2>3 DEF RowsOf
  <2>5. \A i \in 0..k + 1 : i # 0 => i - 1 \in 0..k
    OBVIOUS
  <2>6. \A i \in 0..k + 1 : i # 0 => r[i - 1] = s[i - 1]
    BY <2>4, <2>5
  <2>7. RowsOf(s, card, k + 1)
    BY <2>3, <2>6 DEF RowsOf
  <2>8. QED
    BY <1>2, <2>1, <2>7
<1>5. QED
  BY <1>3, <1>4

\* One line more.
LEMMA RowNext ==
  ASSUME NEW card, Texted(card), NEW i \in DOMAIN card.timeline, NEW rows, AreRows(rows),
         NEW more, more = WithRow(rows, card.timeline[i], card.texts)
  PROVE  AreRows(more) /\ FlattenSeq(RowTexts(more)) = FlattenSeq(RowTexts(rows)) \o LineText(card, i)
<1>1. PICK e : e = card.timeline[i]
  OBVIOUS
<1>2. FlattenSeq(RowTexts(rows)) \in Spoken
  <2>1. PICK f : Says(f, RowTexts(rows), Len(RowTexts(rows)))
    BY RowsAreTexts, SomethingSaid
  <2>2. QED
    BY <2>1, RowsAreTexts, SaidIs
<1>3. CASE e.kind # "tool"
  <2>1. PICK row : row = [kind |-> e.kind, holds |-> card.texts[<<e.kind, e.id>>]]
    OBVIOUS
  <2>2. more = Append(rows, row)
    BY <1>1, <1>3, <2>1 DEF WithRow
  <2>3. row.kind # "tools" /\ row.holds = LineText(card, i) /\ row.holds \in Spoken
    BY <1>1, <1>3, <2>1 DEF Texted, IsLine, LineText, Key
  <2>4. IsRow(row) /\ RowText(row) = LineText(card, i)
    BY <2>1, <2>3 DEF IsRow, RowText
  <2>5. QED
    BY <2>2, <2>4, RowAdded
<1>4. CASE e.kind = "tool"
  <2>1. LineText(card, i) = <<>>
    BY <1>1, <1>4 DEF LineText
  <2>2. CASE rows # <<>> /\ Last(rows).kind = "tools"
    <3>1. more = [rows EXCEPT ![Len(rows)].holds = Append(@, e.id)] /\ rows[Len(rows)].kind = "tools"
      BY <1>1, <1>4, <2>2 DEF WithRow, Last
    <3>2. AreRows(more) /\ RowTexts(more) = RowTexts(rows)
      BY <2>2, <3>1, ToolJoins
    <3>3. QED
      BY <1>2, <2>1, <3>2, SpokenJoin
  <2>3. CASE ~(rows # <<>> /\ Last(rows).kind = "tools")
    <3>1. PICK row : row = [kind |-> "tools", holds |-> <<e.id>>]
      OBVIOUS
    <3>2. more = Append(rows, row)
      BY <1>1, <1>4, <2>3, <3>1 DEF WithRow
    <3>3. IsRow(row) /\ RowText(row) = <<>>
      BY <3>1 DEF IsRow, RowText
    <3>4. QED
      BY <2>1, <3>2, <3>3, RowAdded
  <2>4. QED
    BY <2>2, <2>3
<1>5. QED
  BY <1>3, <1>4

LEMMA RowsSay ==
  ASSUME NEW card, Texted(card)
  PROVE  TextOf(Rows(card)) = FlattenSeq(Lines(card))
<1>1. PICK n \in Nat : n = Len(card.timeline)
  BY LinesAreTexts
<1>2. PICK r : r = CHOOSE x : RowsOf(x, card, n)
  OBVIOUS
<1>3. RowsOf(r, card, n)
  BY <1>2, RowsExist
<1>4. Rows(card) = r[n]
  BY <1>1, <1>2 DEF Rows, RowsOf
<1>5. r[0] = <<>> /\ \A i \in 1..n : r[i] = WithRow(r[i - 1], card.timeline[i], card.texts)
  <2>1. \A i \in 0..n : r[i] = IF i = 0 THEN <<>> ELSE WithRow(r[i - 1], card.timeline[i], card.texts)
    BY <1>3 DEF RowsOf
  <2>2. 0 \in 0..n /\ \A i \in 1..n : i \in 0..n /\ i # 0
    OBVIOUS
  <2>3. QED
    BY <2>1, <2>2
<1>6. PICK f : Says(f, Lines(card), n)
  BY <1>1, LinesAreTexts, SomethingSaid
<1>7. /\ f[0] = <<>> /\ \A i \in 1..n : f[i] = f[i - 1] \o Lines(card)[i]
      /\ \A i \in 1..n : Lines(card)[i] = LineText(card, i) /\ i \in DOMAIN card.timeline
  BY <1>1, <1>6, LinesAreTexts DEF Says, Lines
<1>8. ASSUME NEW m \in 0..n PROVE AreRows(r[m]) /\ FlattenSeq(RowTexts(r[m])) = f[m]
  <2> DEFINE off == {i \in 0..n : ~(AreRows(r[i]) /\ FlattenSeq(RowTexts(r[i])) = f[i])}
  <2>1. SUFFICES ASSUME off # {} PROVE FALSE
    OBVIOUS
  <2>2. PICK k \in off : \A i \in off : k <= i
    <3>1. off \in SUBSET Nat
      OBVIOUS
    <3>2. QED
      BY <2>1, <3>1, LeastOf
  <2>3. CASE k = 0
    <3>1. PICK none : none = <<>>
      OBVIOUS
    <3>2. none \in Seq(Spoken) /\ DOMAIN none = {} /\ Len(none) = 0
      BY <3>1
    <3>3. AreRows(none)
      BY <3>2 DEF AreRows, IsList
    <3>4. RowTexts(none) \in Seq(Spoken) /\ Len(RowTexts(none)) = 0
      BY <3>2, <3>3, RowsAreTexts
    <3>5. FlattenSeq(RowTexts(none)) = <<>>
      <4>1. \A i \in 1..Len(RowTexts(none)) : RowTexts(none)[i] = <<>>
        BY <3>4
      <4>2. QED
        BY <3>4, <4>1, NothingSaid
    <3>6. QED
      BY <1>5, <1>7, <2>2, <2>3, <3>1, <3>3, <3>5
  <2>4. CASE k # 0
    <3>1. k \in 1..n /\ k - 1 \in 0..n /\ ~(k <= k - 1)
      BY <2>2, <2>4
    <3>2. AreRows(r[k - 1]) /\ FlattenSeq(RowTexts(r[k - 1])) = f[k - 1]
      BY <2>2, <3>1
    <3>3. r[k] = WithRow(r[k - 1], card.timeline[k], card.texts) /\ k \in DOMAIN card.timeline
      BY <1>5, <1>7, <3>1
    <3>4. AreRows(r[k]) /\ FlattenSeq(RowTexts(r[k])) = f[k - 1] \o LineText(card, k)
      BY <3>2, <3>3, RowNext
    <3>5. f[k] = f[k - 1] \o LineText(card, k)
      BY <1>7, <3>1
    <3>6. QED
      BY <2>2, <3>4, <3>5
  <2>5. QED
    BY <2>3, <2>4
<1>9. FlattenSeq(Lines(card)) = f[n]
  BY <1>1, <1>6, LinesAreTexts, SaidIs
<1>10. TextOf(Rows(card)) = FlattenSeq(RowTexts(r[n]))
  BY <1>4 DEF TextOf, RowTexts, RowText
<1>11. QED
  BY <1>8, <1>9, <1>10

-----------------------------------------------------------------------------
(* What the model thinks gets on the card of its turn.                     *)

\* A card that n events went to.
Carded(card, n) ==
  Texted(card) /\ IsFiniteSet(DOMAIN card.texts) /\ Cardinality(DOMAIN card.texts) <= n

\* A number that makes a new id is found: there are fewer segments than numbers.
LEMMA SegmentIsNew ==
  ASSUME NEW held, IsFiniteSet(DOMAIN held), NEW n \in Nat, Cardinality(DOMAIN held) <= n, n < MaxJournal,
         NEW kind, NEW source \in Seq(Nat)
  PROVE  <<kind, SegmentId(held, kind, source)>> \notin DOMAIN held
<1>1. CASE <<kind, source>> \notin DOMAIN held
  BY <1>1 DEF SegmentId
<1>2. CASE <<kind, source>> \in DOMAIN held
  <2>1. PICK last \in Nat : last = MaxJournal + 2
    BY JournalAssumption
  <2> DEFINE free == {i \in 2..last : <<kind, Append(source, i)>> \notin DOMAIN held}
  <2>2. free # {}
    <3>1. SUFFICES ASSUME free = {} PROVE FALSE
      OBVIOUS
    <3>2. PICK f : f = [i \in 2..last |-> <<kind, Append(source, i)>>]
      OBVIOUS
    <3>3. \A i \in 2..last : f[i] \in DOMAIN held
      BY <3>1, <3>2
    <3>4. ASSUME NEW i \in 2..last, NEW j \in 2..last, f[i] = f[j] PROVE i = j
      <4>1. Append(source, i) = Append(source, j)
        BY <3>2, <3>4
      <4>2. Append(source, i)[Len(source) + 1] = i /\ Append(source, j)[Len(source) + 1] = j
        OBVIOUS
      <4>3. QED
        BY <4>1, <4>2
    <3>5. f \in Injection(2..last, DOMAIN held)
      BY <3>2, <3>3, <3>4 DEF Injection, IsInjective
    <3>6. Cardinality(2..last) <= Cardinality(DOMAIN held)
      BY <3>5, FS_Injection
    <3>7. Cardinality(2..last) = last - 1
      BY <2>1, JournalAssumption, FS_Interval
    <3>8. Cardinality(DOMAIN held) \in Nat
      BY FS_CardinalityType
    <3>9. QED
      BY <2>1, <3>6, <3>7, <3>8, JournalAssumption
  <2>3. PICK i \in free : \A j \in free : i <= j
    <3>1. free \in SUBSET Nat
      OBVIOUS
    <3>2. QED
      BY <2>2, <3>1, LeastOf
  <2>4. i \in 2..MaxJournal + 2 /\ <<kind, Append(source, i)>> \notin DOMAIN held
    BY <2>1, <2>3
  <2>5. \A j \in 2..i - 1 : <<kind, Append(source, j)>> \in DOMAIN held
    <3>1. SUFFICES ASSUME NEW j \in 2..i - 1, <<kind, Append(source, j)>> \notin DOMAIN held PROVE FALSE
      OBVIOUS
    <3>2. j \in 2..last /\ ~(i <= j)
      BY <2>1, <2>4
    <3>3. QED
      BY <2>3, <3>1, <3>2
  <2> DEFINE New(k) == /\ <<kind, Append(source, k)>> \notin DOMAIN held
                       /\ \A j \in 2..k - 1 : <<kind, Append(source, j)>> \in DOMAIN held
  <2>6. PICK m : m = CHOOSE k \in 2..MaxJournal + 2 : New(k)
    OBVIOUS
  <2>7. SegmentId(held, kind, source) = Append(source, m)
    BY <1>2, <2>6 DEF SegmentId
  <2>8. New(m)
    BY <2>4, <2>5, <2>6
  <2>9. QED
    BY <2>7, <2>8
<1>3. QED
  BY <1>1, <1>2

\* The same texts and the same timeline say the same.
LEMMA SameCard ==
  ASSUME NEW a, NEW b, b.texts = a.texts, b.timeline = a.timeline, NEW n, Carded(a, n)
  PROVE  Carded(b, n) /\ Lines(b) = Lines(a)
BY DEF Carded, Texted, Lines, LineText, Key

\* A line more in the timeline.
HasMore(a, b, e, text) ==
  /\ IsLine(e) /\ b.timeline = Append(a.timeline, e) /\ text \in Spoken
  /\ \A key \in DOMAIN a.texts : key \in DOMAIN b.texts /\ b.texts[key] = a.texts[key]
  /\ \/ e.kind = "tool" /\ text = <<>>
     \/ /\ e.kind # "tool" /\ <<e.kind, e.id>> \notin DOMAIN a.texts
        /\ <<e.kind, e.id>> \in DOMAIN b.texts /\ b.texts[<<e.kind, e.id>>] = text

LEMMA LineAdded ==
  ASSUME NEW a, Texted(a), NEW b, NEW e, NEW text, HasMore(a, b, e, text)
  PROVE  Texted(b) /\ FlattenSeq(Lines(b)) = FlattenSeq(Lines(a)) \o text
<1> USE DEF HasMore
<1>1. PICK n \in Nat : n = Len(a.timeline)
  BY LinesAreTexts
<1>2. /\ IsList(b.timeline) /\ DOMAIN a.timeline = 1..n /\ DOMAIN b.timeline = 1..n + 1
      /\ b.timeline[n + 1] = e /\ \A i \in 1..n : b.timeline[i] = a.timeline[i]
  BY <1>1, Appended DEF Texted
<1>3. \A i \in 1..n + 1 : i \in 1..n \/ i = n + 1
  OBVIOUS
<1>4. ASSUME NEW i \in 1..n
      PROVE  /\ Key(b, i) = Key(a, i) /\ LineText(b, i) = LineText(a, i) /\ IsLine(b.timeline[i])
             /\ b.timeline[i].kind # "tool" =>
                  Key(b, i) \in DOMAIN a.texts /\ Key(b, i) \in DOMAIN b.texts /\ b.texts[Key(b, i)] \in Spoken
  BY <1>2 DEF Key, LineText, Texted
<1>5. Key(b, n + 1) = <<e.kind, e.id>>
  BY <1>2 DEF Key
<1>6. \A i \in 1..n + 1 : IsLine(b.timeline[i])
  BY <1>2, <1>3, <1>4
<1>7. \A i \in 1..n + 1 : b.timeline[i].kind # "tool" =>
        Key(b, i) \in DOMAIN b.texts /\ b.texts[Key(b, i)] \in Spoken
  BY <1>2, <1>3, <1>4, <1>5
<1>8. ASSUME NEW i \in 1..n + 1, NEW j \in 1..n + 1, b.timeline[i].kind # "tool", b.timeline[j].kind # "tool", i # j
      PROVE  Key(b, i) # Key(b, j)
  <2>1. CASE i \in 1..n /\ j \in 1..n
    BY <1>2, <1>4, <1>8, <2>1 DEF Texted
  <2>2. CASE i = n + 1
    BY <1>2, <1>3, <1>4, <1>5, <1>8, <2>2
  <2>3. CASE j = n + 1
    BY <1>2, <1>3, <1>4, <1>5, <1>8, <2>3
  <2>4. QED
    BY <1>3, <2>1, <2>2, <2>3
<1>9. Texted(b)
  BY <1>2, <1>6, <1>7, <1>8 DEF Texted
<1>10. text \in Spoken
  OBVIOUS
<1>11. LineText(b, n + 1) = text
  BY <1>2, <1>5 DEF LineText
<1>12. PICK more : more = Append(Lines(a), text)
  OBVIOUS
<1>13. /\ more \in Seq(Spoken) /\ Len(more) = n + 1 /\ more[n + 1] = text
       /\ \A i \in 1..n : more[i] = Lines(a)[i]
  BY <1>1, <1>10, <1>12, LinesAreTexts
<1>14. Lines(b) \in Seq(Spoken) /\ Len(Lines(b)) = n + 1
  <2>1. Lines(b) \in Seq(Spoken) /\ Len(Lines(b)) = Len(b.timeline) /\ Len(b.timeline) \in Nat
        /\ 1..n + 1 = 1..Len(b.timeline)
    BY <1>2, <1>9, LinesAreTexts
  <2>2. QED
    BY <2>1
<1>15. ASSUME NEW i \in 1..n + 1 PROVE Lines(b)[i] = more[i]
  <2>1. Lines(b)[i] = LineText(b, i)
    BY <1>2 DEF Lines
  <2>2. CASE i \in 1..n
    BY <1>2, <1>4, <1>13, <2>1, <2>2 DEF Lines
  <2>3. CASE i = n + 1
    BY <1>11, <1>13, <2>1, <2>3
  <2>4. QED
    BY <1>3, <2>2, <2>3
<1>16. Lines(b) = more
  BY <1>13, <1>14, <1>15, SameTexts
<1>17. FlattenSeq(more) = FlattenSeq(Lines(a)) \o text
  BY <1>10, <1>12, LinesAreTexts, SaidMore
<1>18. QED
  BY <1>9, <1>16, <1>17

\* The last line goes on.
LEMMA LineGrows ==
  ASSUME NEW a, Texted(a), a.timeline # <<>>, NEW b, b.timeline = a.timeline, NEW key, key = Key(a, Len(a.timeline)),
         a.timeline[Len(a.timeline)].kind # "tool", NEW text \in Spoken,
         DOMAIN b.texts = DOMAIN a.texts, b.texts[key] = a.texts[key] \o text,
         \A other \in DOMAIN a.texts : other # key => b.texts[other] = a.texts[other]
  PROVE  Texted(b) /\ FlattenSeq(Lines(b)) = FlattenSeq(Lines(a)) \o text
<1>1. PICK n \in Nat : n = Len(a.timeline)
  BY LinesAreTexts
<1>2. DOMAIN a.timeline = 1..n /\ n \in 1..n
  <2>1. PICK S : a.timeline \in Seq(S)
    BY DEF Texted, IsList
  <2>2. n # 0
    BY <1>1, <2>1
  <2>3. QED
    BY <1>1, <2>2, LinesAreTexts
<1>3. key \in DOMAIN a.texts /\ a.texts[key] \in Spoken
  BY <1>1, <1>2 DEF Texted
<1>4. b.texts[key] \in Spoken
  BY <1>3, SpokenJoin
<1>5. \A i \in 1..n : Key(b, i) = Key(a, i)
  BY DEF Key
<1>6. Texted(b)
  BY <1>2, <1>3, <1>4, <1>5 DEF Texted
<1>7. ASSUME NEW i \in 1..n
      PROVE  LineText(b, i) = IF i = n THEN LineText(a, n) \o text ELSE LineText(a, i)
  <2>1. CASE i = n
    BY <1>1, <1>2, <1>5, <2>1 DEF LineText
  <2>2. CASE i # n /\ a.timeline[i].kind = "tool"
    BY <2>2 DEF LineText
  <2>3. CASE i # n /\ a.timeline[i].kind # "tool"
    <3>1. Key(a, i) # key /\ Key(a, i) \in DOMAIN a.texts
      BY <1>1, <1>2, <2>3 DEF Texted
    <3>2. QED
      BY <1>5, <2>3, <3>1 DEF LineText
  <2>4. QED
    BY <2>1, <2>2, <2>3
<1>8. PICK list : list = Lines(a)
  OBVIOUS
<1>9. list \in Seq(Spoken) /\ Len(list) = n /\ \A i \in 1..n : list[i] = LineText(a, i)
  BY <1>1, <1>2, <1>8, LinesAreTexts DEF Lines
<1>10. PICK longer : longer = [list EXCEPT ![n] = list[n] \o text]
  OBVIOUS
<1>11. longer \in Seq(Spoken) /\ FlattenSeq(longer) = FlattenSeq(list) \o text
  <2>1. \A i \in 1..Len(list) : i > n => list[i] = <<>>
    BY <1>9
  <2>2. QED
    BY <1>2, <1>9, <1>10, <2>1, SaidLonger
<1>12. list[n] \o text \in Spoken
  BY <1>2, <1>9, SpokenJoin
<1>13. Len(longer) = n /\ \A i \in 1..n : longer[i] = IF i = n THEN list[n] \o text ELSE list[i]
  <2>1. list \in [1..n -> Spoken]
    BY <1>9
  <2>2. longer \in [1..n -> Spoken] /\ \A i \in 1..n : longer[i] = IF i = n THEN list[n] \o text ELSE list[i]
    BY <1>10, <1>12, <2>1
  <2>3. QED
    BY <1>11, <2>2
<1>14. Lines(b) \in Seq(Spoken) /\ Len(Lines(b)) = n
  BY <1>1, <1>6, LinesAreTexts
<1>15. \A i \in 1..n : Lines(b)[i] = LineText(b, i)
  BY <1>2 DEF Lines
<1>16. Lines(b) = longer
  <2>1. ASSUME NEW i \in 1..n PROVE Lines(b)[i] = longer[i]
    <3>1. Lines(b)[i] = IF i = n THEN LineText(a, n) \o text ELSE LineText(a, i)
      BY <1>7, <1>15
    <3>2. longer[i] = IF i = n THEN list[n] \o text ELSE list[i]
      BY <1>13
    <3>3. list[n] = LineText(a, n) /\ list[i] = LineText(a, i)
      BY <1>2, <1>9
    <3>4. QED
      BY <3>1, <3>2, <3>3
  <2>2. PICK l : l = Lines(b)
    OBVIOUS
  <2>3. /\ l \in Seq(Spoken) /\ longer \in Seq(Spoken) /\ Len(l) = n /\ Len(longer) = n
        /\ \A i \in 1..n : l[i] = longer[i]
    BY <1>11, <1>13, <1>14, <2>1, <2>2
  <2>4. QED
    BY <2>2, <2>3, SameTexts
<1>17. QED
  BY <1>6, <1>8, <1>11, <1>16

IsTalk(kind) == kind \in {"thinking", "commentary"}
IsThought(card, n, kind, source, piece) ==
  /\ IsCard(card) /\ Carded(card, n) /\ n \in Nat /\ n < MaxJournal
  /\ IsTalk(kind) /\ source \in Seq(Nat) /\ piece \in Nat

\* appendTextDelta: the piece is said last, and everything else as before.
LEMMA PieceSaid ==
  ASSUME NEW card, NEW n, NEW kind, NEW source, NEW piece, IsThought(card, n, kind, source, piece),
         NEW after, after = WithText(card, kind, source, piece)
  PROVE  Carded(after, n + 1) /\ FlattenSeq(Lines(after)) = FlattenSeq(Lines(card)) \o <<piece>>
<1> USE DEF IsThought
<1>1. PICK last : last = IF card.timeline = <<>> THEN [kind |-> "none", id |-> <<>>, source |-> <<>>]
                         ELSE Last(card.timeline)
  OBVIOUS
<1>2. PICK id : id = IF last.kind = kind /\ last.source = source THEN last.id ELSE SegmentId(card.texts, kind, source)
  OBVIOUS
<1>3. PICK key : key = <<kind, id>>
  OBVIOUS
<1>4. PICK old : old = IF key \in DOMAIN card.texts THEN card.texts[key] ELSE <<>>
  OBVIOUS
<1>5. PICK grown : grown = Append(old, piece)
  OBVIOUS
<1>6. PICK held : held = [k \in DOMAIN card.texts \cup {key} |-> IF k = key THEN grown ELSE card.texts[k]]
  OBVIOUS
<1>7. PICK timeline : timeline = IF last.kind = kind /\ last.source = source THEN card.timeline
                                 ELSE Append(card.timeline, [kind |-> kind, id |-> id, source |-> source])
  OBVIOUS
<1>8. after = [card EXCEPT !.texts = held, !.timeline = timeline]
  BY <1>1, <1>2, <1>3, <1>4, <1>5, <1>6, <1>7, Zenon DEF WithText
<1>9. after.texts = held /\ after.timeline = timeline
  BY <1>8 DEF IsCard
<1>10. /\ DOMAIN held = DOMAIN card.texts \cup {key} /\ held[key] = grown
       /\ \A other \in DOMAIN card.texts : other # key => held[other] = card.texts[other]
  BY <1>6
<1>11. IsFiniteSet(DOMAIN held) /\ Cardinality(DOMAIN held) <= n + 1
  <2>1. Cardinality(DOMAIN card.texts) \in Nat
    BY FS_CardinalityType DEF Carded
  <2>2. PICK keys : keys = DOMAIN card.texts
    OBVIOUS
  <2>3. IsFiniteSet(keys) /\ Cardinality(keys) <= n /\ Cardinality(keys) \in Nat
    BY <2>1, <2>2 DEF Carded
  <2>4. /\ IsFiniteSet(keys \cup {key})
        /\ Cardinality(keys \cup {key}) = IF key \in keys THEN Cardinality(keys) ELSE Cardinality(keys) + 1
    BY <2>3, FS_AddElement
  <2>5. PICK k \in Nat : k = Cardinality(keys)
    BY <2>3
  <2>6. Cardinality(keys \cup {key}) = k \/ Cardinality(keys \cup {key}) = k + 1
    BY <2>4, <2>5
  <2>7. Cardinality(keys \cup {key}) <= n + 1
    BY <2>3, <2>5, <2>6
  <2>8. QED
    BY <1>10, <2>2, <2>4, <2>7
<1>12. <<piece>> \in Spoken /\ \A s \in Spoken : Append(s, piece) = s \o <<piece>> /\ Append(s, piece) \in Spoken
  <2>1. <<piece>> \in Seq(Nat)
    OBVIOUS
  <2>2. \A s \in Seq(Nat) : Append(s, piece) = s \o <<piece>> /\ Append(s, piece) \in Seq(Nat)
    OBVIOUS
  <2>3. QED
    BY <2>1, <2>2 DEF Spoken
<1>13. CASE last.kind = kind /\ last.source = source
  <2>1. card.timeline # <<>>
    BY <1>1, <1>13 DEF IsTalk
  <2>2. last = card.timeline[Len(card.timeline)] /\ Len(card.timeline) \in DOMAIN card.timeline
    <3>1. PICK S : card.timeline \in Seq(S)
      BY DEF Carded, Texted, IsList
    <3>2. Len(card.timeline) \in DOMAIN card.timeline
      BY <2>1, <3>1
    <3>3. QED
      BY <1>1, <2>1, <3>2 DEF Last
  <2>3. key = Key(card, Len(card.timeline)) /\ card.timeline[Len(card.timeline)].kind # "tool"
    BY <1>2, <1>3, <1>13, <2>2 DEF Key, IsTalk
  <2>4. key \in DOMAIN card.texts /\ old = card.texts[key] /\ old \in Spoken
    BY <1>4, <2>2, <2>3 DEF Carded, Texted
  <2>5. after.timeline = card.timeline
    BY <1>7, <1>9, <1>13
  <2>6. /\ DOMAIN after.texts = DOMAIN card.texts /\ after.texts[key] = card.texts[key] \o <<piece>>
        /\ \A other \in DOMAIN card.texts : other # key => after.texts[other] = card.texts[other]
    BY <1>5, <1>9, <1>10, <1>12, <2>4
  <2>7. Texted(after) /\ FlattenSeq(Lines(after)) = FlattenSeq(Lines(card)) \o <<piece>>
    <3>1. PICK text : text = <<piece>>
      OBVIOUS
    <3>2. text \in Spoken /\ Texted(card)
      BY <1>12, <3>1 DEF Carded
    <3>3. after.texts[key] = card.texts[key] \o text
      BY <2>6, <3>1
    <3>4. Texted(after) /\ FlattenSeq(Lines(after)) = FlattenSeq(Lines(card)) \o text
      BY <2>1, <2>3, <2>5, <2>6, <3>2, <3>3, LineGrows
    <3>5. QED
      BY <3>1, <3>4
  <2>8. QED
    BY <1>9, <1>11, <2>7 DEF Carded
<1>14. CASE ~(last.kind = kind /\ last.source = source)
  <2>1. key \notin DOMAIN card.texts
    BY <1>2, <1>3, <1>14, SegmentIsNew DEF Carded
  <2>2. grown = <<piece>>
    BY <1>4, <1>5, <2>1
  <2>3. PICK e : e = [kind |-> kind, id |-> id, source |-> source]
    OBVIOUS
  <2>4. IsLine(e) /\ e.kind # "tool" /\ <<e.kind, e.id>> = key /\ e.kind = kind
    BY <1>3, <2>3 DEF IsLine, IsTalk
  <2>5. after.timeline = Append(card.timeline, e)
    BY <1>7, <1>9, <1>14, <2>3
  <2>6. /\ \A other \in DOMAIN card.texts : other \in DOMAIN after.texts /\ after.texts[other] = card.texts[other]
        /\ key \in DOMAIN after.texts /\ after.texts[key] = <<piece>>
    BY <1>9, <1>10, <2>1, <2>2
  <2>7. Texted(after) /\ FlattenSeq(Lines(after)) = FlattenSeq(Lines(card)) \o <<piece>>
    <3>1. PICK line : line = <<e.kind, e.id>>
      OBVIOUS
    <3>2. line = key /\ after.texts[line] = <<piece>> /\ after.texts[line] \in Spoken
      BY <1>12, <2>4, <2>6, <3>1
    <3>3. line \notin DOMAIN card.texts /\ line \in DOMAIN after.texts /\ Texted(card)
      BY <2>1, <2>6, <3>2 DEF Carded
    <3>4. PICK text : text = <<piece>>
      OBVIOUS
    <3>5. HasMore(card, after, e, text)
      BY <1>12, <2>4, <2>5, <2>6, <3>1, <3>2, <3>3, <3>4 DEF HasMore
    <3>6. QED
      BY <3>3, <3>4, <3>5, LineAdded
  <2>8. QED
    BY <1>9, <1>11, <2>7 DEF Carded
<1>15. QED
  BY <1>13, <1>14

\* A tool says nothing.
LEMMA ToolSaid ==
  ASSUME NEW card, IsCard(card), NEW n \in Nat, Carded(card, n), NEW tool, NEW status,
         NEW after, after = WithTool(card, tool, status)
  PROVE  Carded(after, n) /\ FlattenSeq(Lines(after)) = FlattenSeq(Lines(card))
<1>1. CASE \E i \in DOMAIN card.tools : card.tools[i].id = tool
  <2>1. after.texts = card.texts /\ after.timeline = card.timeline
    BY <1>1 DEF WithTool, IsCard
  <2>2. QED
    BY <2>1, SameCard
<1>2. CASE ~ \E i \in DOMAIN card.tools : card.tools[i].id = tool
  <2>1. PICK e : e = [kind |-> "tool", id |-> tool, source |-> tool]
    OBVIOUS
  <2>2. after.texts = card.texts /\ after.timeline = Append(card.timeline, e)
    BY <1>2, <2>1 DEF WithTool, IsCard
  <2>3. IsLine(e) /\ e.kind = "tool"
    BY <2>1 DEF IsLine
  <2>4. Texted(after) /\ FlattenSeq(Lines(after)) = FlattenSeq(Lines(card)) \o <<>>
    <3>1. PICK text : text = <<>>
      OBVIOUS
    <3>2. HasMore(card, after, e, text)
      BY <2>2, <2>3, <3>1, SpokenJoin DEF HasMore
    <3>3. QED
      BY <3>1, <3>2, LineAdded DEF Carded
  <2>5. FlattenSeq(Lines(card)) \in Spoken
    <3>1. Lines(card) \in Seq(Spoken)
      BY LinesAreTexts DEF Carded
    <3>2. PICK f : Says(f, Lines(card), Len(Lines(card)))
      BY <3>1, SomethingSaid
    <3>3. QED
      BY <3>1, <3>2, SaidIs
  <2>6. QED
    BY <2>2, <2>4, <2>5, SpokenJoin DEF Carded
<1>3. QED
  BY <1>1, <1>2

\* Nor does the end of the turn.
LEMMA StatusSaid ==
  ASSUME NEW card, IsCard(card), NEW n \in Nat, Carded(card, n), NEW status \in {"completed", "failed", "interrupted"},
         NEW after, after = WithStatus(card, status)
  PROVE  Carded(after, n) /\ Lines(after) = Lines(card)
<1>1. PICK left \in {"completed", "failed", "declined"} : after = Stopped(card, status, left)
  BY DEF WithStatus
<1>2. after.texts = card.texts /\ after.timeline = card.timeline
  BY <1>1 DEF Stopped, IsCard
<1>3. QED
  BY <1>2, SameCard

LEMMA EmptyCard == Carded(Card, 0) /\ FlattenSeq(Lines(Card)) = <<>>
<1>1. PICK none : none = <<>>
  OBVIOUS
<1>2. DOMAIN none = {} /\ none \in Seq(Spoken) /\ Len(none) = 0
  BY <1>1
<1>3. Card.texts = none /\ Card.timeline = none
  BY <1>1 DEF Card
<1>4. Texted(Card)
  BY <1>2, <1>3 DEF Texted, IsList
<1>5. IsFiniteSet(DOMAIN Card.texts) /\ Cardinality(DOMAIN Card.texts) = 0
  BY <1>2, <1>3, FS_EmptySet
<1>6. Lines(Card) \in Seq(Spoken) /\ Len(Lines(Card)) = 0
  BY <1>2, <1>3, <1>4, LinesAreTexts
<1>7. \A i \in 1..Len(Lines(Card)) : Lines(Card)[i] = <<>>
  BY <1>6
<1>8. FlattenSeq(Lines(Card)) = <<>>
  BY <1>6, <1>7, NothingSaid
<1>9. Cardinality(DOMAIN Card.texts) <= 0
  BY <1>5
<1>10. QED
  BY <1>4, <1>5, <1>8, <1>9 DEF Carded

-----------------------------------------------------------------------------
(* What the assistant says in a turn.                                      *)

IsAnswer(m, turn) == m.kind = "assistant" /\ m.turn = turn
Answers(msgs, turn) == [i \in DOMAIN msgs |-> IF IsAnswer(msgs[i], turn) THEN msgs[i].text ELSE <<>>]
Answer(msgs, turn) == FlattenSeq(Answers(msgs, turn))
Voiced(msgs) == IsList(msgs) /\ \A i \in DOMAIN msgs : msgs[i].text \in Spoken

LEMMA AnswersAreTexts ==
  ASSUME NEW msgs, Voiced(msgs), NEW turn
  PROVE  /\ Answers(msgs, turn) \in Seq(Spoken) /\ Len(Answers(msgs, turn)) = Len(msgs) /\ Len(msgs) \in Nat
         /\ DOMAIN msgs = 1..Len(msgs) /\ Answer(msgs, turn) \in Spoken
<1>1. \A i \in DOMAIN msgs : Answers(msgs, turn)[i] \in Spoken
  BY SpokenJoin DEF Voiced, Answers
<1>2. Answers(msgs, turn) = [i \in DOMAIN msgs |-> Answers(msgs, turn)[i]]
  BY DEF Answers
<1>3. /\ Answers(msgs, turn) \in Seq(Spoken) /\ Len(Answers(msgs, turn)) = Len(msgs) /\ Len(msgs) \in Nat
      /\ DOMAIN msgs = 1..Len(msgs)
  BY <1>1, <1>2, TextList DEF Voiced
<1>4. PICK list : list = Answers(msgs, turn)
  OBVIOUS
<1>5. PICK f : Says(f, list, Len(list))
  BY <1>3, <1>4, SomethingSaid
<1>6. Answer(msgs, turn) \in Spoken
  BY <1>3, <1>4, <1>5, SaidIs DEF Answer
<1>7. QED
  BY <1>3, <1>6

\* Messages that say the same.
Alike(a, b) ==
  /\ DOMAIN b = DOMAIN a
  /\ \A i \in DOMAIN a : b[i].kind = a[i].kind /\ b[i].turn = a[i].turn /\ b[i].text = a[i].text

LEMMA AnswerKept ==
  ASSUME NEW a, NEW b, Alike(a, b)
  PROVE  \A turn : Answer(b, turn) = Answer(a, turn)
<1>1. ASSUME NEW turn PROVE Answers(b, turn) = Answers(a, turn)
  BY DEF Answers, IsAnswer, Alike
<1>2. QED
  BY <1>1 DEF Answer

\* A message more.
Gives(m, turn, text) == text = IF IsAnswer(m, turn) THEN m.text ELSE <<>>
Joins(a, m, b) == Voiced(a) /\ m.text \in Spoken /\ b = Append(a, m)
IsAside(m, turn) == ~IsAnswer(m, turn)

LEMMA AnswerPushed ==
  ASSUME NEW a, NEW m, NEW b, Joins(a, m, b), NEW turn, NEW text, Gives(m, turn, text)
  PROVE  Voiced(b) /\ text \in Spoken /\ Answer(b, turn) = Answer(a, turn) \o text
<1>0. Voiced(a) /\ m.text \in Spoken /\ b = Append(a, m)
  BY DEF Joins
<1>1. PICK n \in Nat : n = Len(a)
  BY <1>0, AnswersAreTexts
<1>2. /\ IsList(b) /\ DOMAIN a = 1..n /\ DOMAIN b = 1..n + 1 /\ b[n + 1] = m /\ \A i \in 1..n : b[i] = a[i]
  BY <1>0, <1>1, Appended DEF Voiced
<1>3. \A i \in 1..n + 1 : i \in 1..n \/ i = n + 1
  OBVIOUS
<1>4. Voiced(b)
  <2>1. \A i \in 1..n + 1 : b[i].text \in Spoken
    BY <1>0, <1>2, <1>3 DEF Voiced
  <2>2. QED
    BY <1>2, <2>1 DEF Voiced
<1>6. text \in Spoken
  BY <1>0, SpokenJoin DEF Gives
<1>7. PICK list : list = Answers(a, turn)
  OBVIOUS
<1>8. list \in Seq(Spoken) /\ Len(list) = n
  BY <1>0, <1>1, <1>7, AnswersAreTexts
<1>9. PICK more : more = Append(list, text)
  OBVIOUS
<1>10. /\ more \in Seq(Spoken) /\ Len(more) = n + 1 /\ more[n + 1] = text
       /\ \A i \in 1..n : more[i] = list[i]
  BY <1>6, <1>8, <1>9
<1>11. PICK said : said = Answers(b, turn)
  OBVIOUS
<1>12. said \in Seq(Spoken) /\ Len(said) = n + 1
  <2>1. said \in Seq(Spoken) /\ Len(said) = Len(b) /\ Len(b) \in Nat /\ 1..n + 1 = 1..Len(b)
    BY <1>2, <1>4, <1>11, AnswersAreTexts
  <2>2. QED
    BY <2>1
<1>13. ASSUME NEW i \in 1..n + 1 PROVE said[i] = more[i]
  <2>1. said[i] = IF IsAnswer(b[i], turn) THEN b[i].text ELSE <<>>
    BY <1>2, <1>11 DEF Answers
  <2>2. CASE i \in 1..n
    <3>1. list[i] = IF IsAnswer(a[i], turn) THEN a[i].text ELSE <<>>
      BY <1>2, <1>7, <2>2 DEF Answers
    <3>2. QED
      BY <1>2, <1>10, <2>1, <2>2, <3>1
  <2>3. CASE i = n + 1
    BY <1>2, <1>10, <2>1, <2>3 DEF Gives
  <2>4. QED
    BY <1>3, <2>2, <2>3
<1>14. said = more
  BY <1>10, <1>12, <1>13, SameTexts
<1>15. FlattenSeq(more) = FlattenSeq(list) \o text
  BY <1>6, <1>8, <1>9, SaidMore
<1>16. Answer(b, turn) = Answer(a, turn) \o text
  BY <1>7, <1>11, <1>14, <1>15 DEF Answer
<1>17. QED
  BY <1>4, <1>6, <1>16

LEMMA AnswerAdded ==
  ASSUME NEW a, NEW m, NEW b, Joins(a, m, b), NEW turn, IsAnswer(m, turn)
  PROVE  Voiced(b) /\ Answer(b, turn) = Answer(a, turn) \o m.text
<1>1. PICK text : text = IF IsAnswer(m, turn) THEN m.text ELSE <<>>
  OBVIOUS
<1>2. Voiced(b) /\ Answer(b, turn) = Answer(a, turn) \o text
  <2>1. Gives(m, turn, text)
    BY <1>1 DEF Gives
  <2>2. QED
    BY <2>1, AnswerPushed
<1>3. QED
  BY <1>1, <1>2

LEMMA AnswerAside ==
  ASSUME NEW a, NEW m, NEW b, Joins(a, m, b), NEW turn, IsAside(m, turn)
  PROVE  Voiced(b) /\ Answer(b, turn) = Answer(a, turn)
<1>1. PICK text : text = IF IsAnswer(m, turn) THEN m.text ELSE <<>>
  OBVIOUS
<1>2. Voiced(b) /\ Answer(b, turn) = Answer(a, turn) \o text
  <2>1. Gives(m, turn, text)
    BY <1>1 DEF Gives
  <2>2. QED
    BY <2>1, AnswerPushed
<1>3. text = <<>>
  BY <1>1 DEF IsAside
<1>4. Answer(a, turn) \in Spoken
  BY AnswersAreTexts DEF Joins
<1>5. Answer(a, turn) \o text = Answer(a, turn)
  BY <1>3, <1>4, SpokenJoin
<1>6. QED
  BY <1>2, <1>5

\* The last message of the turn grows.
LEMMA AnswerGrown ==
  ASSUME NEW a, Voiced(a), NEW turn, NEW k \in DOMAIN a, IsAnswer(a[k], turn),
         \A i \in DOMAIN a : i > k => ~IsAnswer(a[i], turn), NEW pieces \in Spoken,
         NEW b, IsList(b), DOMAIN b = DOMAIN a, \A i \in DOMAIN a \ {k} : b[i] = a[i],
         IsAnswer(b[k], turn), b[k].text = a[k].text \o pieces
  PROVE  /\ Voiced(b) /\ Answer(b, turn) = Answer(a, turn) \o pieces
         /\ \A other : other # turn => Answer(b, other) = Answer(a, other)
<1>1. PICK n \in Nat : n = Len(a)
  BY AnswersAreTexts
<1>2. DOMAIN a = 1..n /\ k \in 1..n
  BY <1>1, AnswersAreTexts
<1>3. a[k].text \in Spoken /\ b[k].text \in Spoken
  BY SpokenJoin DEF Voiced
<1>4. Voiced(b)
  BY <1>3 DEF Voiced
<1>5. ASSUME NEW other, other # turn PROVE Answer(b, other) = Answer(a, other)
  <2>1. ~IsAnswer(a[k], other) /\ ~IsAnswer(b[k], other)
    BY <1>5 DEF IsAnswer
  <2>2. Answers(b, other) = Answers(a, other)
    <3>1. ASSUME NEW i \in DOMAIN a
          PROVE  (IF IsAnswer(b[i], other) THEN b[i].text ELSE <<>>) = IF IsAnswer(a[i], other) THEN a[i].text ELSE <<>>
      <4>1. CASE i = k
        BY <2>1, <4>1
      <4>2. CASE i # k
        BY <4>2
      <4>3. QED
        BY <4>1, <4>2
    <3> HIDE DEF IsAnswer
    <3>2. QED
      BY <3>1 DEF Answers
  <2>3. QED
    BY <2>2 DEF Answer
<1>6. PICK list : list = Answers(a, turn)
  OBVIOUS
<1>7. list \in Seq(Spoken) /\ Len(list) = n
  BY <1>1, <1>6, AnswersAreTexts
<1>8. \A i \in 1..n : list[i] = IF IsAnswer(a[i], turn) THEN a[i].text ELSE <<>>
  BY <1>2, <1>6 DEF Answers
<1>9. list[k] = a[k].text /\ \A i \in 1..n : i > k => list[i] = <<>>
  BY <1>2, <1>8
<1>10. PICK longer : longer = [list EXCEPT ![k] = list[k] \o pieces]
  OBVIOUS
<1>11. longer \in Seq(Spoken) /\ FlattenSeq(longer) = FlattenSeq(list) \o pieces
  BY <1>2, <1>7, <1>9, <1>10, SaidLonger
<1>12. list[k] \o pieces \in Spoken
  BY <1>3, <1>9
<1>13. Len(longer) = n /\ \A i \in 1..n : longer[i] = IF i = k THEN list[k] \o pieces ELSE list[i]
  <2>1. list \in [1..n -> Spoken]
    BY <1>7
  <2>2. longer \in [1..n -> Spoken] /\ \A i \in 1..n : longer[i] = IF i = k THEN list[k] \o pieces ELSE list[i]
    BY <1>10, <1>12, <2>1
  <2>3. QED
    BY <1>11, <2>2
<1>14. PICK said : said = Answers(b, turn)
  OBVIOUS
<1>15. said \in Seq(Spoken) /\ Len(said) = n
  <2>1. said \in Seq(Spoken) /\ Len(said) = Len(b) /\ Len(b) \in Nat /\ 1..n = 1..Len(b)
    BY <1>2, <1>4, <1>14, AnswersAreTexts
  <2>2. QED
    BY <2>1
<1>16. ASSUME NEW i \in 1..n PROVE said[i] = longer[i]
  <2>1. said[i] = IF IsAnswer(b[i], turn) THEN b[i].text ELSE <<>>
    BY <1>2, <1>14 DEF Answers
  <2>2. CASE i = k
    BY <1>9, <1>13, <2>1, <2>2
  <2>3. CASE i # k
    BY <1>2, <1>8, <1>13, <2>1, <2>3
  <2>4. QED
    BY <2>2, <2>3
<1>17. said = longer
  BY <1>11, <1>13, <1>15, <1>16, SameTexts
<1>18. Answer(b, turn) = Answer(a, turn) \o pieces
  BY <1>6, <1>11, <1>14, <1>17 DEF Answer
<1>19. QED
  BY <1>4, <1>5, <1>18

\* A turn nobody spoke in.
LEMMA TurnIsSilent ==
  ASSUME NEW msgs, Voiced(msgs), NEW turn, \A i \in DOMAIN msgs : ~IsAnswer(msgs[i], turn)
  PROVE  Answer(msgs, turn) = <<>>
<1>1. PICK list : list = Answers(msgs, turn)
  OBVIOUS
<1>2. list \in Seq(Spoken) /\ 1..Len(list) = DOMAIN msgs
  BY <1>1, AnswersAreTexts
<1>3. \A i \in 1..Len(list) : list[i] = <<>>
  BY <1>1, <1>2 DEF Answers
<1>4. QED
  BY <1>1, <1>2, <1>3, NothingSaid DEF Answer

\* A text that begins with another is that one and the rest of it.
LEMMA PrefixAndRest ==
  ASSUME NEW s \in Spoken, NEW t \in Spoken, IsPrefix(s, t)
  PROVE  SubSeq(t, Len(s) + 1, Len(t)) \in Spoken /\ s \o SubSeq(t, Len(s) + 1, Len(t)) = t
<1>1. PICK m \in Nat, n \in Nat : m = Len(s) /\ n = Len(t)
  BY DEF Spoken
<1>2. m <= n /\ SubSeq(s, 1, m) = SubSeq(t, 1, m)
  BY <1>1 DEF IsPrefix
<1>3. PICK rest : rest = SubSeq(t, m + 1, n)
  OBVIOUS
<1>4. rest \in Spoken
  <2>1. \A i \in m + 1..n : t[i] \in Nat
    BY <1>1 DEF Spoken
  <2>2. rest \in Seq(Nat)
    BY <1>1, <1>3, <2>1, SubSeqProperties
  <2>3. QED
    BY <2>2 DEF Spoken
<1>5. s = SubSeq(t, 1, m) /\ t = SubSeq(t, 1, n)
  <2>1. s = SubSeq(s, 1, m) /\ t = SubSeq(t, 1, n)
    BY <1>1, SubSeqFull DEF Spoken
  <2>2. QED
    BY <1>2, <2>1
<1>6. SubSeq(t, 1, m) \o SubSeq(t, m + 1, n) = SubSeq(t, 1, n)
  <2>1. 1 \in 1..n + 1 /\ m \in 1 - 1..n /\ n \in m..n
    BY <1>2
  <2>2. QED
    BY <1>1, <2>1, ConcatAdjacentSubSeq DEF Spoken
<1>7. QED
  BY <1>1, <1>3, <1>4, <1>5, <1>6

-----------------------------------------------------------------------------
(* What each event does to the answers.                                    *)

\* The assistant's message that the open turn goes on with is the last of the turn.
AnswersLast(c) ==
  c.open.answer # 0 =>
    /\ IsAnswer(c.messages[c.open.answer], c.open.turn)
    /\ \A i \in DOMAIN c.messages : i > c.open.answer => ~IsAnswer(c.messages[i], c.open.turn)

ChatSpells(c) ==
  /\ ChatSound(c) /\ Voiced(c.messages) /\ c.open.streamed \in Spoken
  /\ AnswersLast(c)
  /\ c.open # NoTurn => c.messages[c.open.card].kind = "card"

\* b has the cards of a.
CardsOf(a, b) ==
  \A i \in DOMAIN b : b[i].kind = "card" =>
    i \in DOMAIN a /\ a[i].kind = "card" /\ a[i].turn = b[i].turn /\ a[i].card = b[i].card

\* d is c after a step in its open turn that adds the pieces to what was said.
Adds(c, d, pieces) ==
  /\ ChatSpells(d) /\ d.turns = c.turns /\ d.open.turn = c.open.turn /\ (d.open = NoTurn <=> c.open = NoTurn)
  /\ CardsOf(c.messages, d.messages)
  /\ \A turn : turn # c.open.turn => Answer(d.messages, turn) = Answer(c.messages, turn)
  /\ Answer(d.messages, c.open.turn) = Answer(c.messages, c.open.turn) \o pieces

LEMMA SpellsFacts ==
  ASSUME NEW c, ChatSpells(c)
  PROVE  /\ IsList(c.messages) /\ \A i \in DOMAIN c.messages : IsMessage(c.messages[i])
         /\ c = [messages |-> c.messages, open |-> c.open, turns |-> c.turns]
         /\ c.open.turn \in Nat /\ c.turns \in Nat
         /\ (c.open.turn = 0 <=> c.open = NoTurn) /\ NoTurn.turn = 0 /\ NoTurn.answer = 0 /\ NoTurn.streamed = <<>>
         /\ \A turn : Answer(c.messages, turn) \in Spoken
  <1>1. NoTurn.turn = 0 /\ NoTurn.answer = 0 /\ NoTurn.streamed = <<>>
    BY DEF NoTurn
  <1>2. c.open.turn = 0 <=> c.open = NoTurn
    BY <1>1 DEF ChatSpells, ChatSound, ChatTyped, OpenTurn
  <1>3. \A turn : Answer(c.messages, turn) \in Spoken
    BY AnswersAreTexts DEF ChatSpells
  <1>4. QED
    BY <1>1, <1>2, <1>3 DEF ChatSpells, ChatSound, ChatTyped

\* Nothing is added where kinds, turns, texts and cards stay.
LEMMA NothingAdded ==
  ASSUME NEW c, ChatSpells(c), NEW d, ChatSound(d), d.open = c.open, d.turns = c.turns,
         Alike(c.messages, d.messages)
  PROVE  ChatSpells(d) /\ \A turn : Answer(d.messages, turn) = Answer(c.messages, turn)
<1> USE DEF Alike
<1>1. \A turn : Answer(d.messages, turn) = Answer(c.messages, turn)
  <2> HIDE DEF Alike
  <2>1. QED
    BY AnswerKept
<1>2. Voiced(d.messages)
  BY DEF ChatSpells, ChatSound, ChatTyped, Voiced
<1>3. AnswersLast(d)
  <2>1. c.open.answer # 0 => c.open.answer \in DOMAIN c.messages
    BY DEF ChatSpells, ChatSound, ChatTyped
  <2>2. QED
    BY <2>1 DEF ChatSpells, AnswersLast, IsAnswer
<1>4. d.open # NoTurn => d.messages[d.open.card].kind = "card"
  <2>1. c.open # NoTurn => c.open.card \in DOMAIN c.messages
    BY DEF ChatSpells, ChatSound, OpenTurn
  <2>2. QED
    BY <2>1 DEF ChatSpells
<1>5. QED
  BY <1>1, <1>2, <1>3, <1>4 DEF ChatSpells

\* A text goes to the assistant's message, or to one of its own.
LEMMA ShownAdds ==
  ASSUME NEW c, ChatSpells(c), c.open # NoTurn, NEW pieces \in Spoken, NEW d, d = Shown(c, pieces)
  PROVE  Adds(c, d, pieces) /\ d.open.streamed = c.open.streamed
<1>0. /\ ChatSound(c) /\ ChatSound(d) /\ d.open.turn = c.open.turn /\ d.open # NoTurn
      /\ c.open.turn # 0 /\ Answer(c.messages, c.open.turn) \in Spoken
  BY ShownSound, SpellsFacts DEF ChatSpells
<1>1. CASE pieces = <<>>
  <2>1. d = c
    BY <1>1 DEF Shown
  <2>2. Answer(c.messages, c.open.turn) = Answer(c.messages, c.open.turn) \o pieces
    BY <1>0, <1>1, SpokenJoin
  <2>3. QED
    BY <2>1, <2>2 DEF Adds, CardsOf
<1>2. CASE pieces # <<>> /\ c.open.answer # 0
  <2>1. PICK k : k = c.open.answer
    OBVIOUS
  <2>2. /\ k \in DOMAIN c.messages /\ IsAnswer(c.messages[k], c.open.turn)
        /\ \A i \in DOMAIN c.messages : i > k => ~IsAnswer(c.messages[i], c.open.turn)
    BY <1>0, <1>2, <2>1 DEF ChatSpells, ChatSound, ChatTyped, AnswersLast
  <2>3. PICK m : m = c.messages[k]
    OBVIOUS
  <2>4. IsMessage(m)
    BY <2>2, <2>3, SpellsFacts
  <2>5. PICK text : text = m.text \o pieces
    OBVIOUS
  <2>6. PICK x : x = [m EXCEPT !.text = text]
    OBVIOUS
  <2>7. /\ IsMessage(x) /\ x.turn = m.turn /\ x.kind = m.kind /\ x.card = m.card /\ x.state = m.state
        /\ x.text = text
    BY <2>4, <2>6, TextChanged
  <2>8. d = [c EXCEPT !.messages[k] = x]
    BY <1>2, <2>1, <2>3, <2>5, <2>6 DEF Shown
  <2>9. x.turn # c.open.turn => AtRest(x)
    BY <1>0, <2>2, <2>3, <2>7 DEF ChatSound, Resting, AtRest
  <2>10. /\ d.open = c.open /\ d.turns = c.turns /\ DOMAIN d.messages = DOMAIN c.messages
         /\ d.messages[k] = x /\ \A i \in DOMAIN c.messages \ {k} : d.messages[i] = c.messages[i]
    BY <1>0, <2>2, <2>3, <2>7, <2>8, <2>9, ChangedSound
  <2>11. IsList(d.messages)
    BY <1>0 DEF ChatSound, ChatTyped
  <2>12. IsAnswer(x, c.open.turn)
    BY <2>2, <2>3, <2>7 DEF IsAnswer
  <2>13. PICK a, b, turn : a = c.messages /\ b = d.messages /\ turn = c.open.turn
    OBVIOUS
  <2>14. /\ Voiced(b) /\ Answer(b, turn) = Answer(a, turn) \o pieces
         /\ \A other : other # turn => Answer(b, other) = Answer(a, other)
    <3>1. /\ Voiced(a) /\ IsAnswer(a[k], turn) /\ \A i \in DOMAIN a : i > k => ~IsAnswer(a[i], turn)
          /\ IsList(b) /\ DOMAIN b = DOMAIN a /\ \A i \in DOMAIN a \ {k} : b[i] = a[i]
          /\ IsAnswer(b[k], turn) /\ b[k].text = a[k].text \o pieces /\ k \in DOMAIN a
      BY <2>2, <2>3, <2>5, <2>7, <2>10, <2>11, <2>12, <2>13 DEF ChatSpells
    <3>2. QED
      BY <3>1, AnswerGrown
  <2>15. ASSUME NEW i \in DOMAIN d.messages
         PROVE  /\ d.messages[i].kind = c.messages[i].kind /\ d.messages[i].turn = c.messages[i].turn
                /\ d.messages[i].card = c.messages[i].card
    BY <2>3, <2>7, <2>10
  <2>16. CardsOf(c.messages, d.messages)
    BY <2>10, <2>15 DEF CardsOf
  <2>17. AnswersLast(d)
    BY <2>1, <2>2, <2>10, <2>12, <2>15 DEF AnswersLast, IsAnswer
  <2>18. d.messages[d.open.card].kind = "card"
    <3>1. c.open.card \in DOMAIN c.messages /\ c.messages[c.open.card].kind = "card"
      BY <1>0 DEF ChatSpells, ChatSound, OpenTurn
    <3>2. QED
      BY <2>10, <2>15, <3>1
  <2>19. ChatSpells(d)
    BY <1>0, <2>10, <2>13, <2>14, <2>17, <2>18 DEF ChatSpells
  <2>20. QED
    BY <1>0, <2>10, <2>13, <2>14, <2>16, <2>19 DEF Adds
<1>3. CASE pieces # <<>> /\ c.open.answer = 0
  <2>1. PICK m : m = [Message("assistant", c.open.turn) EXCEPT !.text = pieces]
    OBVIOUS
  <2>2. m.kind = "assistant" /\ m.turn = c.open.turn /\ m.text = pieces /\ IsMessage(m)
    <3>1. PICK e : e = Message("assistant", c.open.turn)
      OBVIOUS
    <3>2. IsMessage(e) /\ e.kind = "assistant" /\ e.turn = c.open.turn
      BY <3>1, NewCard DEF Message
    <3>3. QED
      BY <2>1, <3>1, <3>2, TextChanged
  <2>3. PICK n : n = Len(c.messages)
    OBVIOUS
  <2>4. PICK pushed : pushed = Push(c, m)
    OBVIOUS
  <2>5. /\ pushed.open = c.open /\ pushed.turns = c.turns
        /\ n \in Nat /\ DOMAIN c.messages = 1..n /\ DOMAIN pushed.messages = 1..n + 1
        /\ pushed.messages[n + 1] = m
        /\ \A i \in 1..n : pushed.messages[i] = c.messages[i]
        /\ pushed = [messages |-> pushed.messages, open |-> pushed.open, turns |-> pushed.turns]
    BY <1>0, <2>2, <2>3, <2>4, PushTyped DEF ChatSound, ChatTyped
  <2>6. pushed.messages = Append(c.messages, m)
    BY <1>0, <2>4 DEF Push, ChatSound, ChatTyped
  <2>7. PICK o : o = [c.open EXCEPT !.answer = n + 1]
    OBVIOUS
  <2>8. o = [turn |-> c.open.turn, role |-> c.open.role, card |-> c.open.card, answer |-> n + 1,
             streamed |-> c.open.streamed]
    BY <1>0, <2>7 DEF ChatSound, ChatTyped, IsOpen
  <2>9. d = [pushed EXCEPT !.open = o]
    BY <1>3, <2>1, <2>3, <2>4, <2>5, <2>7 DEF Shown
  <2>10. /\ d.messages = pushed.messages /\ d.open = o /\ d.turns = c.turns
         /\ o.turn = c.open.turn /\ o.card = c.open.card /\ o.answer = n + 1 /\ o.streamed = c.open.streamed
    <3>1. d = [messages |-> pushed.messages, open |-> o, turns |-> pushed.turns]
      BY <2>5, <2>9
    <3>2. d.messages = pushed.messages /\ d.open = o /\ d.turns = c.turns
      BY <2>5, <3>1
    <3>3. QED
      BY <2>8, <3>2
  <2>11. PICK a, b, turn : a = c.messages /\ b = d.messages /\ turn = c.open.turn
    OBVIOUS
  <2>12. Joins(a, m, b)
    BY <2>2, <2>6, <2>10, <2>11 DEF ChatSpells, Joins
  <2>13. Voiced(b) /\ Answer(b, turn) = Answer(a, turn) \o pieces
    <3>1. IsAnswer(m, turn)
      BY <2>2, <2>11 DEF IsAnswer
    <3>2. QED
      BY <2>2, <2>12, <3>1, AnswerAdded
  <2>14. ASSUME NEW other, other # turn PROVE Answer(b, other) = Answer(a, other)
    <3>1. IsAside(m, other)
      BY <2>2, <2>11, <2>14 DEF IsAnswer, IsAside
    <3>2. QED
      BY <2>12, <3>1, AnswerAside
  <2>15. \A i \in 1..n + 1 : i \in 1..n \/ i = n + 1
    BY <2>5
  <2>16. CardsOf(c.messages, d.messages)
    BY <2>2, <2>5, <2>10, <2>15 DEF CardsOf
  <2>17. AnswersLast(d)
    <3>1. d.messages[n + 1] = m /\ DOMAIN d.messages = 1..n + 1 /\ d.open.answer = n + 1 /\ d.open.turn = c.open.turn
      BY <2>5, <2>10
    <3>2. \A i \in 1..n + 1 : ~(i > n + 1)
      BY <2>5
    <3>3. IsAnswer(m, c.open.turn)
      BY <2>2 DEF IsAnswer
    <3>4. QED
      BY <3>1, <3>2, <3>3 DEF AnswersLast
  <2>18. d.messages[d.open.card].kind = "card"
    <3>1. c.open.card \in 1..n /\ c.messages[c.open.card].kind = "card"
      BY <1>0, <2>5 DEF ChatSpells, ChatSound, OpenTurn
    <3>2. QED
      BY <2>5, <2>10, <3>1
  <2>19. ChatSpells(d)
    BY <1>0, <2>10, <2>11, <2>13, <2>17, <2>18 DEF ChatSpells
  <2>20. QED
    BY <1>0, <2>10, <2>11, <2>13, <2>14, <2>16, <2>19 DEF Adds
<1>4. QED
  BY <1>1, <1>2, <1>3

\* A piece of the answer is streamed.
LEMMA StreamedAdds ==
  ASSUME NEW c, ChatSpells(c), c.open # NoTurn, NEW piece \in Nat, NEW d, d = Streamed(c, piece)
  PROVE  Adds(c, d, <<piece>>) /\ d.open.streamed = c.open.streamed \o <<piece>>
<1>1. PICK pieces : pieces = <<piece>>
  OBVIOUS
<1>2. pieces \in Spoken
  BY <1>1 DEF Spoken
<1>3. PICK s : s = Shown(c, pieces)
  OBVIOUS
<1>4. Adds(c, s, pieces) /\ s.open.streamed = c.open.streamed
  BY <1>2, <1>3, ShownAdds
<1>5. PICK p : p = s.open
  OBVIOUS
<1>6. PICK streamed : streamed = Append(p.streamed, piece)
  OBVIOUS
<1>7. streamed \in Spoken /\ streamed = c.open.streamed \o pieces
  <2>1. p.streamed = c.open.streamed /\ p.streamed \in Seq(Nat)
    BY <1>4, <1>5 DEF Adds, ChatSpells, Spoken
  <2>2. streamed = p.streamed \o <<piece>> /\ streamed \in Seq(Nat)
    BY <1>6, <2>1
  <2>3. QED
    BY <1>1, <2>1, <2>2 DEF Spoken
<1>8. PICK o : o = [p EXCEPT !.streamed = streamed]
  OBVIOUS
<1>9. d = [s EXCEPT !.open = o]
  BY <1>1, <1>3, <1>5, <1>6, <1>8 DEF Streamed
<1>10. IsOpen(p) /\ s = [messages |-> s.messages, open |-> s.open, turns |-> s.turns] /\ ChatSound(d)
  BY <1>4, <1>5, StreamedSound DEF Adds, ChatSpells, ChatSound, ChatTyped
<1>11. o = [turn |-> p.turn, role |-> p.role, card |-> p.card, answer |-> p.answer, streamed |-> streamed]
  BY <1>8, <1>10 DEF IsOpen
<1>12. d = [messages |-> s.messages, open |-> o, turns |-> s.turns]
  BY <1>9, <1>10
<1>13. /\ d.messages = s.messages /\ d.open = o /\ d.turns = s.turns
       /\ o.turn = p.turn /\ o.card = p.card /\ o.answer = p.answer /\ o.streamed = streamed
  BY <1>11, <1>12
<1>14. o # NoTurn /\ p # NoTurn
  <2>1. p.turn # 0
    BY <1>4, <1>5, SpellsFacts DEF Adds
  <2>2. QED
    BY <1>13, <2>1, SpellsFacts
<1>15. ChatSpells(d)
  BY <1>4, <1>5, <1>7, <1>10, <1>13, <1>14 DEF Adds, ChatSpells, AnswersLast
<1>16. QED
  BY <1>1, <1>4, <1>5, <1>7, <1>13, <1>14, <1>15 DEF Adds

\* A question, an error: a message that is no answer and no card.
LEMMA AsideAdds ==
  ASSUME NEW c, ChatSpells(c), NEW m, IsMessage(m), m.kind \notin {"assistant", "card"}, m.text = <<>>,
         NEW d, d = Push(c, m), ChatSound(d)
  PROVE  Adds(c, d, <<>>) /\ d.open = c.open
<1>1. PICK n : n = Len(c.messages)
  OBVIOUS
<1>2. /\ d.open = c.open /\ d.turns = c.turns
      /\ n \in Nat /\ DOMAIN c.messages = 1..n /\ DOMAIN d.messages = 1..n + 1
      /\ d.messages[n + 1] = m
      /\ \A i \in 1..n : d.messages[i] = c.messages[i]
  BY <1>1, PushTyped DEF ChatSpells, ChatSound
<1>3. d.messages = Append(c.messages, m)
  BY DEF Push, ChatSpells, ChatSound, ChatTyped
<1>4. \A turn : IsAside(m, turn)
  BY DEF IsAnswer, IsAside
<1>5. \A i \in 1..n + 1 : i \in 1..n \/ i = n + 1
  BY <1>2
<1>6. PICK a, b : a = c.messages /\ b = d.messages
  OBVIOUS
<1>7. Joins(a, m, b)
  BY <1>3, <1>6, SpokenJoin DEF ChatSpells, Joins
<1>8. ASSUME NEW turn PROVE Voiced(b) /\ Answer(b, turn) = Answer(a, turn)
  BY <1>4, <1>7, AnswerAside
<1>9. CardsOf(c.messages, d.messages)
  BY <1>2, <1>5 DEF CardsOf
<1>10. AnswersLast(d)
  <2>1. c.open.answer # 0 => c.open.answer \in 1..n
    BY <1>2 DEF ChatSpells, ChatSound, ChatTyped
  <2>2. QED
    BY <1>2, <1>4, <1>5, <2>1 DEF ChatSpells, AnswersLast, IsAside
<1>11. d.open # NoTurn => d.messages[d.open.card].kind = "card"
  <2>1. c.open # NoTurn => c.open.card \in 1..n
    BY <1>2 DEF ChatSpells, ChatSound, OpenTurn
  <2>2. QED
    BY <1>2, <2>1 DEF ChatSpells
<1>12. ChatSpells(d)
  BY <1>2, <1>6, <1>8, <1>10, <1>11 DEF ChatSpells
<1>13. Answer(c.messages, c.open.turn) = Answer(c.messages, c.open.turn) \o <<>>
  BY SpellsFacts, SpokenJoin
<1>14. QED
  BY <1>2, <1>6, <1>8, <1>9, <1>12, <1>13 DEF Adds

LEMMA AskedAdds ==
  ASSUME NEW c, ChatSpells(c), c.open # NoTurn, NEW state, NEW d, d = Asked(c, state)
  PROVE  Adds(c, d, <<>>) /\ d.open.streamed = c.open.streamed
<1>1. PICK m : m = [Message("question", c.open.turn) EXCEPT !.state = state]
  OBVIOUS
<1>2. m.kind = "question" /\ m.turn = c.open.turn /\ m.text = <<>> /\ IsMessage(m)
  <2>1. PICK e : e = Message("question", c.open.turn)
    OBVIOUS
  <2>2. IsMessage(e) /\ e.kind = "question" /\ e.turn = c.open.turn /\ e.text = <<>>
    BY <2>1, NewCard DEF Message
  <2>3. QED
    BY <1>1, <2>1, <2>2, StateChanged
<1>3. PICK s : s = Push(c, m)
  OBVIOUS
<1>4. m.turn \in 1..c.turns
  BY <1>2 DEF ChatSpells, ChatSound, ChatTyped, OpenTurn
<1>5. ChatSound(s)
  BY <1>2, <1>3, <1>4, PushSound DEF ChatSpells
<1>6. Adds(c, s, <<>>) /\ s.open = c.open
  <2>1. m.kind \notin {"assistant", "card"}
    BY <1>2
  <2>2. QED
    BY <1>2, <1>3, <1>5, <2>1, AsideAdds
<1>7. PICK p : p = c.open
  OBVIOUS
<1>8. PICK o : o = [p EXCEPT !.answer = 0]
  OBVIOUS
<1>9. d = [s EXCEPT !.open = o]
  BY <1>1, <1>3, <1>6, <1>7, <1>8 DEF Asked
<1>10. IsOpen(p) /\ s = [messages |-> s.messages, open |-> s.open, turns |-> s.turns] /\ ChatSound(d)
  BY <1>5, <1>7, AskedSound DEF ChatSpells, ChatSound, ChatTyped
<1>11. o = [turn |-> p.turn, role |-> p.role, card |-> p.card, answer |-> 0, streamed |-> p.streamed]
  BY <1>8, <1>10 DEF IsOpen
<1>12. d = [messages |-> s.messages, open |-> o, turns |-> s.turns]
  BY <1>9, <1>10
<1>13. /\ d.messages = s.messages /\ d.open = o /\ d.turns = s.turns
       /\ o.turn = p.turn /\ o.card = p.card /\ o.answer = 0 /\ o.streamed = p.streamed
  BY <1>11, <1>12
<1>14. o # NoTurn /\ p # NoTurn
  <2>1. p.turn # 0
    BY <1>7, SpellsFacts
  <2>2. QED
    BY <1>7, <1>13, <2>1, SpellsFacts
<1>15. ChatSpells(d)
  BY <1>6, <1>7, <1>10, <1>13, <1>14 DEF Adds, ChatSpells, AnswersLast
<1>16. QED
  BY <1>6, <1>7, <1>13, <1>14, <1>15 DEF Adds

\* A question that is answered.
LEMMA RepliedAdds ==
  ASSUME NEW c, ChatSpells(c), NEW k \in DOMAIN c.messages, NEW d, d = Replied(c, k)
  PROVE  Adds(c, d, <<>>) /\ d.open = c.open
<1>1. PICK m : m = c.messages[k]
  OBVIOUS
<1>2. IsMessage(m)
  BY <1>1, SpellsFacts
<1>3. PICK x : x = [m EXCEPT !.state = "answered"]
  OBVIOUS
<1>4. /\ IsMessage(x) /\ x.turn = m.turn /\ x.kind = m.kind /\ x.text = m.text /\ x.card = m.card
      /\ x.state = "answered"
  BY <1>2, <1>3, StateChanged
<1>5. d = [c EXCEPT !.messages[k] = x]
  BY <1>1, <1>3 DEF Replied
<1>6. x.turn # c.open.turn => AtRest(x)
  BY <1>1, <1>4 DEF ChatSpells, ChatSound, Resting, AtRest
<1>7. /\ ChatSound(d) /\ d.open = c.open /\ d.turns = c.turns /\ DOMAIN d.messages = DOMAIN c.messages
      /\ d.messages[k] = x /\ \A i \in DOMAIN c.messages \ {k} : d.messages[i] = c.messages[i]
  BY <1>1, <1>4, <1>5, <1>6, ChangedSound DEF ChatSpells
<1>8. ASSUME NEW i \in DOMAIN c.messages
      PROVE  /\ d.messages[i].kind = c.messages[i].kind /\ d.messages[i].turn = c.messages[i].turn
             /\ d.messages[i].text = c.messages[i].text /\ d.messages[i].card = c.messages[i].card
  BY <1>1, <1>4, <1>7
<1>9. ChatSpells(d) /\ \A turn : Answer(d.messages, turn) = Answer(c.messages, turn)
  <2>1. Alike(c.messages, d.messages)
    BY <1>7, <1>8 DEF Alike
  <2>2. QED
    BY <1>7, <2>1, NothingAdded
<1>10. CardsOf(c.messages, d.messages)
  BY <1>7, <1>8 DEF CardsOf
<1>11. Answer(c.messages, c.open.turn) = Answer(c.messages, c.open.turn) \o <<>>
  BY SpellsFacts, SpokenJoin
<1>12. QED
  BY <1>7, <1>9, <1>10, <1>11 DEF Adds

\* The card of the open turn changes, and nothing that was said.
Recarded(c, card, d) == d = [c EXCEPT !.messages[c.open.card] = [c.messages[c.open.card] EXCEPT !.card = card]]
OnlyCard(c, card, d) ==
  /\ ChatSpells(d) /\ d.open = c.open /\ d.turns = c.turns /\ DOMAIN d.messages = DOMAIN c.messages
  /\ \A turn : Answer(d.messages, turn) = Answer(c.messages, turn)
  /\ c.open.card \in DOMAIN c.messages /\ d.messages[c.open.card].card = card
  /\ \A i \in DOMAIN c.messages :
       /\ d.messages[i].kind = c.messages[i].kind /\ d.messages[i].turn = c.messages[i].turn
       /\ d.messages[i].text = c.messages[i].text
       /\ i # c.open.card => d.messages[i].card = c.messages[i].card

LEMMA CardReplaced ==
  ASSUME NEW c, ChatSpells(c), c.open # NoTurn, NEW card, IsCard(card), NEW d, Recarded(c, card, d)
  PROVE  OnlyCard(c, card, d)
<1>1. PICK k : k = c.open.card
  OBVIOUS
<1>2. k \in DOMAIN c.messages /\ c.messages[k].turn = c.open.turn
  BY <1>1 DEF ChatSpells, ChatSound, OpenTurn
<1>3. PICK m : m = c.messages[k]
  OBVIOUS
<1>4. IsMessage(m)
  BY <1>2, <1>3, SpellsFacts
<1>5. PICK x : x = [m EXCEPT !.card = card]
  OBVIOUS
<1>7. d = [c EXCEPT !.messages[k] = x]
  BY <1>1, <1>3, <1>5 DEF Recarded
<1>6. IsMessage(x) /\ x.turn = m.turn /\ x.kind = m.kind /\ x.text = m.text /\ x.card = card
  BY <1>4, <1>5, CardChanged
<1>8. ChatSound(c) /\ x.turn = c.messages[k].turn /\ x.kind = c.messages[k].kind /\ (x.turn # c.open.turn => AtRest(x))
  BY <1>2, <1>3, <1>6 DEF ChatSpells
<1>9. /\ ChatSound(d) /\ d.open = c.open /\ d.turns = c.turns /\ DOMAIN d.messages = DOMAIN c.messages
      /\ d.messages[k] = x /\ \A i \in DOMAIN c.messages \ {k} : d.messages[i] = c.messages[i]
  BY <1>2, <1>6, <1>7, <1>8, ChangedSound
<1>10. ASSUME NEW i \in DOMAIN c.messages
       PROVE  /\ d.messages[i].kind = c.messages[i].kind /\ d.messages[i].turn = c.messages[i].turn
              /\ d.messages[i].text = c.messages[i].text
              /\ i # k => d.messages[i].card = c.messages[i].card
  BY <1>3, <1>6, <1>9
<1>11. ChatSpells(d) /\ \A turn : Answer(d.messages, turn) = Answer(c.messages, turn)
  <2>1. Alike(c.messages, d.messages)
    BY <1>9, <1>10 DEF Alike
  <2>2. QED
    BY <1>9, <2>1, NothingAdded
<1>12. QED
  BY <1>1, <1>2, <1>6, <1>9, <1>10, <1>11 DEF OnlyCard

\* The end of the turn.
LEMMA EndedKeeps ==
  ASSUME NEW c, ChatSpells(c), c.open # NoTurn, NEW status \in {"completed", "failed", "interrupted"},
         NEW d, d = Ended(c, status)
  PROVE  /\ ChatSpells(d) /\ d.turns = c.turns /\ d.open = NoTurn
         /\ \A turn : Answer(d.messages, turn) = Answer(c.messages, turn)
         /\ \A i \in DOMAIN d.messages : d.messages[i].kind = "card" =>
              /\ i \in DOMAIN c.messages /\ c.messages[i].kind = "card"
              /\ c.messages[i].turn = d.messages[i].turn
              /\ d.messages[i].card \in {c.messages[i].card, WithStatus(c.messages[i].card, status)}
<1>1. PICK k : k = c.open.card
  OBVIOUS
<1>2. PICK card : card = WithStatus(c.messages[k].card, status)
  OBVIOUS
<1>3. IsCard(card)
  <2>1. k \in DOMAIN c.messages
    BY <1>1 DEF ChatSpells, ChatSound, OpenTurn
  <2>2. IsCard(c.messages[k].card)
    BY <2>1, SpellsFacts DEF IsMessage
  <2>3. QED
    BY <1>2, <2>2, StatusRests
<1>3a. PICK new : new = [c.messages[k] EXCEPT !.card = card]
  OBVIOUS
<1>4. PICK rests : rests = [c EXCEPT !.messages[k] = new]
  OBVIOUS
<1>5. /\ ChatSpells(rests) /\ rests.open = c.open /\ rests.turns = c.turns
      /\ DOMAIN rests.messages = DOMAIN c.messages
      /\ \A turn : Answer(rests.messages, turn) = Answer(c.messages, turn)
      /\ rests.messages[k].card = card
      /\ \A i \in DOMAIN c.messages :
           /\ rests.messages[i].kind = c.messages[i].kind /\ rests.messages[i].turn = c.messages[i].turn
           /\ i # k => rests.messages[i].card = c.messages[i].card
  <2>1. Recarded(c, card, rests)
    BY <1>1, <1>4, <1>3a DEF Recarded
  <2>2. OnlyCard(c, card, rests)
    BY <1>3, <2>1, CardReplaced
  <2>3. QED
    BY <1>1, <2>2 DEF OnlyCard
<1>6. OnCard(c, LAMBDA x : WithStatus(x, status)) = rests
  BY <1>1, <1>2, <1>4, <1>3a DEF OnCard
<1>7. PICK msgs : msgs = [m \in DOMAIN rests.messages |->
                    IF rests.messages[m].state = "asked"
                      THEN [rests.messages[m] EXCEPT !.state = "expired"] ELSE rests.messages[m]]
  OBVIOUS
<1>8. PICK done : done = [rests EXCEPT !.open = NoTurn, !.messages = msgs]
  OBVIOUS
<1>9. done = [messages |-> msgs, open |-> NoTurn, turns |-> c.turns]
  <2>1. PICK m, o, t : m = rests.messages /\ o = rests.open /\ t = rests.turns
    OBVIOUS
  <2>2. rests = [messages |-> m, open |-> o, turns |-> t]
    BY <1>5, <2>1, SpellsFacts
  <2>3. done = [messages |-> msgs, open |-> NoTurn, turns |-> t]
    BY <1>8, <2>2, Remodelled
  <2>4. QED
    BY <1>5, <2>1, <2>3
<1>10. done.messages = msgs /\ done.open = NoTurn /\ done.turns = c.turns
  BY <1>9
<1>11. PICK e : e = Message("error", c.open.turn)
  OBVIOUS
<1>12. d = IF status = "failed" THEN Push(done, e) ELSE done
  BY <1>6, <1>7, <1>8, <1>11 DEF Ended
<1>13. ASSUME NEW m \in DOMAIN rests.messages
       PROVE  /\ IsMessage(msgs[m]) /\ msgs[m].kind = rests.messages[m].kind
              /\ msgs[m].turn = rests.messages[m].turn /\ msgs[m].text = rests.messages[m].text
              /\ msgs[m].card = rests.messages[m].card
  <2>1. PICK x : x = rests.messages[m]
    OBVIOUS
  <2>2. IsMessage(x)
    BY <1>5, <2>1, SpellsFacts
  <2>3. PICK y : y = [x EXCEPT !.state = "expired"]
    OBVIOUS
  <2>4. IsMessage(y) /\ y.kind = x.kind /\ y.turn = x.turn /\ y.text = x.text /\ y.card = x.card
    BY <2>2, <2>3, StateChanged
  <2>5. msgs[m] = x \/ msgs[m] = y
    BY <1>7, <2>1, <2>3
  <2>6. QED
    BY <2>1, <2>2, <2>4, <2>5
<1>14. DOMAIN msgs = DOMAIN rests.messages
  BY <1>7
<1>15. ChatSpells(done)
  <2>1. ChatSound(done)
    <3>1. Rested(c, status) = done
      BY <1>6, <1>7, <1>8 DEF Rested
    <3>2. QED
      BY <3>1, EndedSound DEF ChatSpells
  <2>2. Voiced(done.messages)
    BY <1>5, <1>10, <1>13, <1>14, <2>1 DEF ChatSpells, ChatSound, ChatTyped, Voiced
  <2>3. NoTurn.answer = 0 /\ NoTurn.streamed = <<>>
    BY DEF NoTurn
  <2>4. AnswersLast(done)
    BY <1>10, <2>3 DEF AnswersLast
  <2>5. QED
    BY <1>10, <2>1, <2>2, <2>3, <2>4, SpokenJoin DEF ChatSpells
<1>16. \A turn : Answer(done.messages, turn) = Answer(c.messages, turn)
  <2>1. \A turn : Answer(msgs, turn) = Answer(rests.messages, turn)
    <3>1. Alike(rests.messages, msgs)
      BY <1>13, <1>14 DEF Alike
    <3>2. QED
      BY <3>1, AnswerKept
  <2>2. QED
    BY <1>5, <1>10, <2>1
<1>17. ASSUME NEW i \in DOMAIN done.messages
       PROVE  /\ i \in DOMAIN c.messages /\ c.messages[i].kind = done.messages[i].kind
              /\ c.messages[i].turn = done.messages[i].turn
              /\ done.messages[i].card \in {c.messages[i].card, WithStatus(c.messages[i].card, status)}
  <2>1. i \in DOMAIN c.messages /\ i \in DOMAIN rests.messages /\ done.messages[i] = msgs[i]
    BY <1>5, <1>10, <1>14
  <2>2. CASE i = k
    BY <1>2, <1>5, <1>13, <2>1, <2>2
  <2>3. CASE i # k
    BY <1>5, <1>13, <2>1, <2>3
  <2>4. QED
    BY <2>2, <2>3
<1>18. CASE status # "failed"
  <2>1. d = done
    BY <1>12, <1>18
  <2>2. QED
    BY <1>10, <1>15, <1>16, <1>17, <2>1
<1>19. CASE status = "failed"
  <2>1. d = Push(done, e) /\ ChatSound(d)
    BY <1>12, <1>19, EndedSound DEF ChatSpells
  <2>2. IsMessage(e) /\ e.kind \notin {"assistant", "card"} /\ e.text = <<>>
    BY <1>11, NewCard DEF Message
  <2>3. Adds(done, d, <<>>) /\ d.open = done.open
    BY <1>15, <2>1, <2>2, AsideAdds
  <2>4. /\ ChatSpells(d) /\ d.turns = c.turns /\ d.open = NoTurn /\ CardsOf(done.messages, d.messages)
    BY <1>10, <2>3 DEF Adds
  <2>5. \A turn : Answer(d.messages, turn) = Answer(done.messages, turn)
    <3>1. Answer(done.messages, done.open.turn) \o <<>> = Answer(done.messages, done.open.turn)
      BY <1>15, SpellsFacts, SpokenJoin
    <3>2. QED
      BY <2>3, <3>1 DEF Adds
  <2>6. QED
    BY <1>16, <1>17, <2>4, <2>5 DEF CardsOf
<1>20. QED
  BY <1>18, <1>19

\* A turn begins: nothing is said in it yet, and its card is empty.
Opens(c, d) ==
  /\ ChatSpells(d) /\ d.turns = c.turns + 1 /\ d.open.turn = c.turns + 1 /\ d.open.streamed = <<>>
  /\ \A turn : Answer(d.messages, turn) = Answer(c.messages, turn)
  /\ Answer(d.messages, d.open.turn) = <<>>
  /\ \A i \in DOMAIN d.messages : d.messages[i].kind = "card" =>
       \/ /\ i \in DOMAIN c.messages /\ c.messages[i].kind = "card"
          /\ c.messages[i].turn = d.messages[i].turn /\ c.messages[i].card = d.messages[i].card
       \/ d.messages[i].turn = c.turns + 1 /\ d.messages[i].card = Card

LEMMA BegunAdds ==
  ASSUME NEW c, ChatSpells(c), c.open = NoTurn, NEW role, NEW d, d = Begun(c, role)
  PROVE  Opens(c, d)
<1>1. ChatSound(d) /\ \E n : NewlyBegun(c, d, n)
  BY BegunSound DEF ChatSpells
<1>2. PICK n : NewlyBegun(c, d, n)
  BY <1>1
<1>3. PICK u, e : u = Message("user", c.turns + 1) /\ e = Message("card", c.turns + 1)
  OBVIOUS
<1>4. /\ n \in Nat /\ DOMAIN c.messages = 1..n /\ DOMAIN d.messages = 1..n + 2
      /\ d.messages = Append(Append(c.messages, u), e)
      /\ d.messages[n + 1] = u /\ d.messages[n + 2] = e
      /\ \A i \in 1..n : d.messages[i] = c.messages[i]
      /\ d.turns = c.turns + 1 /\ d.open.turn = c.turns + 1 /\ d.open.card = n + 2
      /\ d.open.answer = 0 /\ d.open.streamed = <<>>
  BY <1>2, <1>3 DEF NewlyBegun
<1>5. /\ u.kind = "user" /\ u.turn = c.turns + 1 /\ u.text = <<>>
      /\ e.kind = "card" /\ e.turn = c.turns + 1 /\ e.text = <<>> /\ e.card = Card
  BY <1>3 DEF Message
<1>6. PICK mid : mid = Append(c.messages, u)
  OBVIOUS
<1>7. PICK a, b : a = c.messages /\ b = d.messages
  OBVIOUS
<1>8. Joins(a, u, mid)
  BY <1>5, <1>6, <1>7, SpokenJoin DEF Joins, ChatSpells
<1>9. ASSUME NEW turn PROVE Voiced(mid) /\ Answer(mid, turn) = Answer(a, turn)
  <2>1. IsAside(u, turn)
    BY <1>5 DEF IsAside, IsAnswer
  <2>2. QED
    BY <1>8, <2>1, AnswerAside
<1>10. Joins(mid, e, b)
  BY <1>4, <1>5, <1>6, <1>7, <1>9, SpokenJoin DEF Joins
<1>11. ASSUME NEW turn PROVE Voiced(b) /\ Answer(b, turn) = Answer(mid, turn)
  <2>1. IsAside(e, turn)
    BY <1>5 DEF IsAside, IsAnswer
  <2>2. QED
    BY <1>10, <2>1, AnswerAside
<1>12. \A i \in 1..n + 2 : i \in 1..n \/ i = n + 1 \/ i = n + 2
  BY <1>4
<1>13. ChatSpells(d)
  <2>1. AnswersLast(d)
    BY <1>4 DEF AnswersLast
  <2>2. QED
    BY <1>1, <1>4, <1>5, <1>7, <1>11, <2>1, SpokenJoin DEF ChatSpells
<1>14. Answer(a, c.turns + 1) = <<>>
  <2>1. c.turns \in Nat
    BY SpellsFacts
  <2>2. \A i \in DOMAIN a : a[i].turn # c.turns + 1
    BY <1>7, <2>1 DEF ChatSpells, ChatSound, Resting
  <2>3. \A i \in DOMAIN a : ~IsAnswer(a[i], c.turns + 1)
    BY <2>2 DEF IsAnswer
  <2>4. PICK turn : turn = c.turns + 1
    OBVIOUS
  <2>5. Voiced(a) /\ \A i \in DOMAIN a : ~IsAnswer(a[i], turn)
    BY <1>7, <2>3, <2>4 DEF ChatSpells
  <2>6. Answer(a, turn) = <<>>
    BY <2>5, TurnIsSilent
  <2>7. QED
    BY <2>4, <2>6
<1>15. \A turn : Answer(d.messages, turn) = Answer(c.messages, turn)
  BY <1>7, <1>9, <1>11
<1>16. Answer(d.messages, d.open.turn) = <<>>
  BY <1>4, <1>7, <1>14, <1>15
<1>17. ASSUME NEW i \in DOMAIN d.messages, d.messages[i].kind = "card"
       PROVE  \/ /\ i \in DOMAIN c.messages /\ c.messages[i].kind = "card"
                 /\ c.messages[i].turn = d.messages[i].turn /\ c.messages[i].card = d.messages[i].card
              \/ d.messages[i].turn = c.turns + 1 /\ d.messages[i].card = Card
  BY <1>4, <1>5, <1>12, <1>17
<1>18. QED
  BY <1>4, <1>13, <1>15, <1>16, <1>17 DEF Opens

-----------------------------------------------------------------------------
(* What is shown is what was heard.                                        *)

CardsTold(msgs, thoughts, n) ==
  \A i \in DOMAIN msgs : msgs[i].kind = "card" =>
    Carded(msgs[i].card, n) /\ FlattenSeq(Lines(msgs[i].card)) = thoughts[msgs[i].turn]

\* The answer goes from what was streamed to the end of the model's last message.
ResultTold(said, result) ==
  /\ IsPrefix(result.streamed, said) /\ IsSuffix(result.text, said)
  /\ ToSet(said) = ToSet(result.streamed) \cup ToSet(result.text)
  /\ IsInjective(said) \/ BeginsMidway(result)
ResultsTold(msgs, results) ==
  \A i \in DOMAIN results : ResultTold(Answer(msgs, results[i].turn), results[i])

Unfinished(c, results) == \A i \in DOMAIN results : results[i].turn # c.open.turn
HeardOf(c, h) ==
  /\ h = [thoughts |-> h.thoughts, results |-> h.results]
  /\ h.thoughts \in Seq(Spoken) /\ Len(h.thoughts) = c.turns
  /\ IsList(h.results) /\ \A i \in DOMAIN h.results : h.results[i].turn \in 1..c.turns

\* Pieces that came among the first n events, each once.
Fresh(s, n) == IsInjective(s) /\ \A i \in DOMAIN s : s[i] < n

\* c shows what h heard after n events; an answer without a result is what was streamed.
ChatTells(c, h, n) ==
  /\ ChatSpells(c) /\ n \in Nat /\ HeardOf(c, h) /\ Fresh(c.open.streamed, n)
  /\ CardsTold(c.messages, h.thoughts, n)
  /\ ResultsTold(c.messages, h.results)
  /\ c.open # NoTurn /\ Unfinished(c, h.results) => Answer(c.messages, c.open.turn) = c.open.streamed

\* Beginning and end of a text, piece by piece.
LEMMA PrefixIs ==
  ASSUME NEW s \in Spoken, NEW t \in Spoken
  PROVE  IsPrefix(s, t) <=> Len(s) <= Len(t) /\ \A i \in 1..Len(s) : s[i] = t[i]
<1>1. PICK m \in Nat, n \in Nat : m = Len(s) /\ n = Len(t)
  BY DEF Spoken
<1>2. ASSUME m <= n
      PROVE  SubSeq(s, 1, m) = SubSeq(t, 1, m) <=> \A i \in 1..m : s[i] = t[i]
  <2>1. PICK a, b : a = SubSeq(s, 1, m) /\ b = SubSeq(t, 1, m)
    OBVIOUS
  <2>2. /\ a \in Seq(Nat) /\ Len(a) = m /\ \A i \in 1..m : a[i] = s[i]
        /\ b \in Seq(Nat) /\ Len(b) = m /\ \A i \in 1..m : b[i] = t[i]
    BY <1>1, <1>2, <2>1 DEF Spoken
  <2>3. a = b <=> \A i \in 1..m : a[i] = b[i]
    BY <2>2, SeqEqual
  <2>4. QED
    BY <2>1, <2>2, <2>3
<1>3. QED
  BY <1>1, <1>2 DEF IsPrefix

LEMMA SuffixIs ==
  ASSUME NEW s \in Spoken, NEW t \in Spoken
  PROVE  IsSuffix(s, t) <=> Len(s) <= Len(t) /\ \A i \in 1..Len(s) : s[i] = t[Len(t) - Len(s) + i]
<1>1. PICK m \in Nat, n \in Nat : m = Len(s) /\ n = Len(t)
  BY DEF Spoken
<1>2. PICK a, b : a = Reverse(s) /\ b = Reverse(t)
  OBVIOUS
<1>3. /\ a \in Spoken /\ Len(a) = m /\ \A i \in 1..m : a[i] = s[m - i + 1]
      /\ b \in Spoken /\ Len(b) = n /\ \A i \in 1..n : b[i] = t[n - i + 1]
  <2>1. a = [i \in 1..m |-> s[m - i + 1]] /\ b = [i \in 1..n |-> t[n - i + 1]]
    BY <1>1, <1>2 DEF Reverse
  <2>2. (\A i \in 1..m : s[m - i + 1] \in Nat) /\ (\A i \in 1..n : t[n - i + 1] \in Nat)
    <3>1. s \in [1..m -> Nat] /\ t \in [1..n -> Nat]
      BY <1>1 DEF Spoken
    <3>2. (\A i \in 1..m : m - i + 1 \in 1..m) /\ \A i \in 1..n : n - i + 1 \in 1..n
      OBVIOUS
    <3>3. QED
      BY <3>1, <3>2
  <2>3. a \in Seq(Nat) /\ Len(a) = m /\ b \in Seq(Nat) /\ Len(b) = n
    BY <2>1, <2>2
  <2>4. QED
    BY <2>1, <2>3 DEF Spoken
<1>4. IsSuffix(s, t) <=> m <= n /\ \A i \in 1..m : a[i] = b[i]
  BY <1>2, <1>3, PrefixIs DEF IsSuffix
<1>5. ASSUME m <= n
      PROVE  (\A i \in 1..m : a[i] = b[i]) <=> \A i \in 1..m : s[i] = t[n - m + i]
  <2>1. ASSUME \A i \in 1..m : a[i] = b[i], NEW i \in 1..m PROVE s[i] = t[n - m + i]
    <3>1. PICK j : j = m - i + 1
      OBVIOUS
    <3>2. j \in 1..m /\ j \in 1..n /\ m - j + 1 = i /\ n - j + 1 = n - m + i
      BY <1>5, <3>1
    <3>3. QED
      BY <1>3, <2>1, <3>2
  <2>2. ASSUME \A i \in 1..m : s[i] = t[n - m + i], NEW i \in 1..m PROVE a[i] = b[i]
    <3>1. PICK j : j = m - i + 1
      OBVIOUS
    <3>2. j \in 1..m /\ i \in 1..n /\ n - m + j = n - i + 1
      BY <1>5, <3>1
    <3>3. QED
      BY <1>3, <2>2, <3>1, <3>2
  <2>3. QED
    BY <2>1, <2>2
<1>6. QED
  BY <1>1, <1>4, <1>5

LEMMA FreshFacts ==
  ASSUME NEW n \in Nat, NEW s \in Spoken, NEW one, one = <<n>>
  PROVE  /\ Fresh(<<>>, n)
         /\ Fresh(s, n) => Fresh(s, n + 1) /\ Fresh(s \o one, n + 1)
<1>1. Fresh(<<>>, n)
  BY DEF Fresh, IsInjective
<1>2. ASSUME Fresh(s, n) PROVE Fresh(s, n + 1) /\ Fresh(s \o one, n + 1)
  <2>1. PICK m \in Nat : m = Len(s)
    BY DEF Spoken
  <2>2. DOMAIN s = 1..m /\ \A i \in 1..m : s[i] \in Nat /\ s[i] < n
    BY <1>2, <2>1 DEF Spoken, Fresh
  <2>3. Fresh(s, n + 1)
    BY <1>2, <2>2 DEF Fresh
  <2>4. PICK t : t = s \o one
    OBVIOUS
  <2>5. DOMAIN t = 1..m + 1 /\ t[m + 1] = n /\ \A i \in 1..m : t[i] = s[i]
    BY <2>1, <2>4 DEF Spoken
  <2>6. IsInjective(t)
    <3>1. ASSUME NEW i \in 1..m + 1, NEW j \in 1..m + 1, t[i] = t[j] PROVE i = j
      <4>1. CASE i \in 1..m /\ j \in 1..m
        BY <1>2, <2>2, <2>5, <3>1, <4>1 DEF Fresh, IsInjective
      <4>2. CASE i = m + 1 \/ j = m + 1
        BY <2>2, <2>5, <3>1, <4>2
      <4>3. QED
        BY <4>1, <4>2
    <3>2. QED
      BY <2>5, <3>1 DEF IsInjective
  <2>7. \A i \in 1..m + 1 : t[i] < n + 1
    BY <2>2, <2>5
  <2>8. QED
    BY <2>3, <2>4, <2>5, <2>6, <2>7 DEF Fresh
<1>3. QED
  BY <1>1, <1>2

\* The model's last message as the journal has it: the end of what was streamed, from some
\* piece on, and possibly a piece that was not.
ComesAs(text, s, from, last, n) ==
  /\ s \in Spoken /\ text \in Spoken /\ n \in Nat /\ Fresh(s, n)
  /\ from \in 1..Len(s) + 1 /\ last \in {0, 1} /\ Len(text) = Len(s) + 1 - from + last
  /\ \A i \in 1..Len(s) + 1 - from : text[i] = s[from - 1 + i]
  /\ last = 1 => text[Len(text)] = n

LEMMA ComesSo ==
  ASSUME NEW s \in Spoken, NEW n \in Nat, Fresh(s, n), NEW from \in 1..Len(s) + 1, NEW rest \in {<<>>, <<n>>},
         NEW text, text = SubSeq(s, from, Len(s)) \o rest
  PROVE  \E last : ComesAs(text, s, from, last, n)
<1>1. PICK m \in Nat : m = Len(s)
  BY DEF Spoken
<1>2. PICK part : part = SubSeq(s, from, m)
  OBVIOUS
<1>3. part \in Seq(Nat) /\ Len(part) = m + 1 - from /\ \A i \in 1..m + 1 - from : part[i] = s[from - 1 + i]
  <2>1. \A i \in from..m : s[i] \in Nat
    BY <1>1 DEF Spoken
  <2>2. from \in Int /\ m \in Int /\ m + 1 - from \in Nat
    BY <1>1
  <2>3. part \in Seq(Nat)
    BY <1>2, <2>1, <2>2, SubSeqProperties
  <2>4. part = [i \in 1..m - from + 1 |-> s[from + i - 1]]
    BY <1>2
  <2>5. Len(part) = m + 1 - from
    BY <2>2, <2>3, <2>4
  <2>6. \A i \in 1..m + 1 - from : i \in 1..m - from + 1 /\ from + i - 1 = from - 1 + i
    BY <2>2
  <2>7. QED
    BY <2>3, <2>4, <2>5, <2>6
<1>4. CASE rest = <<>>
  <2>1. text = part
    BY <1>1, <1>2, <1>3, <1>4, ConcatEmptySeq
  <2>2. ComesAs(text, s, from, 0, n)
    BY <1>1, <1>3, <2>1 DEF ComesAs, Spoken
  <2>3. QED
    BY <2>2
<1>5. CASE rest = <<n>>
  <2>1. PICK k \in Nat : k = m + 1 - from
    <3>1. from \in 1..m + 1
      BY <1>1
    <3>2. m + 1 - from \in Nat
      BY <3>1
    <3>3. QED
      BY <3>2
  <2>2. text \in Seq(Nat) /\ Len(text) = k + 1 /\ text[k + 1] = n /\ \A i \in 1..k : text[i] = part[i]
    <3>1. text = Append(part, n)
      BY <1>1, <1>2, <1>3, <1>5
    <3>2. part \in Seq(Nat) /\ Len(part) = k
      BY <1>3, <2>1
    <3>3. QED
      BY <3>1, <3>2
  <2>3. ComesAs(text, s, from, 1, n)
    BY <1>1, <1>3, <2>1, <2>2 DEF ComesAs, Spoken
  <2>4. QED
    BY <2>3
<1>6. QED
  BY <1>4, <1>5

\* What the three ways of projectSession make of it.
LEMMA ComesOnce ==
  ASSUME NEW s, NEW text, NEW from, NEW last, NEW n, ComesAs(text, s, from, last, n),
         NEW result, result.text = text, result.streamed = s
  PROVE  /\ IsInjective(s) /\ IsInjective(text)
         /\ ~IsSuffix(text, s) /\ ~IsPrefix(s, text) => BeginsMidway(result) \/ IsInjective(s \o text)
<1>1. PICK m \in Nat, k \in Nat : m = Len(s) /\ k = m + 1 - from
  BY DEF ComesAs, Spoken
<1>2. /\ s \in [1..m -> Nat] /\ n \in Nat /\ from \in 1..m + 1 /\ last \in {0, 1} /\ text \in [1..k + last -> Nat]
      /\ Len(text) = k + last /\ (\A i \in 1..k : text[i] = s[from - 1 + i]) /\ (last = 1 => text[k + 1] = n)
      /\ IsInjective(s) /\ \A i \in 1..m : s[i] < n
  <2>1. /\ s \in [1..m -> Nat] /\ n \in Nat /\ from \in 1..m + 1 /\ last \in {0, 1} /\ Len(text) = k + last
        /\ \A i \in 1..k : text[i] = s[from - 1 + i]
    BY <1>1 DEF ComesAs, Spoken
  <2>2. text \in Seq(Nat) /\ (last = 1 => text[Len(text)] = n) /\ Fresh(s, n)
    BY DEF ComesAs, Spoken
  <2>3. text \in [1..k + last -> Nat]
    BY <2>1, <2>2
  <2>4. DOMAIN s = 1..m
    BY <2>1
  <2>5. QED
    BY <2>1, <2>2, <2>3, <2>4 DEF Fresh
<1>0. s \in Spoken /\ text \in Spoken
  BY DEF ComesAs
<1>3. IsInjective(text)
  <2>1. ASSUME NEW i \in 1..k + last, NEW j \in 1..k + last, text[i] = text[j] PROVE i = j
    <3>1. CASE i \in 1..k /\ j \in 1..k
      <4>1. from - 1 + i \in 1..m /\ from - 1 + j \in 1..m /\ s[from - 1 + i] = s[from - 1 + j]
        BY <1>1, <1>2, <2>1, <3>1
      <4>2. from - 1 + i = from - 1 + j
        BY <1>2, <4>1 DEF IsInjective
      <4>3. QED
        BY <1>2, <3>1, <4>2
    <3>2. CASE i \notin 1..k /\ j \notin 1..k
      BY <1>2, <3>2
    <3>3. ASSUME NEW a \in 1..k, NEW b \in 1..k + last, b \notin 1..k PROVE text[a] # text[b]
      <4>1. last = 1 /\ b = k + 1
        BY <1>2, <3>3
      <4>2. from - 1 + a \in 1..m
        BY <1>1, <1>2
      <4>3. QED
        BY <1>2, <4>1, <4>2
    <3>4. QED
      BY <2>1, <3>1, <3>2, <3>3
  <2>2. QED
    BY <1>2, <2>1 DEF IsInjective
<1>4. ASSUME ~IsSuffix(text, s), ~IsPrefix(s, text) PROVE BeginsMidway(result) \/ IsInjective(s \o text)
  <2>1. last = 1
    <3>1. SUFFICES ASSUME last = 0 PROVE FALSE
      BY <1>2
    <3>2. \A i \in 1..k : text[i] = s[m - k + i]
      BY <1>1, <1>2
    <3>3. Len(text) = k /\ k <= m
      BY <1>1, <1>2, <3>1
    <3>4. Len(text) <= Len(s) /\ \A i \in 1..Len(text) : text[i] = s[Len(s) - Len(text) + i]
      BY <1>1, <3>2, <3>3
    <3>5. QED
      BY <1>0, <1>4, <3>4, SuffixIs
  <2>2. from # 1
    <3>1. SUFFICES ASSUME from = 1 PROVE FALSE
      OBVIOUS
    <3>2. m <= Len(text) /\ \A i \in 1..m : s[i] = text[i]
      BY <1>1, <1>2, <2>1, <3>1
    <3>3. QED
      BY <1>0, <1>1, <1>4, <3>2, PrefixIs
  <2>3. CASE k > 0
    <3>1. PICK part : part = SubSeq(text, 1, k)
      OBVIOUS
    <3>2. part \in Spoken /\ Len(part) = k /\ \A i \in 1..k : part[i] = text[i]
      <4>1. text \in Seq(Nat) /\ Len(text) = k + 1 /\ k \in Nat
        BY <1>0, <1>1, <1>2, <2>1 DEF Spoken
      <4>2. part \in Seq(Nat) /\ Len(part) = k /\ \A i \in 1..k : part[i] = text[i]
        BY <3>1, <4>1
      <4>3. QED
        BY <4>2 DEF Spoken
    <3>3. \A i \in 1..k : part[i] = s[m - k + i]
      <4>1. from - 1 = m - k
        BY <1>1, <1>2
      <4>2. QED
        BY <1>2, <3>2, <4>1
    <3>7. Len(part) <= Len(s) /\ \A i \in 1..Len(part) : part[i] = s[Len(s) - Len(part) + i]
      BY <1>1, <1>2, <3>2, <3>3
    <3>4. IsSuffix(part, s)
      BY <1>0, <3>2, <3>7, SuffixIs
    <3>5. k \in 1..Len(text) - 1
      BY <1>2, <2>1, <2>3
    <3>6. QED
      BY <1>4, <3>1, <3>4, <3>5 DEF BeginsMidway
  <2>4. CASE k = 0
    <3>1. Len(text) = 1 /\ text[1] = n /\ text \in Seq(Nat)
      BY <1>0, <1>2, <2>1, <2>4 DEF Spoken
    <3>2. text = <<n>>
      BY <3>1
    <3>3. Fresh(s, n) /\ s \in Spoken
      BY DEF ComesAs
    <3>4. Fresh(s \o text, n + 1)
      BY <1>2, <3>2, <3>3, FreshFacts
    <3>5. QED
      BY <3>4 DEF Fresh
  <2>5. QED
    BY <1>1, <2>3, <2>4
<1>5. QED
  BY <1>2, <1>3, <1>4

\* A text between its beginning and its end.
LEMMA TextItself ==
  ASSUME NEW s \in Spoken
  PROVE  IsPrefix(s, s) /\ IsSuffix(s, s)
<1>1. Len(s) \in Nat /\ \A i \in 1..Len(s) : Len(s) - Len(s) + i = i
  BY DEF Spoken
<1>2. QED
  BY <1>1, PrefixIs, SuffixIs

LEMMA TextsJoined ==
  ASSUME NEW s \in Spoken, NEW t \in Spoken, NEW u, u = s \o t
  PROVE  u \in Spoken /\ IsPrefix(s, u) /\ IsSuffix(t, u) /\ ToSet(u) = ToSet(s) \cup ToSet(t)
<1>1. PICK m \in Nat, n \in Nat : m = Len(s) /\ n = Len(t)
  BY DEF Spoken
<1>2. /\ u \in Spoken /\ Len(u) = m + n /\ DOMAIN u = 1..m + n /\ DOMAIN s = 1..m /\ DOMAIN t = 1..n
      /\ (\A i \in 1..m : u[i] = s[i]) /\ \A i \in m + 1..m + n : u[i] = t[i - m]
  <2>1. u \in Seq(Nat) /\ Len(u) = m + n
    BY <1>1, ConcatProperties DEF Spoken
  <2>2. \A i \in 1..m + n : u[i] = IF i <= m THEN s[i] ELSE t[i - m]
    BY <1>1, ConcatProperties DEF Spoken
  <2>3. QED
    BY <1>1, <2>1, <2>2 DEF Spoken
<1>3. IsPrefix(s, u)
  <2>1. Len(s) <= Len(u) /\ \A i \in 1..Len(s) : s[i] = u[i]
    BY <1>1, <1>2
  <2>2. QED
    BY <1>2, <2>1, PrefixIs
<1>4. \A i \in 1..n : m + i \in m + 1..m + n /\ m + n - n + i = m + i /\ u[m + i] = t[i]
  <2>1. ASSUME NEW i \in 1..n PROVE m + i \in m + 1..m + n /\ m + n - n + i = m + i /\ (m + i) - m = i
    OBVIOUS
  <2>2. QED
    BY <1>2, <2>1
<1>5. IsSuffix(t, u)
  <2>1. Len(t) <= Len(u) /\ \A i \in 1..Len(t) : t[i] = u[Len(u) - Len(t) + i]
    BY <1>1, <1>2, <1>4
  <2>2. QED
    BY <1>2, <2>1, SuffixIs
<1>6. ToSet(u) \subseteq ToSet(s) \cup ToSet(t)
  <2>1. ASSUME NEW i \in 1..m + n PROVE u[i] \in ToSet(s) \cup ToSet(t)
    <3>1. CASE i \in 1..m
      BY <1>2, <3>1 DEF ToSet
    <3>2. CASE i \notin 1..m
      <4>1. i - m \in 1..n /\ i \in m + 1..m + n
        BY <3>2
      <4>2. QED
        BY <1>2, <4>1 DEF ToSet
    <3>3. QED
      BY <3>1, <3>2
  <2>2. QED
    BY <1>2, <2>1 DEF ToSet
<1>7. ToSet(s) \subseteq ToSet(u) /\ ToSet(t) \subseteq ToSet(u)
  <2>1. \A i \in 1..m : i \in 1..m + n /\ u[i] = s[i]
    BY <1>2
  <2>2. \A i \in 1..n : m + i \in 1..m + n /\ u[m + i] = t[i]
    <3>1. \A i \in 1..n : m + i \in 1..m + n
      OBVIOUS
    <3>2. QED
      BY <1>4, <3>1
  <2>3. QED
    BY <1>2, <2>1, <2>2 DEF ToSet
<1>8. QED
  BY <1>2, <1>3, <1>5, <1>6, <1>7

\* One text within another adds nothing to its pieces.
LEMMA TextWithin ==
  ASSUME NEW s \in Spoken, NEW t \in Spoken, IsPrefix(s, t) \/ IsSuffix(s, t)
  PROVE  ToSet(t) = ToSet(s) \cup ToSet(t)
<1>1. PICK m \in Nat, n \in Nat : m = Len(s) /\ n = Len(t)
  BY DEF Spoken
<1>2. DOMAIN s = 1..m /\ DOMAIN t = 1..n
  BY <1>1 DEF Spoken
<1>3. m <= n /\ \/ \A i \in 1..m : s[i] = t[i]
                \/ \A i \in 1..m : s[i] = t[n - m + i]
  BY <1>1, PrefixIs, SuffixIs
<1>4. \A i \in 1..m : i \in 1..n /\ n - m + i \in 1..n
  BY <1>3
<1>5. ToSet(s) \subseteq ToSet(t)
  BY <1>2, <1>3, <1>4 DEF ToSet
<1>6. QED
  BY <1>5

LEMMA CardedLater ==
  ASSUME NEW card, NEW n \in Nat, Carded(card, n)
  PROVE  Carded(card, n + 1)
<1>1. Cardinality(DOMAIN card.texts) \in Nat
  BY FS_CardinalityType DEF Carded
<1>2. QED
  BY <1>1 DEF Carded

LEMMA TellsLater ==
  ASSUME NEW c, NEW h, NEW n, ChatTells(c, h, n)
  PROVE  ChatTells(c, h, n + 1)
<1>1. n \in Nat
  BY DEF ChatTells
<1>2. CardsTold(c.messages, h.thoughts, n + 1)
  BY <1>1, CardedLater DEF ChatTells, CardsTold
<1>3. Fresh(c.open.streamed, n + 1)
  <2>1. PICK one : one = <<n>>
    OBVIOUS
  <2>2. QED
    BY <1>1, <2>1, FreshFacts DEF ChatTells, ChatSpells
<1>4. QED
  BY <1>1, <1>2, <1>3 DEF ChatTells

LEMMA CardsStay ==
  ASSUME NEW a, NEW b, CardsOf(a, b), NEW thoughts, NEW n, CardsTold(a, thoughts, n)
  PROVE  CardsTold(b, thoughts, n)
BY DEF CardsOf, CardsTold

\* A step that adds to the answer what it adds to the stream.
LEMMA AddsTold ==
  ASSUME NEW c, NEW h, NEW n, ChatTells(c, h, n), NEW d, NEW pieces, Adds(c, d, pieces),
         pieces = <<>> \/ Unfinished(c, h.results), d.open.streamed = c.open.streamed \o pieces,
         NEW m \in {n, n + 1}, Fresh(d.open.streamed, m)
  PROVE  ChatTells(d, h, m)
<1>0. ChatTells(c, h, m)
  BY TellsLater
<1>1. CardsTold(d.messages, h.thoughts, m)
  BY <1>0, CardsStay DEF ChatTells, Adds
<1>2. HeardOf(d, h)
  BY DEF ChatTells, Adds, HeardOf
<1>3. Answer(c.messages, c.open.turn) \in Spoken
  BY SpellsFacts DEF ChatTells
<1>4. ResultsTold(d.messages, h.results)
  <2>1. ASSUME NEW i \in DOMAIN h.results
        PROVE  Answer(d.messages, h.results[i].turn) = Answer(c.messages, h.results[i].turn)
    <3>1. CASE h.results[i].turn # c.open.turn
      BY <3>1 DEF Adds
    <3>2. CASE h.results[i].turn = c.open.turn
      <4>1. pieces = <<>>
        BY <3>2 DEF Unfinished
      <4>2. QED
        BY <1>3, <3>2, <4>1, SpokenJoin DEF Adds
    <3>3. QED
      BY <3>1, <3>2
  <2>2. QED
    BY <2>1 DEF ChatTells, ResultsTold
<1>5. d.open # NoTurn /\ Unfinished(d, h.results) => Answer(d.messages, d.open.turn) = d.open.streamed
  BY DEF ChatTells, Adds, Unfinished
<1>6. QED
  BY <1>0, <1>1, <1>2, <1>4, <1>5 DEF ChatTells, Adds

\* The card of the open turn says the pieces that were heard more.
LEMMA CardTold ==
  ASSUME NEW c, NEW h, NEW n, ChatTells(c, h, n), c.open # NoTurn,
         NEW old, old = c.messages[c.open.card].card, NEW card, NEW d, OnlyCard(c, card, d),
         NEW m \in Nat, m >= n, \A x : Carded(x, n) => Carded(x, m), Carded(card, m), Fresh(c.open.streamed, m),
         NEW g, HeardOf(c, g), g.results = h.results, g.thoughts[c.open.turn] = FlattenSeq(Lines(card)),
         \A turn \in 1..c.turns : turn # c.open.turn => g.thoughts[turn] = h.thoughts[turn]
  PROVE  ChatTells(d, g, m)
<1>1. ASSUME NEW i \in DOMAIN d.messages, d.messages[i].kind = "card"
      PROVE  Carded(d.messages[i].card, m) /\ FlattenSeq(Lines(d.messages[i].card)) = g.thoughts[d.messages[i].turn]
  <2>1. i \in DOMAIN c.messages /\ c.messages[i].kind = "card" /\ c.messages[i].turn = d.messages[i].turn
    BY <1>1 DEF OnlyCard
  <2>2. CASE i = c.open.card
    <3>1. d.messages[i].card = card /\ d.messages[i].turn = c.open.turn
      BY <2>1, <2>2 DEF OnlyCard, ChatTells, ChatSpells, ChatSound, OpenTurn
    <3>2. QED
      BY <3>1
  <2>3. CASE i # c.open.card
    <3>1. d.messages[i].card = c.messages[i].card
      BY <2>1, <2>3 DEF OnlyCard
    <3>2. c.messages[i].turn # c.open.turn /\ c.messages[i].turn \in 1..c.turns
      BY <2>1, <2>3 DEF ChatTells, ChatSpells, ChatSound, Resting
    <3>3. Carded(c.messages[i].card, n) /\ FlattenSeq(Lines(c.messages[i].card)) = h.thoughts[c.messages[i].turn]
      BY <2>1 DEF ChatTells, CardsTold
    <3>4. QED
      BY <2>1, <3>1, <3>2, <3>3
  <2>4. QED
    BY <2>2, <2>3
<1>2. CardsTold(d.messages, g.thoughts, m)
  BY <1>1 DEF CardsTold
<1>3. HeardOf(d, g)
  BY DEF OnlyCard, HeardOf
<1>4. ResultsTold(d.messages, g.results)
  BY DEF OnlyCard, ChatTells, ResultsTold
<1>5. d.open # NoTurn /\ Unfinished(d, g.results) => Answer(d.messages, d.open.turn) = d.open.streamed
  BY DEF OnlyCard, ChatTells, Unfinished
<1>6. ChatSpells(d)
  BY DEF OnlyCard
<1>7. Fresh(d.open.streamed, m)
  BY DEF OnlyCard
<1>8. QED
  BY <1>2, <1>3, <1>4, <1>5, <1>6, <1>7 DEF ChatTells

\* What the journal brings: a turn, a piece of the model's thoughts, its result.
TurnHeard(h, g)           == g = [h EXCEPT !.thoughts = Append(@, <<>>)]
PieceHeard(h, g, turn, n) == g = [h EXCEPT !.thoughts[turn] = Append(@, n)]
ResultHeard(h, g, result) == g = [h EXCEPT !.results = Append(@, result)]

LEMMA BegunTold ==
  ASSUME NEW c, NEW h, NEW n, ChatTells(c, h, n), c.open = NoTurn, NEW d, Opens(c, d),
         NEW g, TurnHeard(h, g)
  PROVE  ChatTells(d, g, n)
<1>1. /\ ChatSpells(d) /\ d.turns = c.turns + 1 /\ d.open.turn = c.turns + 1 /\ d.open.streamed = <<>>
      /\ \A turn : Answer(d.messages, turn) = Answer(c.messages, turn)
      /\ Answer(d.messages, d.open.turn) = <<>>
      /\ \A i \in DOMAIN d.messages : d.messages[i].kind = "card" =>
           \/ /\ i \in DOMAIN c.messages /\ c.messages[i].kind = "card"
              /\ c.messages[i].turn = d.messages[i].turn /\ c.messages[i].card = d.messages[i].card
           \/ d.messages[i].turn = c.turns + 1 /\ d.messages[i].card = Card
  BY DEF Opens
<1>2. PICK none : none = <<>>
  OBVIOUS
<1>3. PICK thoughts : thoughts = Append(h.thoughts, none)
  OBVIOUS
<1>4. c.turns \in Nat /\ n \in Nat /\ h.thoughts \in Seq(Spoken) /\ Len(h.thoughts) = c.turns /\ none \in Spoken
  BY <1>2, SpellsFacts, SpokenJoin DEF ChatTells, HeardOf
<1>5. /\ thoughts \in Seq(Spoken) /\ Len(thoughts) = c.turns + 1 /\ thoughts[c.turns + 1] = none
      /\ \A i \in 1..c.turns : thoughts[i] = h.thoughts[i]
  BY <1>3, <1>4
<1>6. g = [thoughts |-> thoughts, results |-> h.results]
  BY <1>2, <1>3 DEF ChatTells, HeardOf, TurnHeard
<1>7. g.thoughts = thoughts /\ g.results = h.results /\ g = [thoughts |-> g.thoughts, results |-> g.results]
  BY <1>6
<1>8. HeardOf(d, g)
  <2>1. \A i \in DOMAIN g.results : g.results[i].turn \in 1..c.turns + 1
    BY <1>4, <1>7 DEF ChatTells, HeardOf
  <2>2. IsList(g.results)
    BY <1>7 DEF ChatTells, HeardOf
  <2>3. QED
    BY <1>1, <1>5, <1>7, <2>1, <2>2 DEF HeardOf
<1>9. ASSUME NEW i \in DOMAIN d.messages, d.messages[i].kind = "card"
      PROVE  Carded(d.messages[i].card, n) /\ FlattenSeq(Lines(d.messages[i].card)) = thoughts[d.messages[i].turn]
  <2>1. CASE /\ i \in DOMAIN c.messages /\ c.messages[i].kind = "card"
             /\ c.messages[i].turn = d.messages[i].turn /\ c.messages[i].card = d.messages[i].card
    <3>1. c.messages[i].turn \in 1..c.turns
      BY <2>1 DEF ChatTells, ChatSpells, ChatSound, Resting
    <3>2. Carded(c.messages[i].card, n) /\ FlattenSeq(Lines(c.messages[i].card)) = h.thoughts[c.messages[i].turn]
      BY <2>1 DEF ChatTells, CardsTold
    <3>3. QED
      BY <1>5, <2>1, <3>1, <3>2
  <2>2. CASE d.messages[i].turn = c.turns + 1 /\ d.messages[i].card = Card
    <3>1. Carded(Card, n)
      <4>1. Cardinality(DOMAIN Card.texts) \in Nat /\ Cardinality(DOMAIN Card.texts) <= 0
        BY EmptyCard, FS_CardinalityType DEF Carded
      <4>2. Cardinality(DOMAIN Card.texts) <= n
        BY <1>4, <4>1
      <4>3. QED
        BY <4>2, EmptyCard DEF Carded
    <3>2. QED
      BY <1>2, <1>5, <2>2, <3>1, EmptyCard
  <2>3. QED
    BY <1>1, <1>9, <2>1, <2>2
<1>10. CardsTold(d.messages, g.thoughts, n)
  BY <1>7, <1>9 DEF CardsTold
<1>11. ResultsTold(d.messages, g.results)
  BY <1>1, <1>7 DEF ChatTells, ResultsTold
<1>12. Fresh(d.open.streamed, n)
  <2>1. PICK one : one = <<n>>
    OBVIOUS
  <2>2. QED
    BY <1>1, <1>2, <1>4, <2>1, FreshFacts
<1>13. QED
  BY <1>1, <1>4, <1>8, <1>10, <1>11, <1>12 DEF ChatTells

\* What the model thinks is heard and shown.
LEMMA ThoughtTold ==
  ASSUME NEW c, NEW h, NEW n, ChatTells(c, h, n), c.open # NoTurn, n < MaxJournal,
         NEW kind, IsTalk(kind), NEW source \in Sources,
         NEW d, Recarded(c, WithText(c.messages[c.open.card].card, kind, source, n), d),
         NEW g, PieceHeard(h, g, c.open.turn, n)
  PROVE  ChatTells(d, g, n + 1)
<1>1. PICK k : k = c.open.card
  OBVIOUS
<1>2. k \in DOMAIN c.messages /\ c.messages[k].turn = c.open.turn /\ c.messages[k].kind = "card" /\ n \in Nat
  BY <1>1 DEF ChatTells, ChatSpells, ChatSound, OpenTurn
<1>3. PICK old : old = c.messages[k].card
  OBVIOUS
<1>4. IsCard(old) /\ Carded(old, n) /\ FlattenSeq(Lines(old)) = h.thoughts[c.open.turn]
  BY <1>2, <1>3 DEF ChatTells, CardsTold, ChatSpells, ChatSound, ChatTyped, IsMessage
<1>5. PICK card : card = WithText(old, kind, source, n)
  OBVIOUS
<1>6. Carded(card, n + 1) /\ FlattenSeq(Lines(card)) = FlattenSeq(Lines(old)) \o <<n>>
  <2>1. source \in Seq(Nat)
    BY SourcesAssumption
  <2>2. IsThought(old, n, kind, source, n)
    BY <1>2, <1>4, <2>1 DEF IsThought
  <2>3. QED
    BY <1>5, <2>2, PieceSaid
<1>7. IsCard(card)
  BY <1>4, <1>5, WithTextTyped
<1>8. Recarded(c, card, d)
  BY <1>1, <1>3, <1>5
<1>9. OnlyCard(c, card, d)
  BY <1>7, <1>8, CardReplaced DEF ChatTells
<1>10. PICK turn : turn = c.open.turn
  OBVIOUS
<1>11. turn \in 1..c.turns /\ c.turns \in Nat
  BY <1>2, <1>10 DEF ChatTells, ChatSpells, ChatSound, ChatTyped, Resting
<1>12. PICK all : all = h.thoughts
  OBVIOUS
<1>13. all \in [1..c.turns -> Spoken] /\ Len(all) = c.turns /\ h = [thoughts |-> all, results |-> h.results]
  <2>1. all \in Seq(Spoken) /\ Len(all) = c.turns /\ h = [thoughts |-> all, results |-> h.results]
    BY <1>12 DEF ChatTells, HeardOf
  <2>2. QED
    BY <1>11, <2>1
<1>14. PICK said : said = Append(all[turn], n)
  OBVIOUS
<1>15. said \in Spoken /\ said = all[turn] \o <<n>>
  <2>1. PICK s \in Seq(Nat) : s = all[turn]
    BY <1>11, <1>13 DEF Spoken
  <2>2. Append(s, n) \in Seq(Nat) /\ Append(s, n) = s \o <<n>>
    BY <1>2
  <2>3. QED
    BY <1>14, <2>1, <2>2 DEF Spoken
<1>16. PICK thoughts : thoughts = [all EXCEPT ![turn] = said]
  OBVIOUS
<1>17. thoughts \in [1..c.turns -> Spoken] /\ thoughts[turn] = said /\ \A t \in 1..c.turns : t # turn => thoughts[t] = all[t]
  BY <1>11, <1>13, <1>15, <1>16
<1>18. thoughts \in Seq(Spoken) /\ Len(thoughts) = c.turns
  BY <1>11, <1>17
<1>19. g = [thoughts |-> thoughts, results |-> h.results]
  BY <1>10, <1>12, <1>13, <1>14, <1>16 DEF PieceHeard
<1>20. g.thoughts = thoughts /\ g.results = h.results /\ g = [thoughts |-> g.thoughts, results |-> g.results]
  BY <1>19
<1>21. HeardOf(c, g)
  BY <1>18, <1>20 DEF ChatTells, HeardOf
<1>22. g.thoughts[c.open.turn] = FlattenSeq(Lines(card))
  BY <1>4, <1>6, <1>10, <1>12, <1>15, <1>17, <1>20
<1>23. \A t \in 1..c.turns : t # c.open.turn => g.thoughts[t] = h.thoughts[t]
  BY <1>10, <1>12, <1>17, <1>20
<1>24. n + 1 \in Nat /\ n + 1 >= n /\ \A x : Carded(x, n) => Carded(x, n + 1)
  BY <1>2, CardedLater
<1>25. Fresh(c.open.streamed, n + 1)
  BY TellsLater DEF ChatTells
<1>26. PICK m \in Nat : m = n + 1
  BY <1>24
<1>27. ChatTells(d, g, m)
  BY <1>3, <1>6, <1>9, <1>20, <1>21, <1>22, <1>23, <1>24, <1>25, <1>26, <1>1, CardTold
<1>28. QED
  BY <1>26, <1>27

\* A tool on the card says nothing.
LEMMA ToolTold ==
  ASSUME NEW c, NEW h, NEW n, ChatTells(c, h, n), c.open # NoTurn, NEW tool, NEW status,
         NEW d, Recarded(c, WithTool(c.messages[c.open.card].card, tool, status), d)
  PROVE  ChatTells(d, h, n)
<1>1. PICK k : k = c.open.card
  OBVIOUS
<1>2. k \in DOMAIN c.messages /\ c.messages[k].turn = c.open.turn /\ c.messages[k].kind = "card" /\ n \in Nat
  BY <1>1 DEF ChatTells, ChatSpells, ChatSound, OpenTurn
<1>3. PICK old : old = c.messages[k].card
  OBVIOUS
<1>4. IsCard(old) /\ Carded(old, n) /\ FlattenSeq(Lines(old)) = h.thoughts[c.open.turn]
  BY <1>2, <1>3 DEF ChatTells, CardsTold, ChatSpells, ChatSound, ChatTyped, IsMessage
<1>5. PICK card : card = WithTool(old, tool, status)
  OBVIOUS
<1>6. Carded(card, n) /\ FlattenSeq(Lines(card)) = FlattenSeq(Lines(old))
  BY <1>2, <1>4, <1>5, ToolSaid
<1>7. IsCard(card)
  BY <1>4, <1>5, WithToolTyped
<1>8. Recarded(c, card, d)
  BY <1>1, <1>3, <1>5
<1>9. OnlyCard(c, card, d)
  BY <1>7, <1>8, CardReplaced DEF ChatTells
<1>10. HeardOf(c, h) /\ Fresh(c.open.streamed, n)
  BY DEF ChatTells
<1>11. QED
  BY <1>2, <1>4, <1>6, <1>9, <1>10, CardTold

\* The model's last message: what was not streamed of it is added.
LEMMA ResultTells ==
  ASSUME NEW c, NEW h, NEW n, ChatTells(c, h, n), c.open # NoTurn, Unfinished(c, h.results),
         NEW text, NEW from, NEW last, ComesAs(text, c.open.streamed, from, last, n), NEW d, d = Resulted(c, text),
         NEW result, result = [turn |-> c.open.turn, text |-> text, streamed |-> c.open.streamed],
         NEW g, ResultHeard(h, g, result)
  PROVE  ChatTells(d, g, n)
<1>1. PICK streamed : streamed = c.open.streamed
  OBVIOUS
<1>2. PICK turn : turn = c.open.turn
  OBVIOUS
<1>3. ChatSpells(c) /\ streamed \in Spoken /\ Answer(c.messages, turn) = streamed
  BY <1>1, <1>2 DEF ChatTells, ChatSpells
<1>5. result.turn = turn /\ result.text = text /\ result.streamed = streamed
  BY <1>1, <1>2
<1>4. text \in Spoken /\ ComesAs(text, streamed, from, last, n)
  BY <1>1 DEF ComesAs
<1>6. \E pieces \in Spoken : Adds(c, d, pieces) /\ d.open.streamed = streamed /\ ResultTold(streamed \o pieces, result)
  <2>1. CASE IsSuffix(text, streamed)
    <3>1. PICK none \in Spoken : none = <<>>
      BY SpokenJoin
    <3>2. d = Shown(c, none)
      BY <1>1, <2>1, <3>1 DEF Resulted, Shown
    <3>3. Adds(c, d, none) /\ d.open.streamed = streamed
      BY <1>1, <1>3, <3>2, ShownAdds
    <3>4. streamed \o none = streamed
      BY <1>3, <3>1, SpokenJoin
    <3>5. ResultTold(streamed, result)
      BY <1>3, <1>4, <1>5, <2>1, ComesOnce, TextItself, TextWithin DEF ResultTold
    <3>6. QED
      BY <3>3, <3>4, <3>5
  <2>2. CASE ~IsSuffix(text, streamed) /\ IsPrefix(streamed, text)
    <3>1. PICK rest : rest = SubSeq(text, Len(streamed) + 1, Len(text))
      OBVIOUS
    <3>2. rest \in Spoken /\ streamed \o rest = text
      BY <1>3, <1>4, <2>2, <3>1, PrefixAndRest
    <3>3. d = Shown(c, rest)
      BY <1>1, <2>2, <3>1 DEF Resulted
    <3>4. Adds(c, d, rest) /\ d.open.streamed = streamed
      BY <1>1, <1>3, <3>2, <3>3, ShownAdds
    <3>5. ResultTold(text, result)
      BY <1>3, <1>4, <1>5, <2>2, ComesOnce, TextItself, TextWithin DEF ResultTold
    <3>6. QED
      BY <3>2, <3>4, <3>5
  <2>3. CASE ~IsSuffix(text, streamed) /\ ~IsPrefix(streamed, text)
    <3>1. d = Shown(c, text)
      BY <1>1, <2>3 DEF Resulted
    <3>2. Adds(c, d, text) /\ d.open.streamed = streamed
      BY <1>1, <1>3, <1>4, <3>1, ShownAdds
    <3>3. PICK said : said = streamed \o text
      OBVIOUS
    <3>4. ResultTold(said, result)
      BY <1>3, <1>4, <1>5, <2>3, <3>3, ComesOnce, TextsJoined DEF ResultTold
    <3>5. QED
      BY <1>4, <3>2, <3>3, <3>4
  <2>4. QED
    BY <2>1, <2>2, <2>3
<1>7. PICK pieces \in Spoken : Adds(c, d, pieces) /\ d.open.streamed = streamed /\ ResultTold(streamed \o pieces, result)
  BY <1>6
<1>8. PICK results : results = Append(h.results, result)
  OBVIOUS
<1>9. PICK m : m = Len(h.results)
  OBVIOUS
<1>10. /\ IsList(results) /\ m \in Nat /\ DOMAIN h.results = 1..m /\ DOMAIN results = 1..m + 1
       /\ results[m + 1] = result /\ \A i \in 1..m : results[i] = h.results[i]
  BY <1>8, <1>9, Appended DEF ChatTells, HeardOf
<1>11. \A i \in 1..m + 1 : i \in 1..m \/ i = m + 1
  BY <1>10
<1>12. g = [thoughts |-> h.thoughts, results |-> results]
  BY <1>8 DEF ChatTells, HeardOf, ResultHeard
<1>13. g.thoughts = h.thoughts /\ g.results = results /\ g = [thoughts |-> g.thoughts, results |-> g.results]
  BY <1>12
<1>14. turn \in 1..c.turns
  BY <1>2 DEF ChatTells, ChatSpells, ChatSound, ChatTyped, OpenTurn
<1>15. HeardOf(d, g)
  <2>1. \A i \in DOMAIN g.results : g.results[i].turn \in 1..c.turns
    BY <1>5, <1>10, <1>11, <1>13, <1>14 DEF ChatTells, HeardOf
  <2>2. QED
    BY <1>7, <1>10, <1>13, <2>1 DEF ChatTells, HeardOf, Adds
<1>16. CardsTold(d.messages, g.thoughts, n)
  BY <1>7, <1>13, CardsStay DEF ChatTells, Adds
<1>17. ASSUME NEW i \in 1..m + 1 PROVE ResultTold(Answer(d.messages, results[i].turn), results[i])
  <2>1. CASE i \in 1..m
    <3>1. results[i] = h.results[i] /\ h.results[i].turn # turn
      BY <1>2, <1>10, <2>1 DEF Unfinished
    <3>2. Answer(d.messages, h.results[i].turn) = Answer(c.messages, h.results[i].turn)
      BY <1>2, <1>7, <3>1 DEF Adds
    <3>3. QED
      BY <1>10, <2>1, <3>1, <3>2 DEF ChatTells, ResultsTold
  <2>2. CASE i = m + 1
    <3>1. results[i] = result /\ results[i].turn = turn
      BY <1>5, <1>10, <2>2
    <3>2. Answer(d.messages, turn) = streamed \o pieces
      BY <1>2, <1>3, <1>7 DEF Adds
    <3>3. QED
      BY <1>7, <3>1, <3>2
  <2>3. QED
    BY <1>11, <2>1, <2>2
<1>18. ResultsTold(d.messages, g.results)
  BY <1>10, <1>13, <1>17 DEF ResultsTold
<1>19. ~Unfinished(d, g.results)
  <2>1. m + 1 \in DOMAIN g.results /\ g.results[m + 1].turn = d.open.turn
    BY <1>2, <1>5, <1>7, <1>10, <1>13 DEF Adds
  <2>2. QED
    BY <2>1 DEF Unfinished
<1>20. Fresh(d.open.streamed, n) /\ n \in Nat
  BY <1>1, <1>7 DEF ChatTells
<1>21. QED
  BY <1>7, <1>15, <1>16, <1>18, <1>19, <1>20 DEF ChatTells, Adds

\* The end of the turn says nothing more.
LEMMA EndedTold ==
  ASSUME NEW c, NEW h, NEW n, ChatTells(c, h, n), c.open # NoTurn,
         NEW status \in {"completed", "failed", "interrupted"}, NEW d, d = Ended(c, status)
  PROVE  ChatTells(d, h, n)
<1>0. ChatSpells(c)
  BY DEF ChatTells
<1>1. /\ ChatSpells(d) /\ d.turns = c.turns /\ d.open = NoTurn
      /\ \A turn : Answer(d.messages, turn) = Answer(c.messages, turn)
      /\ \A i \in DOMAIN d.messages : d.messages[i].kind = "card" =>
           /\ i \in DOMAIN c.messages /\ c.messages[i].kind = "card"
           /\ c.messages[i].turn = d.messages[i].turn
           /\ d.messages[i].card \in {c.messages[i].card, WithStatus(c.messages[i].card, status)}
  BY <1>0, EndedKeeps
<1>2. n \in Nat
  BY DEF ChatTells
<1>3. ASSUME NEW i \in DOMAIN d.messages, d.messages[i].kind = "card"
      PROVE  Carded(d.messages[i].card, n) /\ FlattenSeq(Lines(d.messages[i].card)) = h.thoughts[d.messages[i].turn]
  <2>1. PICK old : old = c.messages[i].card
    OBVIOUS
  <2>2. /\ i \in DOMAIN c.messages /\ c.messages[i].kind = "card" /\ c.messages[i].turn = d.messages[i].turn
        /\ d.messages[i].card \in {old, WithStatus(old, status)}
    BY <1>1, <1>3, <2>1
  <2>3. IsCard(old) /\ Carded(old, n) /\ FlattenSeq(Lines(old)) = h.thoughts[d.messages[i].turn]
    BY <2>1, <2>2 DEF ChatTells, CardsTold, ChatSpells, ChatSound, ChatTyped, IsMessage
  <2>4. PICK after : after = WithStatus(old, status)
    OBVIOUS
  <2>5. Carded(after, n) /\ Lines(after) = Lines(old)
    BY <1>2, <2>3, <2>4, StatusSaid
  <2>6. d.messages[i].card = old \/ d.messages[i].card = after
    BY <2>2, <2>4
  <2>7. QED
    BY <2>3, <2>5, <2>6
<1>4. CardsTold(d.messages, h.thoughts, n)
  BY <1>3 DEF CardsTold
<1>5. HeardOf(d, h)
  BY <1>1 DEF ChatTells, HeardOf
<1>6. ResultsTold(d.messages, h.results)
  BY <1>1 DEF ChatTells, ResultsTold
<1>7. Fresh(d.open.streamed, n)
  <2>1. PICK one, none : one = <<n>> /\ none = <<>>
    OBVIOUS
  <2>2. d.open.streamed = none /\ none \in Spoken
    BY <1>1, <2>1, SpokenJoin DEF NoTurn
  <2>3. QED
    BY <1>2, <2>1, <2>2, FreshFacts
<1>8. QED
  BY <1>1, <1>2, <1>4, <1>5, <1>6, <1>7 DEF ChatTells

\* A question that is answered: nothing that is shown is another.
LEMMA RepliedTold ==
  ASSUME NEW c, NEW h, NEW n, ChatTells(c, h, n), NEW k \in DOMAIN c.messages, NEW d, d = Replied(c, k)
  PROVE  ChatTells(d, h, n)
<1>1. PICK none : none = <<>>
  OBVIOUS
<1>2. Adds(c, d, none) /\ d.open = c.open
  BY <1>1, RepliedAdds DEF ChatTells
<1>3. c.open.streamed \o none = c.open.streamed
  BY <1>1, SpokenJoin DEF ChatTells, ChatSpells
<1>4. Fresh(d.open.streamed, n)
  BY <1>2 DEF ChatTells
<1>5. QED
  BY <1>1, <1>2, <1>3, <1>4, AddsTold

ChatTold == ChatTells(chat, heard, length)

LEMMA ChatTellsStep ==
  ASSUME ChatTold, [ChatNext]_chatVars
  PROVE  ChatTold'
<1> USE DEF ChatTold
<1>0. ChatSpells(chat) /\ ChatSound(chat) /\ length \in Nat
  BY DEF ChatTells, ChatSpells
<1>1. CASE TurnBegins
  <2>1. PICK role \in {"canvas", "project"} :
          /\ \/ chat' = Begun(chat, role)
             \/ \E k \in DOMAIN chat.messages : chat' = Replied(Begun(chat, role), k)
          /\ length' = length + 1 /\ chat.open = NoTurn
    BY <1>1 DEF TurnBegins, Grows, InOpenTurn
  <2>2. PICK d : d = Begun(chat, role)
    OBVIOUS
  <2>3. Opens(chat, d) /\ DOMAIN chat.messages \subseteq DOMAIN d.messages
    BY <1>0, <2>1, <2>2, BegunAdds, BegunSound
  <2>4. TurnHeard(heard, heard')
    BY <1>1 DEF TurnBegins, TurnHeard
  <2>5. ChatTells(d, heard', length)
    BY <2>1, <2>3, <2>4, BegunTold
  <2>6. CASE chat' = d
    BY <2>1, <2>5, <2>6, TellsLater
  <2>7. ASSUME NEW k \in DOMAIN chat.messages, chat' = Replied(d, k)
        PROVE  ChatTells(chat', heard', length')
    <3>1. ChatTells(chat', heard', length)
      BY <2>3, <2>5, <2>7, RepliedTold
    <3>2. QED
      BY <2>1, <3>1, TellsLater
  <2>8. QED
    BY <2>1, <2>2, <2>6, <2>7
<1>2. CASE Thinks
  <2>1. PICK kind \in {"thinking", "commentary"}, source \in Sources :
          /\ chat' = OnCard(chat, LAMBDA card : WithText(card, kind, source, length))
          /\ heard' = [heard EXCEPT !.thoughts[chat.open.turn] = Append(@, length)]
          /\ length' = length + 1 /\ length < MaxJournal /\ chat.open # NoTurn
    BY <1>2 DEF Thinks, Grows, ModelAtWork, InOpenTurn
  <2>2. IsTalk(kind)
    BY DEF IsTalk
  <2>3. Recarded(chat, WithText(chat.messages[chat.open.card].card, kind, source, length), chat')
    BY <2>1 DEF OnCard, Recarded
  <2>4. PieceHeard(heard, heard', chat.open.turn, length)
    BY <2>1 DEF PieceHeard
  <2>5. ChatTells(chat', heard', length + 1)
    BY <2>1, <2>2, <2>3, <2>4, ThoughtTold
  <2>6. QED
    BY <2>1, <2>5
<1>3. CASE UsesTool
  <2>1. PICK tool \in Tools, status \in {"running", "completed"} :
          /\ chat' = OnCard(chat, LAMBDA card : WithTool(card, tool, status))
          /\ heard' = heard /\ length' = length + 1 /\ chat.open # NoTurn
    BY <1>3 DEF UsesTool, Grows, ModelAtWork, InOpenTurn
  <2>2. Recarded(chat, WithTool(chat.messages[chat.open.card].card, tool, status), chat')
    BY <2>1 DEF OnCard, Recarded
  <2>3. ChatTells(chat', heard, length)
    BY <2>1, <2>2, ToolTold
  <2>4. QED
    BY <2>1, <2>3, TellsLater
<1>4. CASE Speaks
  <2>1. /\ chat' = Streamed(chat, length) /\ heard' = heard /\ length' = length + 1 /\ chat.open # NoTurn
        /\ Unfinished(chat, heard.results)
    BY <1>4 DEF Speaks, Grows, ModelAtWork, InOpenTurn, Unfinished
  <2>2. PICK pieces : pieces = <<length>>
    OBVIOUS
  <2>3. Adds(chat, chat', pieces) /\ chat'.open.streamed = chat.open.streamed \o pieces
    BY <1>0, <2>1, <2>2, StreamedAdds
  <2>4. Fresh(chat'.open.streamed, length + 1)
    BY <1>0, <2>2, <2>3, FreshFacts DEF ChatTells, ChatSpells
  <2>5. ChatTells(chat', heard, length + 1)
    BY <2>1, <2>3, <2>4, AddsTold
  <2>6. QED
    BY <2>1, <2>5
<1>5. CASE AsksUser
  <2>1. PICK state : chat' = Asked(chat, state)
    BY <1>5 DEF AsksUser, Grows
  <2>2. heard' = heard /\ length' = length + 1 /\ chat.open # NoTurn
    BY <1>5 DEF AsksUser, Grows, ModelAtWork, InOpenTurn
  <2>3. PICK none : none = <<>>
    OBVIOUS
  <2>4. /\ Adds(chat, chat', none) /\ chat'.open.streamed = chat.open.streamed \o none
        /\ Fresh(chat'.open.streamed, length)
    <3>1. Adds(chat, chat', <<>>) /\ chat'.open.streamed = chat.open.streamed
      BY <1>0, <2>1, <2>2, AskedAdds
    <3>2. chat.open.streamed \o none = chat.open.streamed
      BY <1>0, <2>3, SpokenJoin DEF ChatSpells
    <3>3. Fresh(chat'.open.streamed, length)
      BY <3>1 DEF ChatTells
    <3>4. QED
      BY <2>3, <3>1, <3>2, <3>3
  <2>5. ChatTells(chat', heard, length)
    BY <2>3, <2>4, AddsTold
  <2>6. QED
    BY <2>2, <2>5, TellsLater
<1>6. CASE UserAnswers
  <2>1. PICK k \in DOMAIN chat.messages : chat' = Replied(chat, k)
    BY <1>6 DEF UserAnswers, Grows
  <2>2. heard' = heard /\ length' = length + 1
    BY <1>6 DEF UserAnswers, Grows
  <2>3. ChatTells(chat', heard, length)
    BY <2>1, RepliedTold
  <2>4. QED
    BY <2>2, <2>3, TellsLater
<1>7. CASE ResultArrives
  <2>1. PICK text :
          /\ \E from \in 1..Len(chat.open.streamed) + 1, rest \in {<<>>, <<length>>} :
               text = SubSeq(chat.open.streamed, from, Len(chat.open.streamed)) \o rest
          /\ chat' = Resulted(chat, text)
          /\ heard' = [heard EXCEPT !.results =
                         Append(@, [turn |-> chat.open.turn, text |-> text, streamed |-> chat.open.streamed])]
    BY <1>7 DEF ResultArrives, Grows
  <2>2. length' = length + 1 /\ chat.open # NoTurn /\ Unfinished(chat, heard.results)
    BY <1>7 DEF ResultArrives, Grows, ModelAtWork, InOpenTurn, Unfinished
  <2>3. \E from, last : ComesAs(text, chat.open.streamed, from, last, length)
    <3>1. PICK s \in Spoken : s = chat.open.streamed
      BY <1>0 DEF ChatSpells
    <3>2. PICK from \in 1..Len(s) + 1, rest \in {<<>>, <<length>>} : text = SubSeq(s, from, Len(s)) \o rest
      BY <2>1, <3>1
    <3>3. Fresh(s, length)
      BY <3>1 DEF ChatTells
    <3>4. \E last : ComesAs(text, s, from, last, length)
      BY <1>0, <3>2, <3>3, ComesSo
    <3>5. QED
      BY <3>1, <3>4
  <2>4. PICK result : result = [turn |-> chat.open.turn, text |-> text, streamed |-> chat.open.streamed]
    OBVIOUS
  <2>5. ResultHeard(heard, heard', result)
    BY <2>1, <2>4 DEF ResultHeard
  <2>6. ChatTells(chat', heard', length)
    BY <2>1, <2>2, <2>3, <2>4, <2>5, ResultTells
  <2>7. QED
    BY <2>2, <2>6, TellsLater
<1>8. CASE TurnFinishes
  <2>1. PICK status \in {"completed", "failed", "interrupted"} : chat' = Ended(chat, status)
    BY <1>8 DEF TurnFinishes, Grows
  <2>2. heard' = heard /\ length' = length + 1 /\ chat.open # NoTurn
    BY <1>8 DEF TurnFinishes, Grows, InOpenTurn
  <2>3. ChatTells(chat', heard, length)
    BY <2>1, <2>2, EndedTold
  <2>4. QED
    BY <2>2, <2>3, TellsLater
<1>9. CASE UNCHANGED chatVars
  BY <1>9 DEF chatVars
<1>10. QED
  BY <1>1, <1>2, <1>3, <1>4, <1>5, <1>6, <1>7, <1>8, <1>9 DEF ChatNext

LEMMA ChatTellsFirst ==
  ASSUME ChatInit
  PROVE  ChatTold
<1>1. PICK none : none = <<>>
  OBVIOUS
<1>2. chat = [messages |-> none, open |-> NoTurn, turns |-> 0] /\ heard = [thoughts |-> none, results |-> none] /\ length = 0
  BY <1>1 DEF ChatInit
<1>3. none \in Seq({}) /\ DOMAIN none = {} /\ none \in Seq(Spoken) /\ Len(none) = 0 /\ none \in Spoken
  BY <1>1, SpokenJoin
<1>4. NoTurn.turn = 0 /\ NoTurn.answer = 0 /\ NoTurn.card = 0 /\ NoTurn.streamed = none /\ IsOpen(NoTurn)
  BY <1>1 DEF NoTurn, IsOpen
<1>5. /\ chat.messages = none /\ chat.open = NoTurn /\ chat.turns = 0
      /\ chat = [messages |-> chat.messages, open |-> chat.open, turns |-> chat.turns]
      /\ heard.thoughts = none /\ heard.results = none
      /\ heard = [thoughts |-> heard.thoughts, results |-> heard.results]
  BY <1>2
<1>6. IsList(none)
  BY <1>3 DEF IsList
<1>7. ChatSound(chat)
  BY <1>3, <1>4, <1>5, <1>6 DEF ChatSound, ChatTyped, OpenTurn, Resting
<1>8. ChatSpells(chat)
  BY <1>3, <1>4, <1>5, <1>6, <1>7 DEF ChatSpells, Voiced, AnswersLast
<1>9. HeardOf(chat, heard)
  BY <1>3, <1>5, <1>6 DEF HeardOf
<1>10. CardsTold(chat.messages, heard.thoughts, 0) /\ ResultsTold(chat.messages, heard.results)
  BY <1>3, <1>5 DEF CardsTold, ResultsTold
<1>11. Fresh(chat.open.streamed, 0)
  <2>1. PICK one : one = <<0>>
    OBVIOUS
  <2>2. QED
    BY <1>1, <1>3, <1>4, <1>5, <2>1, FreshFacts
<1>12. QED
  BY <1>11, <1>2, <1>5, <1>8, <1>9, <1>10 DEF ChatTold, ChatTells

\* Every piece of the model's thoughts is shown once on the card of its turn, in the order it
\* came; every answer begins with what was streamed, ends with the model's last message and
\* holds nothing else, and nothing twice unless that message begins midway in what was
\* streamed: for any journal, however its streams alternate (appendTextDelta in
\* activityReducer.ts, activityRows.ts, the result in sessionProjection.ts).
THEOREM TextIsAlwaysShownOnce == ChatSpec => []TextIsShownOnce
<1>1. ChatInit => ChatTold
  BY ChatTellsFirst
<1>2. ChatTold /\ [ChatNext]_chatVars => ChatTold'
  BY ChatTellsStep
<1>3. ChatTold => TextIsShownOnce
  <2> SUFFICES ASSUME ChatTold PROVE TextIsShownOnce
    OBVIOUS
  <2>1. ASSUME NEW m \in DOMAIN chat.messages, chat.messages[m].kind = "card"
        PROVE  TextOf(Rows(chat.messages[m].card)) = heard.thoughts[chat.messages[m].turn]
    <3>1. PICK card : card = chat.messages[m].card
      OBVIOUS
    <3>2. Texted(card) /\ FlattenSeq(Lines(card)) = heard.thoughts[chat.messages[m].turn]
      BY <2>1, <3>1 DEF ChatTold, ChatTells, CardsTold, Carded
    <3>3. QED
      BY <3>1, <3>2, RowsSay
  <2>2. \A turn : AnswerOf(turn) = Answer(chat.messages, turn)
    BY DEF AnswerOf, Answer, Answers, IsAnswer
  <2>3. \A i \in DOMAIN heard.results : ResultTold(AnswerOf(heard.results[i].turn), heard.results[i])
    BY <2>2 DEF ChatTold, ChatTells, ResultsTold
  <2>4. QED
    BY <2>1, <2>3 DEF TextIsShownOnce, ResultTold
<1>4. QED
  BY <1>1, <1>2, <1>3, PTL DEF ChatSpec
=============================================================================
