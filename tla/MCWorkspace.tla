----------------------------- MODULE MCWorkspace -----------------------------
(* The workspace with a project of an older version and its two canvases. *)
EXTENDS Workspace

MCOldCanvases == <<1, 2>>
=============================================================================
