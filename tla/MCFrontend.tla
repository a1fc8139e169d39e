----------------------------- MODULE MCFrontend -----------------------------
(***************************************************************************)
(* The state machines of the webview, each on a small instance.  They      *)
(* share no state in the models, so a behaviour is one of one of them: the *)
(* run explores their sum instead of their product.                        *)
(***************************************************************************)
EXTENDS ConversationView, Connections, Workspace, Panels, ChatProjection, CanvasLayout

VARIABLE system  \* which machine runs; the others rest

MCOldCanvases == <<1, 2>>
MCSources     == {<<1>>, <<1, 2>>}
MCTools       == {<<"t">>}

-----------------------------------------------------------------------------
\* Shapes of 60 by 40 in a row, too close, on top of each other or askew; or in a box.
Box(x, y, w, h) == [x |-> x, y |-> y, w |-> w, h |-> h, type |-> "rectangle"]
MCPages ==
  {[order |-> p[3], boxes |-> [a |-> Box(0, 0, 60, 40), b |-> Box(p[1], p[2], 60, 40), c |-> q]]
     : p \in {<<200, 0, <<"a", "b", "c">>>>, <<40, 20, <<"a", "b", "c">>>>, <<90, 90, <<"c", "b", "a">>>>},
       q \in {Box(100, 0, 60, 40), Box(-20, -20, 300, 160)}}

Size == [w |-> 60, h |-> 40]
Join(from, to, label) == [op |-> "connect_shapes", from |-> from, to |-> to, label |-> label]
Put(id, at)           == [op |-> "move_shape", id |-> id, at |-> at]
Lay(ids, prefer, by, margin) ==
  [op |-> "place_region", ids |-> ids, prefer |-> prefer, anchorId |-> by, margin |-> margin]
Make(id, at)          == [op |-> "create_geo", id |-> id, size |-> Size, at |-> at]
Label == [w |-> 30, h |-> 12]
Flow(nodes, way)      == [kind |-> "flow", nodes |-> nodes, way |-> way]
Relation(kind, nodes) == [kind |-> kind, nodes |-> nodes, way |-> "x"]
Batch(ops, declared)  == [ops |-> ops, declared |-> declared]

MCOpenings ==
  {Batch(<<Join("a", "b", NoLabel)>>, <<>>),
   Batch(<<Join("a", "b", Label), Join("b", "a", NoLabel)>>, <<>>),
   Batch(<<Join("a", "b", NoLabel), Join("c", "b", NoLabel)>>, <<Flow(<<"a", "b">>, "right")>>)}
MCBatches ==
  {Batch(<<Lay({"a"}, "right", "b", 40)>>, <<>>), Batch(<<Lay({"a", "b"}, "nearest", "c", MARGIN)>>, <<>>),
   Batch(<<Put("c", Place(100, 0))>>, <<>>), Batch(<<Put("c", Place(100, 40))>>, <<Relation("nonOverlap", <<"c", "b">>)>>),
   Batch(<<Put("b", Place(30, 20))>>, <<Flow(<<"a", "b">>, "auto")>>),
   Batch(<<Make("n", NoPlace), Make("m", NoPlace), Join("n", "m", Label), Join("n", "b", NoLabel)>>, <<>>),
   Batch(<<Make("n", Place(110, 10))>>, <<Flow(<<"a", "n", "b">>, "right"), Relation("align", <<"a", "b">>)>>),
   Batch(<<>>, <<Relation("nonOverlap", <<"a", "b", "c">>)>>),
   Batch(<<>>, <<Flow(<<"a", "b">>, "down"), Relation("freeze", <<"a">>)>>),
   Batch(<<[op |-> "delete_shape", id |-> "c"]>>, <<Relation("nonOverlap", <<"a", "b">>)>>)}

-----------------------------------------------------------------------------
Systems == {"view", "connections", "workspace", "panels", "chat", "layout"}

vars == <<system, viewVars, connectionVars, workspaceVars, panelVars, chatVars, layoutVars>>

Init ==
  /\ system \in Systems
  /\ ViewInit /\ ConnectionsInit /\ WorkspaceInit /\ PanelsInit /\ ChatInit /\ LayoutInit
  /\ system # "layout" => [order |-> order, boxes |-> boxes] = CHOOSE page \in Pages : TRUE
  /\ system # "connections" => \A p \in Profiles : service.profiles[p].signedIn

Viewing == system = "view" /\ ViewNext
  /\ UNCHANGED <<system, connectionVars, workspaceVars, panelVars, chatVars, layoutVars>>
Connecting == system = "connections" /\ ConnectionsNext
  /\ UNCHANGED <<system, viewVars, workspaceVars, panelVars, chatVars, layoutVars>>
Working == system = "workspace" /\ WorkspaceNext
  /\ UNCHANGED <<system, viewVars, connectionVars, panelVars, chatVars, layoutVars>>
Showing == system = "panels" /\ PanelsNext
  /\ UNCHANGED <<system, viewVars, connectionVars, workspaceVars, chatVars, layoutVars>>
Chatting == system = "chat" /\ ChatNext
  /\ UNCHANGED <<system, viewVars, connectionVars, workspaceVars, panelVars, layoutVars>>
Drawing == system = "layout" /\ LayoutNext
  /\ UNCHANGED <<system, viewVars, connectionVars, workspaceVars, panelVars, chatVars>>

Next == Viewing \/ Connecting \/ Working \/ Showing \/ Chatting \/ Drawing
Spec == Init /\ [][Next]_vars
=============================================================================
