---------------------------- MODULE CanvasScene ----------------------------
(***************************************************************************)
(* The canvas operations of src/protocol and what one batch of them does   *)
(* to the scene (apply in src/canvas/excalidrawPort.ts).  Positions, sizes *)
(* and labels are left to the layout modules: here an element is its kind  *)
(* and, for an arrow, the shapes its ends are bound to.                    *)
(***************************************************************************)
EXTENDS Naturals, SequencesExt

CONSTANTS
  Ids,     \* element ids, user drawn and minted by newId
  Refs,    \* symbolic create refs
  Nothing  \* an absent id or ref

ASSUME NothingIsNoKey == Nothing \notin Ids \cup Refs /\ Ids \cap Refs = {}

Keys     == Ids \cup Refs
GeoTypes == {"rectangle", "ellipse", "diamond"}
BINDABLE == GeoTypes

\* The operations (CanvasOp) and relations (StructureRelation) that pass parsing.
CanvasOps ==
  [op : {"create_geo", "create_text"}, ref : Refs \cup {Nothing}]
    \cup [op : {"move_shape", "update_text", "delete_shape"}, id : Keys]
    \cup [op : {"place_region"}, ids : SUBSET Keys, anchorId : Keys \cup {Nothing}]
    \cup [op : {"connect_shapes"}, from : Keys, to : Keys]
StructureRelations ==
  [kind : {"flow", "align", "grid", "contain", "nonOverlap", "freeze"}, nodes : SUBSET Keys]

Element(type) == [type |-> type, from |-> Nothing, to |-> Nothing]
NoScene       == [id \in {} |-> Element("rectangle")]
NoRefs        == [r \in {} |-> Nothing]
Nodes(scene)  == {id \in DOMAIN scene : scene[id].type # "arrow"}
Arrows(scene) == DOMAIN scene \ Nodes(scene)

\* f, and g where f has no value; and a function with one value.
Over(f, g) == [x \in DOMAIN f \cup DOMAIN g |-> IF x \in DOMAIN f THEN f[x] ELSE g[x]]
Only(x, v) == [y \in {x} |-> v]

\* The members of seq at these places, in their order.
Among(seq, places) ==
  LET taken[i \in 0 .. Len(seq)] ==
        IF i = 0 THEN <<>> ELSE IF i \in places THEN Append(taken[i - 1], seq[i]) ELSE taken[i - 1]
  IN  taken[Len(seq)]

-----------------------------------------------------------------------------
(* References: the keys an operation or a relation carries, and their      *)
(* replacement by what `look` finds (Nothing when it finds nothing).       *)

CarriedKeys(op) ==
  CASE op.op = "connect_shapes" -> {op.from, op.to}
    [] op.op \in {"move_shape", "update_text", "delete_shape"} -> {op.id}
    [] op.op = "place_region" -> op.ids \cup ({op.anchorId} \ {Nothing})
    [] OTHER -> {}

Unresolved(keys, look) == {k \in keys : look[k] = Nothing}

resolveCanvasOpReferences(op, look) ==
  CASE op.op = "connect_shapes" -> [op EXCEPT !.from = look[@], !.to = look[@]]
    [] op.op \in {"move_shape", "update_text", "delete_shape"} -> [op EXCEPT !.id = look[@]]
    [] op.op = "place_region" ->
         [op EXCEPT !.ids = {look[k] : k \in @}, !.anchorId = IF @ = Nothing THEN @ ELSE look[@]]
    [] OTHER -> op

\* A relation is its kind and its nodes; for contain the parent is one of them.
resolveStructureRelationReferences(relation, look) ==
  [relation EXCEPT !.nodes = {look[k] : k \in @}]

-----------------------------------------------------------------------------
(* Declared structure: which nodes the layout passes may move.             *)

NoScope == [spacing |-> {}, overlap |-> {}, relations |-> {}]

NodesOf(relations, kinds) == UNION {r.nodes : r \in {s \in relations : s.kind \in kinds}}

resolveScope(relations) ==
  LET frozen == NodesOf(relations, {"freeze"})
  IN  [spacing   |-> NodesOf(relations, {"flow"}) \ frozen,
       overlap   |-> NodesOf(relations, {"flow", "nonOverlap"}) \ frozen,
       relations |-> relations]

\* Mutant of mergeScope: the permissions are united and the older freeze is forgotten.
MergePermissions(into, add) ==
  [spacing |-> into.spacing \cup add.spacing, overlap |-> into.overlap \cup add.overlap,
   relations |-> into.relations \cup add.relations]

\* Two scopes of one user turn: the union is resolved again, so an older freeze still vetoes.
mergeScope(into, add) == resolveScope(into.relations \cup add.relations)

-----------------------------------------------------------------------------
(* One batch.  `b` is the working copy: byId the elements read from the    *)
(* scene, fresh the created ones, pending the created shapes connect may   *)
(* name by id, refs the refs of this batch, connects the ends of the       *)
(* arrows to draw.                                                         *)

newId(b) == CHOOSE id \in Ids : id \notin b.minted

Working(scene, minted) ==
  [byId |-> scene, fresh |-> NoScene, pending |-> {}, refs |-> NoRefs, connects |-> [id \in {} |-> {}],
   results |-> <<>>, edited |-> {}, minted |-> minted]

Resolve(b, key) ==
  IF key \in DOMAIN b.refs THEN b.refs[key]
  ELSE IF key \in DOMAIN b.byId \cup b.pending THEN key ELSE Nothing

Result(op, ok, ids, ref) == [op |-> op.op, ok |-> ok, ids |-> ids, ref |-> ref]
Fails(b, op)             == [b EXCEPT !.results = Append(@, Result(op, FALSE, {}, Nothing))]
Does(b, op, ids)         == [b EXCEPT !.results = Append(@, Result(op, TRUE, ids, Nothing)),
                                      !.edited = @ \cup ids]

Creates(b, op, type) ==
  LET id == newId(b)
  IN  [b EXCEPT !.fresh = Over(@, Only(id, Element(type))), !.minted = @ \cup {id},
                !.refs = IF op.ref = Nothing THEN @ ELSE Over(Only(op.ref, id), @),
                !.results = Append(@, Result(op, TRUE, {id}, op.ref))]

create_geo(b, op) ==
  LET c == Creates(b, op, "rectangle") IN [c EXCEPT !.pending = @ \cup (c.minted \ b.minted)]

create_text(b, op) == Creates(b, op, "text")

connect_shapes(b, op) ==
  LET from == Resolve(b, op.from)
      to   == Resolve(b, op.to)
      id   == newId(b)
  IN  IF Nothing \in {from, to} THEN Fails(b, op)
      ELSE [b EXCEPT !.connects = Over(@, Only(id, [from |-> from, to |-> to])),
                     !.minted = @ \cup {id},
                     !.results = Append(@, Result(op, TRUE, {id}, Nothing))]

move_shape(b, op)  == IF op.id \in DOMAIN b.byId THEN Does(b, op, {op.id}) ELSE Fails(b, op)
update_text(b, op) == move_shape(b, op)

place_region(b, op) ==
  LET moving == op.ids \cap Nodes(b.byId)
  IN  IF moving = {} THEN Fails(b, op) ELSE Does(b, op, moving)

delete_shape(b, op) ==
  IF op.id \notin DOMAIN b.byId THEN Fails(b, op)
  ELSE [Does(b, op, {op.id}) EXCEPT !.byId = Restrict(@, DOMAIN @ \ {op.id})]

ApplyOp(b, op) ==
  CASE op.op = "create_geo"     -> create_geo(b, op)
    [] op.op = "create_text"    -> create_text(b, op)
    [] op.op = "connect_shapes" -> connect_shapes(b, op)
    [] op.op = "move_shape"     -> move_shape(b, op)
    [] op.op = "place_region"   -> place_region(b, op)
    [] op.op = "update_text"    -> update_text(b, op)
    [] op.op = "delete_shape"   -> delete_shape(b, op)

\* The batch after its operations; each is evaluated once (TLC passes arguments by name).
ApplyOps(scene, minted, ops) ==
  LET done[i \in 0 .. Len(ops)] ==
        IF i = 0 THEN Working(scene, minted)
        ELSE CHOOSE b \in {ApplyOp(a, ops[i]) : a \in {done[i - 1]}} : TRUE
  IN  done[Len(ops)]

\* Arrows are drawn once every shape of the batch exists; an end that is gone or not
\* bindable leaves the whole arrow unbound.
DrawArrow(shapes, c) ==
  IF \A end \in {c.from, c.to} : end \in DOMAIN shapes /\ shapes[end].type \in BINDABLE
  THEN [type |-> "arrow", from |-> c.from, to |-> c.to]
  ELSE Element("arrow")

\* The scene a batch leaves, its results in the order of its operations, the ids it changed
\* or removed on request, and the nodes the intent passes were allowed to move.
Apply(scene, minted, ops, scope) ==
  CHOOSE done \in
    {LET shapes   == Over(b.byId, b.fresh)
         combined == Over(shapes, [id \in DOMAIN b.connects |-> DrawArrow(shapes, b.connects[id])])
     IN  [scene |-> combined, minted |-> b.minted, results |-> b.results, edited |-> b.edited,
          laidOut |-> (scope.spacing \cup scope.overlap) \cap Nodes(combined)]
       : b \in {ApplyOps(scene, minted, ops)}} : TRUE
=============================================================================
