---------------------------- MODULE CanvasLayout ----------------------------
(***************************************************************************)
(* The geometry of one batch of canvas operations: what apply of           *)
(* src/canvas/excalidrawPort.ts does to positions and arrows, over the     *)
(* plans of LayoutRepair and the paths of EdgeRouting.  CanvasScene has    *)
(* the rest of apply: ids, references and results.                         *)
(*                                                                         *)
(* A batch is applied in the stages of layoutPasses.ts, one step each, and *)
(* nothing else runs between two of them:                                  *)
(*   idle, spacing, overlap, routing                                       *)
(* Shapes are rectangles unless their type says otherwise, arrows are      *)
(* numbered in the order of their ids, and labels have a measured size.    *)
(***************************************************************************)
EXTENDS EdgeRouting

CONSTANTS
  Pages,     \* the scenes before the first batch: [order, boxes]
  Openings,  \* what the first batch may be
  Batches,   \* and every later one: [ops, declared]
  MaxBatches \* bound

\* Shapes have an extent: lines without width or height are left out.
OperationIsSound(op) ==
  /\ op.op = "create_geo" => op.at \in [x: Int, y: Int] /\ op.size \in [w: Nat \ {0}, h: Nat \ {0}]
  /\ op.op = "move_shape" => op.at \in [x: Int, y: Int]
  /\ op.op = "place_region" => op.margin \in Nat
  /\ op.op = "connect_shapes" => op.label \in [w: Nat, h: Nat]
\* A grid has columns (StructureRelation).
RelationIsSound(r) == r.nodes \in Seq(ToSet(r.nodes)) /\ (r.kind = "grid" => r.cols \in Nat \ {0})
ASSUME LayoutAssumption ==
  /\ \A page \in Pages : /\ IsFiniteSet(DOMAIN page.boxes) /\ page.boxes \in [DOMAIN page.boxes -> ShapeBox]
                         /\ page.order \in Seq(DOMAIN page.boxes)
  /\ \A b \in Openings \cup Batches :
       /\ b.ops \in Seq(ToSet(b.ops)) /\ \A op \in ToSet(b.ops) : OperationIsSound(op)
       /\ b.declared \in Seq(ToSet(b.declared)) /\ \A r \in ToSet(b.declared) : RelationIsSound(r)

VARIABLES
  stage,
  order, boxes,  \* the shapes in the order of the scene, and where they are
  arrows,        \* sequence of [id, from, to, label, focus, points]
  batch,         \* the locals of apply
  diagnostics,   \* what the last batch could not repair
  reported       \* history: arrows whose last route was a warning

layoutVars == <<stage, order, boxes, arrows, batch, diagnostics, reported>>

NoPlace     == Place(0, -1)  \* an operation without coordinates
NoFocus  == [start |-> 0, end |-> 0]
NoKept   == captureLayoutPreservation(<<>>, [i \in {} |-> 0], <<>>)
NoRegion  == [ids |-> {}, margin |-> MARGIN]
Idle     == [number |-> 0, declared |-> <<>>, created |-> {}, moved |-> {}, drawn |-> {}, placed |-> NoRegion,
             auto |-> {}, before |-> [i \in {} |-> 0], made |-> [i \in {} |-> 0], kept |-> NoKept, settled |-> TRUE]

LayoutInit ==
  /\ stage = "idle" /\ arrows = <<>> /\ batch = Idle /\ diagnostics = {} /\ reported = {}
  /\ \E page \in Pages : order = page.order /\ boxes = page.boxes

-----------------------------------------------------------------------------
(* The operations.  b carries the shapes, arrows and changes so far.       *)

Rectangle(at, size) == [x |-> at.x, y |-> at.y, w |-> size.w, h |-> size.h, type |-> "rectangle"]

\* autoPlaceMissing: a place for every shape without coordinates, before anything is done.
Unplaced(ops) == Only(ops, LAMBDA op : op.op = "create_geo" /\ op.at = NoPlace)
Linking(ops, ids) == Only(ops, LAMBDA op : op.op = "connect_shapes" /\ {op.from, op.to} \subseteq ids)
SizeOf(shapes, id) == (CHOOSE op \in ToSet(shapes) : op.id = id).size
PlacedAlong(shapes, ids, joins, existing) ==
  AutoPlace(ids, [i \in DOMAIN joins |-> <<joins[i].from, joins[i].to>>],
            [i \in ToSet(ids) |-> SizeOf(shapes, i)], existing)
IdsOf(shapes) == [i \in DOMAIN shapes |-> shapes[i].id]
AutoPlaced(ops, existing) ==
  IF Unplaced(ops) = <<>> THEN [i \in {} |-> NoPlace]
  ELSE PlacedAlong(Unplaced(ops), IdsOf(Unplaced(ops)), Linking(ops, ToSet(IdsOf(Unplaced(ops)))), existing)

create_geo(b, op, places) ==
  [b EXCEPT !.created = Append(@, op.id),
            !.fresh = Joined(@, [i \in {op.id} |-> Rectangle(IF op.at = NoPlace THEN places[op.id] ELSE op.at, op.size)])]

move_shape(b, op) ==
  IF op.id \notin DOMAIN b.boxes THEN b
  ELSE [b EXCEPT !.boxes[op.id] = At(@, op.at), !.moved = @ \cup {op.id}]

\* How far a region goes, to a vacant place as its anchor asks.
Drift(b, op, moving) ==
  LET region == UnionBox({b.boxes[i] : i \in moving})
      anchor == IF op.anchorId \in DOMAIN b.boxes THEN b.boxes[op.anchorId] ELSE region
      obstacles == {b.boxes[i] : i \in DOMAIN b.boxes \ moving}
  IN Minus(findVacantRect(region, obstacles, op.prefer, anchor, op.margin), region)
place_region(b, op) ==
  LET moving == op.ids \cap DOMAIN b.boxes
      d == Drift(b, op, moving)
      put == [ids |-> moving, margin |-> op.margin]
  IN CASE moving = {} -> b
       [] moving # {} /\ d = Place(0, 0) -> [b EXCEPT !.placed = put]
       [] OTHER -> [b EXCEPT !.boxes = [i \in DOMAIN @ |-> IF i \in moving THEN Moved(@[i], d.x, d.y) ELSE @[i]],
                             !.moved = @ \cup moving, !.placed = put]

delete_shape(b, op) ==
  [b EXCEPT !.boxes = Restrict(@, DOMAIN @ \ {op.id}), !.order = Only(@, LAMBDA i : i # op.id)]

\* A bound arrow runs between the outlines, towards the centres; an end that is not
\* bindable leaves it unbound, and no later pass looks at it.
DrawArrow(b, op) ==
  LET id == 1 + Len(b.arrows)
      ends == solveArrowEndpoints(b.boxes[op.from], b.boxes[op.to], NoFocus,
                                  Centre(b.boxes[op.from]), Centre(b.boxes[op.to]))
      bindable == {op.from, op.to} \subseteq DOMAIN b.boxes
                    /\ {b.boxes[op.from].type, b.boxes[op.to].type} \subseteq BINDABLE
  IN IF bindable THEN [b EXCEPT !.arrows = Append(@, [id |-> id, from |-> op.from, to |-> op.to, label |-> op.label,
                                                      focus |-> NoFocus, points |-> ends]),
                                !.drawn = @ \cup {id}]
     ELSE b

\* Shapes are created after the operations on those that were there, arrows last.
Applied(b, op, places) ==
  CASE op.op = "create_geo"   -> create_geo(b, op, places)
    [] op.op = "move_shape"   -> move_shape(b, op)
    [] op.op = "place_region" -> place_region(b, op)
    [] op.op = "delete_shape" -> delete_shape(b, op)
    [] OTHER -> b
AllApplied(b, ops, places) == Through(LAMBDA acc, op : Applied(acc, op, places), b, ops)
Settled(b) == [b EXCEPT !.boxes = Joined(@, b.fresh), !.order = @ \o b.created]
AllDrawn(b, ops) ==
  Through(LAMBDA acc, op : DrawArrow(acc, op), b, Only(ops, LAMBDA op : op.op = "connect_shapes"))
Operate(ops) ==
  LET start == [boxes |-> boxes, order |-> order, arrows |-> arrows, fresh |-> <<>>,
                created |-> <<>>, moved |-> {}, placed |-> NoRegion, drawn |-> {}]
  IN AllDrawn(Settled(AllApplied(start, ops, AutoPlaced(ops, {boxes[i] : i \in DOMAIN boxes}))), ops)

-----------------------------------------------------------------------------
(* What the compiler sees of the scene (compileCurrentPlan).               *)

Edges == Only(arrows, LAMBDA a : {a.from, a.to} \subseteq DOMAIN boxes)
Frozen(declared)   == Named(Of(declared, "freeze"))
MaySpace(declared) == Named(Of(declared, "flow")) \ Frozen(declared)
MaySpread(declared) == Named(Of(declared, "flow") \cup Of(declared, "nonOverlap")) \ Frozen(declared)
Movable == batch.created \cup batch.moved \cup MaySpread(batch.declared)

\* The shapes that arrows join, or joined before the shapes were deleted.
Ends == UNION {{a.from, a.to} : a \in ToSet(arrows)}
Materialize(ops, declared) ==
  /\ stage = "idle" /\ batch.number < MaxBatches
  /\ \A i \in DOMAIN ops : ops[i].op = "create_geo" => ops[i].id \notin DOMAIN boxes \cup Ends  \* ids are minted
  /\ \E b \in {Operate(ops)} :
       /\ boxes' = b.boxes /\ order' = b.order /\ arrows' = b.arrows
       /\ batch' = [number |-> batch.number + 1, declared |-> declared, created |-> ToSet(b.created),
                    moved |-> b.moved, drawn |-> b.drawn, placed |-> b.placed,
                    auto |-> {ops[i].id : i \in {j \in DOMAIN ops : ops[j].op = "create_geo" /\ ops[j].at = NoPlace}},
                    before |-> boxes, made |-> b.boxes,
                    kept |-> captureLayoutPreservation(b.order, b.boxes, declared), settled |-> TRUE]
  /\ stage' = IF declared = <<>> THEN "routing" ELSE "spacing"
  /\ diagnostics' = {} /\ UNCHANGED reported

\* applyMoves: what protectLayoutMoves lets through.
ApplyMoves(proposed, allowed, corridors) ==
  \E guarded \in {IF proposed = boxes THEN [boxes |-> boxes, issues |-> {}, settled |-> TRUE]
                    ELSE protectLayoutMoves(boxes, proposed, allowed, batch.kept, corridors)} :
    /\ boxes' = guarded.boxes
    /\ batch' = [batch EXCEPT !.moved = @ \cup {i \in DOMAIN boxes : guarded.boxes[i] # boxes[i]},
                              !.settled = @ /\ guarded.settled]

spacingPass ==
  /\ stage = "spacing"
  /\ \E corridors \in {Corridors(boxes, Edges, batch.declared)} :
       ApplyMoves(expandFlowSpacing(boxes, corridors, Named(Of(batch.declared, "flow")) \cap DOMAIN boxes,
                                    MaySpace(batch.declared)),
                  MaySpace(batch.declared), corridors)
  /\ stage' = "overlap"
  /\ UNCHANGED <<order, arrows, diagnostics, reported>>

avoidPass ==
  /\ stage = "overlap"
  /\ ApplyMoves(ResolveOverlaps(order, boxes, MaySpread(batch.declared), batch.kept.ignored),
                MaySpread(batch.declared), Corridors(boxes, Edges, batch.declared))
  /\ stage' = "routing"
  /\ UNCHANGED <<order, arrows, diagnostics, reported>>

-----------------------------------------------------------------------------
(* arrowPass (routeArrows).                                                *)

\* Mutant of routeNeedsUpdate: a shape that comes to stand in its way is not noticed.
EndsChanged(arrow) == arrow.id \in batch.drawn \/ {arrow.from, arrow.to} \cap (batch.created \cup batch.moved) # {}

\* Its ends or a shape in its way changed, or it was drawn by this batch.
routeNeedsUpdate(arrow) ==
  LET changed == batch.created \cup batch.moved
      inTheWay == {boxes[i] : i \in (changed \cap DOMAIN boxes)
                                      \ ({arrow.from, arrow.to} \cup TransparentTo(boxes, arrow))}
  IN \/ arrow.id \in batch.drawn \/ {arrow.from, arrow.to} \cap changed # {}
     \/ PathHits(arrow.points, inTheWay, DEFAULT_CLEARANCE)
     \/ arrow.label # NoLabel /\ ~Clear(LabelBox(arrow.points, arrow.label), inTheWay, 4)

\* An old arrow keeps its bends: it moves along with both ends, or its ends are solved again.
reanchorArrow(arrow) ==
  LET by(i) == Minus(boxes[i], batch.before[i])
      path == arrow.points
      n == Len(path)
      first == solveEndpoint(boxes[arrow.from], arrow.focus.start, path[2])
      last == solveEndpoint(boxes[arrow.to], arrow.focus.end, path[n - 1])
  IN [arrow EXCEPT !.points =
        CASE by(arrow.from) = by(arrow.to) -> [k \in DOMAIN path |-> Plus(path[k], by(arrow.from))]
          [] by(arrow.from) # by(arrow.to) /\ n = 2 ->
               solveArrowEndpoints(boxes[arrow.from], boxes[arrow.to], arrow.focus, path[1], path[2])
          [] OTHER -> [path EXCEPT ![1] = first, ![n] = last]]

\* A new one is straight, at the ports planned for it.
reflowArrow(arrow, focus) ==
  [arrow EXCEPT !.focus = focus,
                !.points = solveArrowEndpoints(boxes[arrow.from], boxes[arrow.to], focus,
                                               Centre(boxes[arrow.from]), Centre(boxes[arrow.to]))]

\* The four borders of a container, which a label must not sit on.
Borders(box) ==
  {[box EXCEPT !.h = 4], [box EXCEPT !.y = @ + box.h - 4, !.h = 4],
   [box EXCEPT !.w = 4], [box EXCEPT !.x = @ + box.w - 4, !.w = 4]}

\* acc has the arrows, labels and segments this batch has routed so far.
Routed(acc, arrow, route) ==
  [arrows   |-> [acc.arrows EXCEPT ![arrow.id].points = route.points, ![arrow.id].focus = arrow.focus],
   occupied |-> acc.occupied \cup Segments(route.points),
   labels   |-> acc.labels \cup (IF arrow.label = NoLabel THEN {} ELSE {LabelBox(route.points, arrow.label)}),
   warned   |-> acc.warned \cup (IF route.warned THEN {arrow.id} ELSE {})]
\* routeArrowElement
RouteArrow(acc, arrow, offset) ==
  LET through == TransparentTo(boxes, arrow)
      solid == DOMAIN boxes \ through
      ends == {arrow.from, arrow.to}
      kept == arrow.id \notin batch.drawn
  IN Routed(acc, arrow, routePlannedArrow(
       [from |-> boxes[arrow.from], to |-> boxes[arrow.to], loop |-> arrow.from = arrow.to,
        focus |-> arrow.focus, offset |-> offset, label |-> arrow.label,
        start |-> Head(arrow.points), end |-> Last(arrow.points),
        obstacles |-> acc.labels \cup {boxes[i] : i \in solid \ ends},
        labelObstacles |-> acc.labels \cup {boxes[i] : i \in solid} \cup UNION {Borders(boxes[i]) : i \in through},
        occupied |-> acc.occupied, kept |-> IF kept THEN arrow.points ELSE <<>>]))

Rerouted(acc, e, edges, focus) ==
  RouteArrow(acc, IF edges[e].id \in batch.drawn THEN reflowArrow(edges[e], focus[e]) ELSE reanchorArrow(edges[e]),
             assignParallelOffsets(order, edges, e))
AllRouted(acc, queue, edges, focus) == Through(LAMBDA done, e : Rerouted(done, e, edges, focus), acc, queue)
\* Those that stay hold their segments and labels; labelled arrows are routed first.
RouteAll ==
  LET edges == Edges
      stay == {e \in DOMAIN edges : ~routeNeedsUpdate(edges[e])}
      affected == Only([e \in DOMAIN edges |-> e], LAMBDA e : e \notin stay)
      labelled(e) == edges[e].label # NoLabel
      queue == Only(affected, LAMBDA e : labelled(e)) \o Only(affected, LAMBDA e : ~labelled(e))
      start == [arrows |-> arrows, warned |-> {},
                occupied |-> UNION {Segments(edges[e].points) : e \in stay},
                labels |-> {LabelBox(edges[e].points, edges[e].label) : e \in {f \in stay : labelled(f)}}]
  IN [done |-> AllRouted(start, queue, edges, assignPortFocus(boxes, edges)),
      routed |-> {edges[e].id : e \in ToSet(affected)}]

arrowPass ==
  /\ stage = "routing"
  /\ \E all \in {RouteAll} :
       /\ arrows' = all.done.arrows
       /\ reported' = (reported \ all.routed) \cup all.done.warned
       /\ diagnostics' = {<<"route", id, id>> : id \in all.done.warned}
            \cup remainingLayoutConflicts(boxes, Movable, batch.kept, Corridors(boxes, Edges, batch.declared))
  /\ stage' = "idle"
  /\ UNCHANGED <<order, boxes, batch>>

LayoutNext ==
  \/ \E b \in IF batch.number = 0 THEN Openings ELSE Batches : Materialize(b.ops, b.declared)
  \/ spacingPass \/ avoidPass \/ arrowPass

LayoutSpec == LayoutInit /\ [][LayoutNext]_layoutVars

-----------------------------------------------------------------------------
(* Properties.                                                             *)

\* Boxes at least a margin apart along one axis.
Apart(a, b, margin) ==
  \E axis \in Axes : \/ a[axis] + Extent(a, axis) + margin <= b[axis]
                     \/ b[axis] + Extent(b, axis) + margin <= a[axis]

\* What the framework places it places in the clear: a region that place_region moved
\* stands as far as asked from every shape that was on the canvas and stayed, and shapes created
\* without coordinates stand apart from those and from each other
\* (findVacantRect, autoPlaceMissing).
PlacedIsClear ==
  batch.number > 0 =>
    LET made == batch.made
        old == DOMAIN made \ (batch.created \cup batch.moved)
        apart(S, T, margin) == \A i \in S, j \in T : i # j => Apart(made[i], made[j], margin)
    IN /\ apart(batch.placed.ids, old \ batch.placed.ids, batch.placed.margin)
       /\ apart(batch.auto, old, MARGIN) /\ apart(batch.auto, batch.auto, MARGIN)

\* The rows and columns moved as one.
LinesHold ==
  \A axis \in Axes : \A g \in ToSet(batch.kept.groups[axis]) : \A i, j \in g :
    boxes[i][axis] - batch.made[i][axis] = boxes[j][axis] - batch.made[j][axis]

\* A repair keeps the composition it found: shapes that the declared structure does not
\* free stay where they were, what stood before another along an axis is not past it, a
\* container holds what it held, no two shapes overlap more than they did, and a row or
\* column is not pulled apart if there are no containers or the moves settled in the passes
\* they get - whatever the two passes did one after the other (protectLayoutMoves, with
\* what captureLayoutPreservation saw before either).
RepairKeepsComposition ==
  stage # "spacing" =>
    LET made == batch.made
        ids == DOMAIN made
        Kin(i, j) == i # j /\ {i, j} \notin batch.kept.ignored
    IN /\ \A i \in ids \ MaySpread(batch.declared) : boxes[i] = made[i]
       /\ \A axis \in Axes : \A ij \in batch.kept.order[axis] :
            Middle(boxes[ij[1]], axis) < Middle(boxes[ij[2]], axis)
       /\ batch.kept.containers = <<>> \/ batch.settled => LinesHold
       /\ \A pc \in ToSet(batch.kept.containers) :
            boxContains(made[pc[1]], made[pc[2]]) => boxContains(boxes[pc[1]], boxes[pc[2]])
       /\ \A i, j \in ids : Kin(i, j) => OverlapArea(boxes[i], boxes[j]) <= OverlapArea(made[i], made[j])

\* A repair never pulls a row or column apart: moves are extended to all of it
\* ("Extend a proposal to aligned rows/columns and reject composition regressions
\* atomically", protectLayoutMoves).
RowsStayWhole == stage # "spacing" => LinesHold

\* Between batches an arrow runs from shape to shape, however often and in whatever order
\* they were moved, and through no other one unless a warning says so: the arrows judged
\* not to need a new route are as clear as those that got one (routeNeedsUpdate,
\* reanchorArrow, routePlannedArrow).
RoutesHold ==
  stage = "idle" =>
    \A e \in DOMAIN Edges :
      LET arrow == Edges[e]
          others == {boxes[i] : i \in DOMAIN boxes \ ({arrow.from, arrow.to} \cup TransparentTo(boxes, arrow))}
          touches(box, p) == SegmentHits(p, p, box, GAP)
      IN /\ touches(boxes[arrow.from], Head(arrow.points)) /\ touches(boxes[arrow.to], Last(arrow.points))
         /\ arrow.id \notin reported => ~PathHits(arrow.points, others, DEFAULT_CLEARANCE)
=============================================================================
