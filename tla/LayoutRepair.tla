---------------------------- MODULE LayoutRepair ----------------------------
(***************************************************************************)
(* What the layout passes plan and what they may move                      *)
(* (src/canvas/layoutPlan.ts, layoutPreservation.ts and the edge plans of  *)
(* layout.ts).  A scene is its nodes in `order`, their `boxes` (a type and *)
(* a rectangle) and a sequence of edges [from, to, label], which stands in *)
(* the order of their ids.  Relations are those of src/protocol/structure: *)
(* [kind, nodes] and, where the kind has them, way, cols or parent.        *)
(* Pixels are integers, so EPSILON is nothing here.                        *)
(***************************************************************************)
EXTENDS LayoutGeometry

MIN_CONNECTOR_GAP == 72
MAX_CONNECTOR_GAP == 120
EXTRA_LANE_GAP    == 14
ALIGN_TOLERANCE   == 2

NoLabel  == [w |-> 0, h |-> 0]
BINDABLE == {"rectangle", "ellipse", "diamond"}
ContainerTypes == {"rectangle", "frame"}
AlignableTypes == BINDABLE \cup {"text", "frame"}
Axes == {"x", "y"}

Extent(box, axis) == IF axis = "x" THEN box.w ELSE box.h
Middle(box, axis) == 2 * box[axis] + Extent(box, axis)  \* twice the centre
Across(axis)      == IF axis = "x" THEN "y" ELSE "x"
Area(box)         == box.w * box.h
Shift(box, axis, d) == [box EXCEPT ![axis] = @ + d]

\* What is declared is a sequence of relations; those of a kind, and the nodes some name.
Of(declared, kind) == {r \in ToSet(declared) : r.kind = kind}
Named(relations)   == UNION {ToSet(r.nodes) : r \in relations}

\* Sequences one after the other; a sequence without its repetitions.
Chained(seqs) == Through(LAMBDA acc, seq : acc \o seq, <<>>, seqs)
FirstOnes(seq) == Picked(seq, {n \in DOMAIN seq : \A m \in 1..n - 1 : seq[m] # seq[n]})
\* The pairs of two nested loops, and of those whose inner loop starts behind the outer one.
Pairs(seq)      == Chained([i \in DOMAIN seq |-> [j \in DOMAIN seq |-> <<seq[i], seq[j]>>]])
LaterPairs(seq) == Chained([i \in DOMAIN seq |-> [j \in 1..Len(seq) - i |-> <<seq[i], seq[i + j]>>]])
Couples(pairs)  == [n \in DOMAIN pairs |-> {pairs[n][1], pairs[n][2]}]

boxContains(parent, child) ==
  /\ child.x >= parent.x - ALIGN_TOLERANCE /\ child.y >= parent.y - ALIGN_TOLERANCE
  /\ child.x + child.w <= parent.x + parent.w + ALIGN_TOLERANCE
  /\ child.y + child.h <= parent.y + parent.h + ALIGN_TOLERANCE
contains(parent, child) ==
  parent.type \in ContainerTypes /\ Area(parent) > Area(child) /\ boxContains(parent, child)
OverlapArea(a, b) == Most(0, Overlap(a, b, "x")) * Most(0, Overlap(a, b, "y"))

-----------------------------------------------------------------------------
(* captureLayoutPreservation                                               *)

\* [parent, child]: what stands in a box, then what is declared to.
Containers(order, boxes, declared) ==
  LET ids == DOMAIN boxes
      standing == Only(Pairs(order), LAMBDA pc : pc[1] # pc[2] /\ contains(boxes[pc[1]], boxes[pc[2]]))
      Content(r) == IF r.kind = "contain" THEN [n \in DOMAIN r.nodes |-> <<r.parent, r.nodes[n]>>] ELSE <<>>
      asked == Chained([n \in DOMAIN declared |-> Content(declared[n])])
  IN FirstOnes(standing \o Only(asked, LAMBDA pc : pc[1] # pc[2] /\ {pc[1], pc[2]} \subseteq ids))

\* The smallest of the containers of a node, the first of two as small.
Parent(boxes, containers, id) ==
  LET around == Only(containers, LAMBDA pc : pc[2] = id)
      Size(n) == Area(boxes[around[n][1]])
  IN IF around = <<>> THEN "none"
     ELSE around[CHOOSE n \in DOMAIN around : \A m \in DOMAIN around :
                   Size(n) < Size(m) \/ (Size(n) = Size(m) /\ n <= m)][1]

\* The rows (axis y) or columns (axis x) a relation declares; those without members do not count.
DeclaredGroups(r, axis) ==
  LET line(n) == IF axis = "y" THEN (n - 1) \div r.cols ELSE (n - 1) % r.cols
  IN CASE r.kind = "align" -> IF r.way = axis THEN <<ToSet(r.nodes)>> ELSE <<>>
       [] r.kind = "grid" -> [k \in 1..Most(Len(r.nodes), r.cols) |->
                                {r.nodes[n] : n \in {m \in DOMAIN r.nodes : line(m) = k - 1}}]
       [] OTHER -> <<>>

\* Two nodes on one line along `axis` that do not coincide across it.
Aligned(a, b, axis) ==
  /\ {a.type, b.type} \subseteq AlignableTypes
  /\ Distance(Middle(a, Across(axis)), Middle(b, Across(axis))) > 2 * ALIGN_TOLERANCE
  /\ \E anchor \in 0..2 : Distance(2 * a[axis] + anchor * Extent(a, axis),
                                   2 * b[axis] + anchor * Extent(b, axis)) <= 2 * ALIGN_TOLERANCE

captureLayoutPreservation(order, boxes, declared) ==
  LET ids == DOMAIN boxes
      containers == Containers(order, boxes, declared)
      ignored == {{pc[1], pc[2]} : pc \in ToSet(containers)}
      parents == [i \in ids |-> Parent(boxes, containers, i)]
      Siblings(i, j) == i # j /\ {i, j} \notin ignored /\ parents[i] = parents[j]
      Asked(axis) == Chained([n \in DOMAIN declared |-> DeclaredGroups(declared[n], axis)])
      Live(axis) == [n \in DOMAIN Asked(axis) |-> Asked(axis)[n] \cap ids]
      Lines(axis) == Only(LaterPairs(order), LAMBDA p : Siblings(p[1], p[2]) /\ Aligned(boxes[p[1]], boxes[p[2]], axis))
  IN [containers |-> containers,
      ignored    |-> ignored,
      groups     |-> [axis \in Axes |-> Only(Live(axis), LAMBDA g : Cardinality(g) > 1)
                                          \o Couples(Lines(axis))],
      order      |-> [axis \in Axes |->
        {q \in ids \X ids : Siblings(q[1], q[2]) /\ boxes[q[1]][axis] + Extent(boxes[q[1]], axis) <= boxes[q[2]][axis]}]]

-----------------------------------------------------------------------------
(* compileLayoutPlan: the corridors that declared flows ask for.           *)

facingSide(from, to) ==
  LET dx == Middle(to, "x") - Middle(from, "x")
      dy == Middle(to, "y") - Middle(from, "y")
  IN IF Distance(0, dx) >= Distance(0, dy) THEN (IF dx >= 0 THEN "right" ELSE "left")
     ELSE IF dy >= 0 THEN "bottom" ELSE "top"

\* The ends of edges on one side of a node.
LaneCount(boxes, edges, id, side) ==
  Cardinality({e \in DOMAIN edges : edges[e].from = id /\ facingSide(boxes[id], boxes[edges[e].to]) = side})
    + Cardinality({e \in DOMAIN edges : edges[e].to = id /\ facingSide(boxes[id], boxes[edges[e].from]) = side})

\* The flows with a step from one node to the next; the last gives the axis, or takes the longer one.
FlowsAlong(declared, from, to) ==
  Only(declared, LAMBDA r : r.kind = "flow" /\ \E i \in 1..Len(r.nodes) - 1 : r.nodes[i] = from /\ r.nodes[i + 1] = to)
FlowAxis(boxes, r, from, to) ==
  LET apart(axis) == Distance(boxes[from][axis], boxes[to][axis])
  IN CASE r.way = "down" -> "y" [] r.way = "right" -> "x"
       [] OTHER -> IF apart("y") >= apart("x") THEN "y" ELSE "x"

\* The edges that follow a flow, each with its axis and the gap it requires.
Crowding(boxes, edges, e) ==
  Most(LaneCount(boxes, edges, e.from, facingSide(boxes[e.from], boxes[e.to])),
       LaneCount(boxes, edges, e.to, facingSide(boxes[e.to], boxes[e.from])))
FlowCorridor(boxes, edges, declared, e) ==
  LET axis == FlowAxis(boxes, Last(FlowsAlong(declared, e.from, e.to)), e.from, e.to)
      labelled == IF e.label = NoLabel THEN 0 ELSE 24 + Extent(e.label, axis)
      crowded == MIN_CONNECTOR_GAP + (Crowding(boxes, edges, e) - 1) * EXTRA_LANE_GAP
  IN [from |-> e.from, to |-> e.to, axis |-> axis, gap |-> Most(Least(MAX_CONNECTOR_GAP, crowded), labelled)]
Corridors(boxes, edges, declared) ==
  LET follows == Only(edges, LAMBDA e : FlowsAlong(declared, e.from, e.to) # <<>>)
  IN [i \in DOMAIN follows |-> FlowCorridor(boxes, edges, declared, follows[i])]

flowGap(boxes, c) == boxes[c.to][c.axis] - boxes[c.from][c.axis] - Extent(boxes[c.from], c.axis)
Deficit(boxes, c) == c.gap - flowGap(boxes, c)

\* Forward chains are stretched where they are too tight, as often as the flows have nodes.
Relaxed(boxes, c, movable) ==
  IF c.to \in movable /\ Deficit(boxes, c) > 0
    THEN [boxes EXCEPT ![c.to] = Shift(@, c.axis, Deficit(boxes, c))] ELSE boxes
Stretched(boxes, corridors, movable) == Through(LAMBDA acc, c : Relaxed(acc, c, movable), boxes, corridors)
expandFlowSpacing(boxes, corridors, flowNodes, movable) ==
  Through(LAMBDA acc, n : Stretched(acc, corridors, movable), boxes, [n \in 1..Cardinality(flowNodes) |-> n])

-----------------------------------------------------------------------------
(* protectLayoutMoves: rows and columns follow a move; a move that would   *)
(* spoil the composition is rejected with all the others of its pass.      *)

\* The moves along one axis, and what became of them: a group follows the farthest of its
\* moves; moves both ways tear it, and it stays as it is.
FarthestIn(by, group) ==
  LET moves == {by[i] : i \in group}
  IN IF Max(moves) > 0 THEN Max(moves) ELSE Min(moves)
TornIn(by, group) == (\E i \in group : by[i] > 0) /\ (\E i \in group : by[i] < 0)
EvenIn(by, group) == \A i \in group : by[i] = FarthestIn(by, group)
Taken(by, group) == [i \in DOMAIN by |-> IF i \in group THEN FarthestIn(by, group) ELSE by[i]]
Follow(acc, group) ==
  CASE TornIn(acc.by, group) -> [acc EXCEPT !.torn = TRUE]
    [] EvenIn(acc.by, group) -> acc
    [] OTHER -> [acc EXCEPT !.by = Taken(@, group), !.changed = TRUE]
\* One pass: the groups in turn, then the content of the containers that move as it begins.
Pulled(by, containers) ==
  Couples(Only(containers, LAMBDA pc : by[pc[1]] # 0))
Pass(acc, groups, containers) ==
  Through(LAMBDA done, group : Follow(done, group), [acc EXCEPT !.changed = FALSE],
          groups \o Pulled(acc.by, containers))
\* One pass more than there are shapes; the code stops before when one changes nothing, and so
\* would the next.  Whether the last one did is not looked at.
Spread(shift, groups, containers) ==
  Through(LAMBDA acc, n : Pass(acc, groups, containers), [by |-> shift, torn |-> FALSE, changed |-> TRUE],
          [n \in 1..Cardinality(DOMAIN shift) + 1 |-> n])

\* What is wrong with moving the nodes from `boxes` to `candidate`.
MoveIssues(boxes, candidate, allowed, kept, corridors) ==
  LET ids == DOMAIN boxes
      frozen == {i \in ids \ allowed : candidate[i] # boxes[i]}
      burst == {pc \in ToSet(kept.containers) : ~boxContains(candidate[pc[1]], candidate[pc[2]])}
      reversed == {ij \in ids \X ids : \E axis \in Axes :
                     ij \in kept.order[axis] /\ Middle(candidate[ij[1]], axis) >= Middle(candidate[ij[2]], axis)}
      crushed == {ij \in ids \X ids :
                    /\ ij[1] # ij[2] /\ {ij[1], ij[2]} \notin kept.ignored
                    /\ OverlapArea(candidate[ij[1]], candidate[ij[2]]) > OverlapArea(boxes[ij[1]], boxes[ij[2]])}
      tightened == {c \in ToSet(corridors) : Deficit(candidate, c) > Most(0, Deficit(boxes, c))}
  IN {why \in {"frozen", "container", "order", "overlap", "corridor"} :
        CASE why = "frozen"    -> frozen # {}
          [] why = "container" -> burst # {}
          [] why = "order"     -> reversed # {}
          [] why = "overlap"   -> crushed # {}
          [] why = "corridor"  -> tightened # {}}

\* Mutant of protectLayoutMoves: the proposal as it is, rows and columns not taken along.
MoveAlone(boxes, proposed, allowed, kept, corridors) ==
  LET issues == MoveIssues(boxes, proposed, allowed, kept, corridors)
  IN [boxes |-> IF issues = {} THEN proposed ELSE boxes, issues |-> issues, settled |-> TRUE]

\* How far every shape is moved along each axis, to follow what is proposed.
Spreads(boxes, proposed, kept) ==
  [axis \in Axes |-> Spread([i \in DOMAIN boxes |-> proposed[i][axis] - boxes[i][axis]],
                            kept.groups[axis], kept.containers)]
Torn(spread)    == \E axis \in Axes : spread[axis].torn
Followers(boxes, spread) == [i \in DOMAIN boxes |-> Moved(boxes[i], spread["x"].by[i], spread["y"].by[i])]
\* settled: the last pass changed nothing, or nothing is moved.
protectLayoutMoves(boxes, proposed, allowed, kept, corridors) ==
  LET spread == Spreads(boxes, proposed, kept)
      candidate == Followers(boxes, spread)
      issues == IF Torn(spread) THEN {"alignment"} ELSE MoveIssues(boxes, candidate, allowed, kept, corridors)
  IN [boxes   |-> IF issues = {} THEN candidate ELSE boxes, issues |-> issues,
      settled |-> issues = {} => \A axis \in Axes : ~spread[axis].changed]

\* What the passes leave to be said of the nodes they could have moved.
remainingLayoutConflicts(boxes, movable, kept, corridors) ==
  {<<"container", pc[1], pc[2]>> : pc \in {qc \in ToSet(kept.containers) :
       {qc[1], qc[2]} \cap movable # {} /\ ~boxContains(boxes[qc[1]], boxes[qc[2]])}}
  \cup {<<"overlap", p[1], p[2]>> : p \in {q \in (DOMAIN boxes) \X (DOMAIN boxes) :
       /\ q[1] # q[2] /\ {q[1], q[2]} \cap movable # {} /\ {q[1], q[2]} \notin kept.ignored
       /\ OverlapArea(boxes[q[1]], boxes[q[2]]) > 0}}
  \cup {<<"corridor", c.from, c.to>> : c \in {d \in ToSet(corridors) : Deficit(boxes, d) > 0}}

-----------------------------------------------------------------------------
(* The plan of the edges: bows for those that share their ends, ports for  *)
(* those that share a side.  Focus is in hundredths.                       *)

Same(e, f) == {e.from, e.to} = {f.from, f.to}

\* Half a step of 48 for each place from the middle, to the other side for a reversed edge.
assignParallelOffsets(order, edges, e) ==
  LET twins == {f \in DOMAIN edges : Same(edges[f], edges[e])}
      place == Cardinality({f \in twins : f < e})
      forward == IndexFirstSubSeq(<<edges[e].from>>, order) < IndexFirstSubSeq(<<edges[e].to>>, order)
      side == (2 * place - (Cardinality(twins) - 1)) * 24
  IN IF forward THEN side ELSE -side

CLEARANCE == 10
\* The straight line between the centres crosses a third box.
bowedEdges(boxes, edges) ==
  {e \in DOMAIN edges : \E o \in (DOMAIN boxes) \ {edges[e].from, edges[e].to} :
     SegmentHits(Centre(boxes[edges[e].from]), Centre(boxes[edges[e].to]), boxes[o], CLEARANCE)}

\* The side by the azimuth, a diagonal counted to the next one clockwise.
PortSide(v) ==
  CASE Distance(0, v.y) < Distance(0, v.x) -> IF v.x > 0 THEN "right" ELSE "left"
    [] Distance(0, v.y) > Distance(0, v.x) -> IF v.y > 0 THEN "bottom" ELSE "top"
    [] v.x > 0 -> IF v.y > 0 THEN "bottom" ELSE "right"
    [] v.x < 0 -> IF v.y > 0 THEN "left" ELSE "top"
    [] OTHER   -> "right"

\* The ports on a side, a step of 30 apart and within 60 of its middle.
Spaced(ahead, crowd) == Most(-60, Least(60, 15 * (2 * Cardinality(ahead) - (Cardinality(crowd) - 1))))
assignPortFocus(boxes, edges) ==
  LET bowed == bowedEdges(boxes, edges)
      alone == {e \in (DOMAIN edges) \ bowed : \A f \in (DOMAIN edges) \ {e} : ~Same(edges[e], edges[f])}
      Shape(p) == IF p[2] = "start" THEN edges[p[1]].from ELSE edges[p[1]].to
      To(p) == IF p[2] = "start" THEN edges[p[1]].to ELSE edges[p[1]].from
      Aim(p) == Place(Middle(boxes[To(p)], "x") - Middle(boxes[Shape(p)], "x"),
                      Middle(boxes[To(p)], "y") - Middle(boxes[Shape(p)], "y"))
      Crowd(p) == {q \in alone \X {"start", "end"} : Shape(q) = Shape(p) /\ PortSide(Aim(q)) = PortSide(Aim(p))}
      \* in front of p clockwise along the side; ends in the same direction by their edges
      Ahead(q, p) == LET turn == Aim(q).x * Aim(p).y - Aim(q).y * Aim(p).x
                     IN \/ turn > 0
                        \/ turn = 0 /\ (q[1] < p[1] \/ (q[1] = p[1] /\ q[2] = "start" /\ p[2] = "end"))
      Focus(p) == IF p[1] \notin alone \/ Cardinality(Crowd(p)) < 2 THEN 0
                  ELSE Spaced({q \in Crowd(p) : Ahead(q, p)}, Crowd(p))
  IN [e \in DOMAIN edges |-> [start |-> Focus(<<e, "start">>), end |-> Focus(<<e, "end">>)]]

\* Containers of either end are boundaries to an edge, not obstacles.
TransparentTo(boxes, edge) ==
  {i \in DOMAIN boxes : contains(boxes[i], boxes[edge.from]) \/ contains(boxes[i], boxes[edge.to])}
=============================================================================
