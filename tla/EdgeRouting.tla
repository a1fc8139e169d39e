---------------------------- MODULE EdgeRouting ----------------------------
(***************************************************************************)
(* The path of one arrow (src/canvas/edgeRouting.ts, the bend of           *)
(* routeBoundArrow in layout.ts and the endpoints of bindingGeometry.ts,   *)
(* for rectangles that are not rotated).  A path is a sequence of points;  *)
(* coordinates and lengths are rounded to pixels, focus is in hundredths.  *)
(***************************************************************************)
EXTENDS LayoutRepair

GAP           == 8
LABEL_PAD     == 12
LANE_EPSILON  == 2
DEFAULT_CLEARANCE == 14
BEND_COST     == 42
CROSSING_COST == 320

Minus(a, b) == Place(a.x - b.x, a.y - b.y)
Plus(a, b)  == Place(a.x + b.x, a.y + b.y)
Cross(a, b) == a.x * b.y - a.y * b.x
Between(a, b) == Place(Half(a.x + b.x), Half(a.y + b.y))
\* n divided by a positive d, towards zero.
Quotient(n, d) == IF n < 0 THEN -((-n) \div d) ELSE n \div d
Root(n) == IF n = 0 THEN 0 ELSE Through(LAMBDA r, i : Half(r + n \div r), 1 + Half(n) , [i \in 1..20 |-> i])
SegmentLength(a, b) ==
  IF a.x = b.x \/ a.y = b.y THEN Distance(a.x, b.x) + Distance(a.y, b.y) ELSE Root(Square(a, b))

-----------------------------------------------------------------------------
(* solveEndpoint: where an arrow from `adjacent` meets a shape.            *)

Grown(box, pad) == [box EXCEPT !.x = @ - pad, !.y = @ - pad, !.w = @ + 2 * pad, !.h = @ + 2 * pad]

\* Towards corner k of the box, clockwise from the left top one.
Corner(box, k) == Place(IF k % 4 \in {1, 2} THEN box.x + box.w ELSE box.x, IF k % 4 >= 2 THEN box.y + box.h ELSE box.y)
Towards(box, focus, k) ==
  LET d == Minus(Corner(box, k), Centre(box))
  IN Plus(Centre(box), Place(Quotient(Distance(0, focus) * d.x, 100), Quotient(Distance(0, focus) * d.y, 100)))
Outside(a, b, point) == Cross(Minus(point, a), Minus(b, a))
Faces(box, focus, adjacent, k) ==
  LET beyond(j) == Outside(Towards(box, focus, j), Towards(box, focus, j + 1), adjacent)
  IN beyond(k) > 0 /\ beyond(IF focus > 0 THEN k + 1 ELSE k + 3) < 0
\* The centre, or towards the corner that the side facing `adjacent` ends in.
determineFocusPoint(box, focus, adjacent) ==
  IF focus = 0 THEN Centre(box)
  ELSE Towards(box, focus, (IF focus > 0 THEN 1 ELSE 0) + Min({3} \cup {k \in 0..2 : Faces(box, focus, adjacent, k)}))

\* The first crossing of the outline on the way to `aim`, which is taken when `adjacent` is inside.
FirstCrossing(outline, aim, adjacent) ==
  LET d == Minus(aim, adjacent)
      sideX == IF adjacent.x <= outline.x THEN outline.x ELSE outline.x + outline.w
      sideY == IF adjacent.y <= outline.y THEN outline.y ELSE outline.y + outline.h
      outX == adjacent.x <= outline.x \/ adjacent.x >= outline.x + outline.w
      outY == adjacent.y <= outline.y \/ adjacent.y >= outline.y + outline.h
      x == Distance(adjacent.x, sideX)
      y == Distance(adjacent.y, sideY)
  IN CASE ~outX /\ ~outY -> aim
       [] outX /\ (outY => x * Distance(0, d.y) >= y * Distance(0, d.x)) ->
            Place(sideX, adjacent.y + Quotient(d.y * x, Distance(0, d.x)))
       [] OTHER -> Place(adjacent.x + Quotient(d.x * y, Distance(0, d.y)), sideY)
solveEndpoint(box, focus, adjacent) ==
  FirstCrossing(Grown(box, GAP), determineFocusPoint(box, focus, adjacent), adjacent)

\* Both ends at once: three rounds of one against the other.
EndsRound(from, to, focus, ends) ==
  LET s == solveEndpoint(from, focus.start, ends[2]) IN <<s, solveEndpoint(to, focus.end, s)>>
solveArrowEndpoints(from, to, focus, start, end) ==
  Through(LAMBDA ends, n : EndsRound(from, to, focus, ends), <<start, end>>, <<1, 2, 3>>)

-----------------------------------------------------------------------------
(* Paths.                                                                  *)

Segments(points) == {<<points[i], points[i + 1]>> : i \in {j \in 1..Len(points) - 1 : points[j] # points[j + 1]}}
PathHits(points, boxes, pad) == \E s \in Segments(points), b \in boxes : SegmentHits(s[1], s[2], b, pad)

arrowLabelAnchor(points) ==
  LET middle == Len(points) \div 2
  IN IF Len(points) % 2 = 1 THEN points[middle + 1] ELSE Between(points[middle], points[middle + 1])
LabelBox(points, label) ==
  LET anchor == arrowLabelAnchor(points)
  IN [x |-> anchor.x - Half(label.w), y |-> anchor.y - Half(label.h), w |-> label.w, h |-> label.h]

Undoubled(out, p) == IF out # <<>> /\ Last(out) = p THEN out ELSE Append(out, p)
Distinct(points) == Through(LAMBDA out, p : Undoubled(out, p), <<>>, points)
\* A point at which the path does not turn towards p is left out.
Turns(out, p, k) == k < 2 \/ Cross(Minus(out[k], out[k - 1]), Minus(p, out[k])) # 0
Straightened(out, p) == Append(SubSeq(out, 1, Max({k \in 0..Len(out) : Turns(out, p, k)})), p)
removeCollinear(points) == Through(LAMBDA out, p : Straightened(out, p), <<>>, Distinct(points))

\* An even number of points, so that a label sits on a segment: the longer middle one is split.
SplitMiddle(clean) ==
  LET middle == Len(clean) \div 2 + 1
      Longer(i, j) == IF SegmentLength(clean[i], clean[i + 1]) >= SegmentLength(clean[j], clean[j + 1]) THEN i ELSE j
      Split(cut) == SubSeq(clean, 1, cut) \o <<Between(clean[cut], clean[cut + 1])>> \o SubSeq(clean, cut + 1, Len(clean))
  IN IF Len(clean) % 2 = 0 \/ Len(clean) < 3 THEN clean ELSE Split(Longer(middle - 1, middle))
ensureLabelSegment(points) == SplitMiddle(Distinct(points))

\* The middle segment is long enough for the label, and the label clear of every box.
labelFits(points, label, boxes) ==
  LET middle == Len(points) \div 2
      a == points[middle]
      b == points[middle + 1]
      length == SegmentLength(a, b)
  IN /\ Len(points) >= 2 /\ Len(points) % 2 = 0 /\ length >= 1
     /\ label.w * Distance(a.x, b.x) + label.h * Distance(a.y, b.y) + 2 * LABEL_PAD * length <= length * length
     /\ Clear(LabelBox(points, label), boxes, 4)

segmentsIntersect(s, t) ==
  LET Turn(l, p) == Cross(Minus(l[2], l[1]), Minus(p, l[1]))
      On(l, p) == Turn(l, p) = 0 /\ SegmentHits(l[1], l[2], [x |-> p.x, y |-> p.y, w |-> 0, h |-> 0], 0)
  IN \/ /\ (Turn(s, t[1]) > 0) # (Turn(s, t[2]) > 0)
        /\ (Turn(t, s[1]) > 0) # (Turn(t, s[2]) > 0)
     \/ On(s, t[1]) \/ On(s, t[2]) \/ On(t, s[1]) \/ On(t, s[2])

\* occupied: the segments of the arrows routed before.
PathLength(points) ==
  Through(LAMBDA sum, n : sum + SegmentLength(points[n], points[n + 1]), 0, [n \in 1..Len(points) - 1 |-> n])
scorePath(points, occupied) ==
  LET crossings == Cardinality({st \in Segments(points) \X occupied : segmentsIntersect(st[1], st[2])})
  IN PathLength(points) + BEND_COST * Most(0, Len(points) - 2) + CROSSING_COST * crossings

-----------------------------------------------------------------------------
(* routePlannedArrow.  r is [from, to, loop, focus, offset, start, end,    *)
(* obstacles, labelObstacles, occupied, label, kept]: kept is the path the *)
(* arrow had, <<>> for a new one.                                          *)

AlongRow(s, e, y)    == <<s, Place(s.x, y), Place(e.x, y), e>>
AlongColumn(s, e, x) == <<s, Place(x, s.y), Place(x, e.y), e>>
solveHorizontal(r, y) ==
  AlongRow(solveEndpoint(r.from, r.focus.start, Place(r.start.x, y)),
           solveEndpoint(r.to, r.focus.end, Place(r.end.x, y)), y)
solveVertical(r, x) ==
  AlongColumn(solveEndpoint(r.from, r.focus.start, Place(x, r.start.y)),
              solveEndpoint(r.to, r.focus.end, Place(x, r.end.y)), x)

\* Right, left, above and below the shape.
solveSelfLoops(r) ==
  LET box == r.from
      c == Centre(box)
      lane == DEFAULT_CLEARANCE + GAP + 32 + Distance(0, r.offset)
      tall == Half(Most(Half(box.h), r.label.h + 2 * LABEL_PAD))
      wide == Half(Most(Half(box.w), r.label.w + 2 * LABEL_PAD))
      Loop(a, b) == <<solveEndpoint(box, r.focus.start, a), a, b, solveEndpoint(box, r.focus.end, b)>>
  IN {Loop(Place(x, c.y - tall), Place(x, c.y + tall)) : x \in {box.x + box.w + lane, box.x - lane}}
     \cup {Loop(Place(c.x - wide, y), Place(c.x + wide, y)) : y \in {box.y - lane, box.y + box.h + lane}}

\* The lanes a corridor may take along one axis: in the middle, at either end, beside
\* an obstacle or beside an arrow already routed.
Lanes(r, axis) ==
  LET wide == Distance(r.start.x, r.end.x) >= Distance(r.start.y, r.end.y)
      bow == IF wide = (axis = "y") THEN r.offset ELSE 0
      aside == DEFAULT_CLEARANCE + LANE_EPSILON
  IN {Half(r.start[axis] + r.end[axis]) + bow, r.start[axis], r.end[axis]}
     \cup {b[axis] - aside : b \in r.obstacles} \cup {b[axis] + Extent(b, axis) + aside : b \in r.obstacles}
     \cup {Least(s[1][axis], s[2][axis]) - aside : s \in r.occupied}
     \cup {Most(s[1][axis], s[2][axis]) + aside : s \in r.occupied}

RoutesTried(r) ==
  LET tried == IF r.loop THEN solveSelfLoops(r)
               ELSE (IF r.offset = 0 THEN {<<r.start, r.end>>} ELSE {})
                    \cup {solveHorizontal(r, y) : y \in Lanes(r, "y")}
                    \cup {solveVertical(r, x) : x \in Lanes(r, "x")}
  IN {IF r.label = NoLabel THEN removeCollinear(path) ELSE ensureLabelSegment(path) : path \in tried}

Sound(r, path) ==
  /\ Len(path) >= 2
  /\ ~PathHits(path, r.obstacles, DEFAULT_CLEARANCE)
  /\ r.label = NoLabel \/ labelFits(path, r.label, r.labelObstacles)

BentAt(r, apex) == <<solveEndpoint(r.from, r.focus.start, apex), apex, solveEndpoint(r.to, r.focus.end, apex)>>
\* A point beside the blocker, on the nearer side, at most four fifths along the way.
BesideBlocker(r, blocker, d, length) ==
  LET rel == Minus(Centre(blocker), r.start)
      along == Most(length \div 5, Least((4 * length) \div 5, Quotient(rel.x * d.x + rel.y * d.y, length)))
      away == Quotient(d.x * rel.y - d.y * rel.x, length)
      radius == Half((blocker.w * Distance(0, d.y) + blocker.h * Distance(0, d.x)) \div length) + DEFAULT_CLEARANCE
      Apex(off) == Plus(r.start, Place(Quotient(d.x * along - d.y * off, length), Quotient(d.y * along + d.x * off, length)))
  IN Apex(away + (IF Distance(0, away + radius) <= Distance(0, away - radius) THEN radius ELSE -radius))
\* routeBoundArrow: one bend, by the offset or around the blocker nearest the middle.
Bend(r) ==
  LET middle == Between(r.start, r.end)
      d == Minus(r.end, r.start)
      length == Most(1, SegmentLength(r.start, r.end))
      blockers == {b \in r.obstacles : SegmentHits(r.start, r.end, b, DEFAULT_CLEARANCE)}
      nearest == Cheapest(blockers, LAMBDA b : Square(Centre(b), middle))
  IN CASE r.offset # 0 ->
            BentAt(r, Plus(middle, Place(Quotient(-d.y * r.offset, length), Quotient(d.x * r.offset, length))))
       [] r.offset = 0 /\ blockers # {} -> BentAt(r, BesideBlocker(r, nearest, d, length))
       [] OTHER -> <<r.start, r.end>>

\* The path it had while that is clear, a cheapest sound candidate, a bend, or else the
\* old direction with a warning.
Selected(r, sound, bent) ==
  LET keeps == /\ r.kept # <<>> /\ ~PathHits(r.kept, r.obstacles, DEFAULT_CLEARANCE)
               /\ r.label = NoLabel \/ Clear(LabelBox(r.kept, r.label), r.labelObstacles, 4)
      found == IF sound # {} THEN sound ELSE bent
      Route(path, warned) == [points |-> path, warned |-> warned]
  IN CASE keeps -> Route(r.kept, FALSE)
       [] ~keeps /\ found # {} -> Route(Cheapest(found, LAMBDA path : scorePath(path, r.occupied)), FALSE)
       [] OTHER -> Route(IF r.kept # <<>> THEN r.kept ELSE <<r.start, r.end>>, TRUE)
routePlannedArrow(r) ==
  Selected(r, {path \in RoutesTried(r) : Sound(r, path)},
           {path \in {IF r.label = NoLabel THEN b ELSE ensureLabelSegment(b) : b \in {Bend(r)}} : Sound(r, path)})
=============================================================================
