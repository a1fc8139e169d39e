--------------------------- MODULE LayoutGeometry ---------------------------
(***************************************************************************)
(* Where shapes go (src/canvas/layout.ts, autoLayout.ts): a vacant place   *)
(* for a region, boxes pushed apart, and shapes created without            *)
(* coordinates in layers.  A box is [x, y, w, h] in pixels; halves of odd  *)
(* numbers are rounded down, where the code has fractions.                 *)
(***************************************************************************)
EXTENDS Integers, SequencesExt

MARGIN     == 16
ROW_GAP    == 100  \* between layers
COL_GAP    == 70   \* within a layer
REGION_GAP == 160  \* between components

Half(v) == v \div 2
Least(a, b) == IF a <= b THEN a ELSE b
Most(a, b)  == IF a <= b THEN b ELSE a
Distance(a, b) == IF a <= b THEN b - a ELSE a - b
\* FoldLeft as a recursive function, with each intermediate result evaluated once (TLC passes
\* arguments by name, and evaluates a function when it is compared).
Through(Step(_, _), base, seq) ==
  LET after[n \in 0..Len(seq)] ==
        IF n = 0 THEN base ELSE CHOOSE y \in {Step(acc, seq[n]) : acc \in {after[n - 1]}} : y = y
  IN after[Len(seq)]
\* SelectSeq by the positions that pass: the one at rank k has k - 1 before it.
AtRank(places, k) == CHOOSE n \in places : Cardinality({m \in places : m < n}) = k - 1
Picked(seq, places) == [k \in 1..Cardinality(places) |-> seq[AtRank(places, k)]]
Only(seq, Test(_)) == Picked(seq, {n \in DOMAIN seq : Test(seq[n])})
Joined(f, g) == [x \in (DOMAIN f) \cup (DOMAIN g) |-> IF x \in DOMAIN f THEN f[x] ELSE g[x]]
\* A member of S of the least cost, each cost evaluated once.
Cheapest(S, Cost(_)) ==
  LET priced == {<<Cost(p), p>> : p \in S}
  IN (CHOOSE p \in priced : \A q \in priced : p[1] <= q[1])[2]

\* The box of a shape on the canvas.
ShapeTypes == {"rectangle", "ellipse", "diamond", "text", "frame", "image", "line", "freedraw"}
ShapeBox == [x: Int, y: Int, w: Nat \ {0}, h: Nat \ {0}, type: ShapeTypes]

At(box, place) == [box EXCEPT !.x = place.x, !.y = place.y]
Place(x, y)    == [x |-> x, y |-> y]
Centre(box)    == Place(box.x + Half(box.w), box.y + Half(box.h))
UnionBox(boxes) ==
  LET left == Min({b.x : b \in boxes})  top == Min({b.y : b \in boxes})
  IN [x |-> left, y |-> top,
      w |-> Max({b.x + b.w : b \in boxes}) - left, h |-> Max({b.y + b.h : b \in boxes}) - top]

-----------------------------------------------------------------------------
(* findVacantRect                                                          *)

\* rectHitsObstacle
Hits(a, b, margin) ==
  /\ a.x < b.x + b.w + margin /\ a.x + a.w > b.x - margin
  /\ a.y < b.y + b.h + margin /\ a.y + a.h > b.y - margin
Clear(box, obstacles, margin) == \A o \in obstacles : ~Hits(box, o, margin)

ColumnsTried(rect, obstacles, anchor, margin) ==
  {rect.x, anchor.x, anchor.x + anchor.w + margin, anchor.x - rect.w - margin, Centre(anchor).x - Half(rect.w)}
    \cup UNION {{o.x - rect.w - margin, o.x + o.w + margin, o.x, o.x + o.w - rect.w} : o \in obstacles}
RowsTried(rect, obstacles, anchor, margin) ==
  {rect.y, anchor.y, anchor.y + anchor.h + margin, anchor.y - rect.h - margin, Centre(anchor).y - Half(rect.h)}
    \cup UNION {{o.y - rect.h - margin, o.y + o.h + margin, o.y, o.y + o.h - rect.h} : o \in obstacles}
\* Twelve rings around the anchor.
RingsTried(rect, anchor, margin) ==
  LET x == Centre(anchor).x - Half(rect.w)  y == Centre(anchor).y - Half(rect.h)
      step == Most(Most(rect.w, rect.h), Most(anchor.w, anchor.h)) + margin
      reach == {step * r : r \in 1..12}
  IN {Place(x + s * d, y + t * d) : s \in {-1, 1}, t \in {-1, 1}, d \in reach}
     \cup {Place(anchor.x + anchor.w + margin + d, y) : d \in reach}
     \cup {Place(anchor.x - rect.w - margin - d, y) : d \in reach}
     \cup {Place(x, anchor.y + anchor.h + margin + d) : d \in reach}
     \cup {Place(x, anchor.y - rect.h - margin - d) : d \in reach}
Candidates(rect, obstacles, anchor, margin) ==
  {Place(x, y) : x \in ColumnsTried(rect, obstacles, anchor, margin),
                 y \in RowsTried(rect, obstacles, anchor, margin)}
    \cup RingsTried(rect, anchor, margin)

\* placementDirectionPenalty, and the place placementIdeal would take.
Obeys(prefer, box, anchor) ==
  CASE prefer = "right" -> Centre(box).x >= Centre(anchor).x
    [] prefer = "left"  -> Centre(box).x <= Centre(anchor).x
    [] prefer = "below" -> Centre(box).y >= Centre(anchor).y
    [] prefer = "above" -> Centre(box).y <= Centre(anchor).y
    [] OTHER -> TRUE
Ideal(prefer, rect, anchor, margin) ==
  CASE prefer = "right" -> Place(anchor.x + anchor.w + margin + Half(rect.w), Centre(anchor).y)
    [] prefer = "left"  -> Place(anchor.x - margin - Half(rect.w), Centre(anchor).y)
    [] prefer = "below" -> Place(Centre(anchor).x, anchor.y + anchor.h + margin + Half(rect.h))
    [] prefer = "above" -> Place(Centre(anchor).x, anchor.y - margin - Half(rect.h))
    [] OTHER -> Centre(rect)

Square(a, b) == (a.x - b.x) * (a.x - b.x) + (a.y - b.y) * (a.y - b.y)
\* Mutant of findVacantRect: the ideal place, whatever stands there.
PlaceUnchecked(rect, obstacles, prefer, anchor, margin) ==
  LET ideal == Ideal(prefer, rect, anchor, margin) IN Place(ideal.x - Half(rect.w), ideal.y - Half(rect.h))

\* A best candidate (the drift counts a hundredth); the penalty of a wrong
\* direction outweighs every distance within 30000 pixels.
findVacantRect(rect, obstacles, prefer, anchor, margin) ==
  LET clear == {p \in Candidates(rect, obstacles, anchor, margin) : Clear(At(rect, p), obstacles, margin)}
      obeying == {p \in clear : Obeys(prefer, At(rect, p), anchor)}
      ideal == Ideal(prefer, rect, anchor, margin)
      Score(p) == Square(Centre(At(rect, p)), ideal) + Square(Centre(At(rect, p)), Centre(rect)) \div 100
      pool == IF obeying # {} THEN obeying ELSE clear
  IN IF (prefer = "nearest" /\ Clear(rect, obstacles, margin)) \/ clear = {} THEN Place(rect.x, rect.y)
     ELSE Cheapest(pool, Score)

\* segmentHitsBox: the segment meets the box grown by `pad` on every side: neither the
\* axes nor the segment's own line keeps them apart.
SegmentHits(p, q, box, pad) ==
  LET left == box.x - pad  right == box.x + box.w + pad
      top == box.y - pad  bottom == box.y + box.h + pad
      Beyond(x, y) == (q.x - p.x) * (y - p.y) - (q.y - p.y) * (x - p.x)
  IN /\ Least(p.x, q.x) <= right /\ Most(p.x, q.x) >= left
     /\ Least(p.y, q.y) <= bottom /\ Most(p.y, q.y) >= top
     /\ \E x \in {left, right}, y \in {top, bottom} : Beyond(x, y) >= 0
     /\ \E x \in {left, right}, y \in {top, bottom} : Beyond(x, y) <= 0

-----------------------------------------------------------------------------
(* resolveOverlaps                                                         *)

Overlap(a, b, axis) ==
  IF axis = "x" THEN Least(a.x + a.w, b.x + b.w) - Most(a.x, b.x)
                ELSE Least(a.y + a.h, b.y + b.h) - Most(a.y, b.y)
Overlapping(a, b) == Overlap(a, b, "x") > 0 /\ Overlap(a, b, "y") > 0

\* separation, for boxes that overlap: along the axis where they do so least.
Separation(a, b) ==
  LET x == Overlap(a, b, "x")  y == Overlap(a, b, "y")
  IN IF x < y THEN Place((IF 2 * a.x + a.w <= 2 * b.x + b.w THEN -1 ELSE 1) * (x + MARGIN), 0)
     ELSE Place(0, (IF 2 * a.y + a.h <= 2 * b.y + b.h THEN -1 ELSE 1) * (y + MARGIN))
Moved(box, dx, dy) == [box EXCEPT !.x = @ + dx, !.y = @ + dy]

\* One pair of one iteration; a pinned box stays and the other takes the whole push.
PushApart(boxes, movable, i, j) ==
  LET away == Separation(boxes[i], boxes[j])
      share == CASE i \in movable /\ j \in movable -> Place(Half(away.x), Half(away.y))
                 [] i \in movable -> away
                 [] OTHER -> Place(0, 0)
  IN [boxes EXCEPT ![i] = Moved(@, share.x, share.y),
                   ![j] = Moved(@, share.x - away.x, share.y - away.y)]

Collide(at, i, j, movable, ignored) ==
  {i, j} \notin ignored /\ {i, j} \cap movable # {} /\ Overlapping(at[i], at[j])
Pushed(at, i, j, movable, ignored) ==
  IF Collide(at, i, j, movable, ignored) THEN PushApart(at, movable, i, j) ELSE at
\* One node against those behind it in the order of the scene, and one round over the pairs;
\* a round that finds none is the last.
PushedByLater(at, order, k, movable, ignored) ==
  Through(LAMBDA acc, j : Pushed(acc, order[k], j, movable, ignored), at, SubSeq(order, k + 1, Len(order)))
PushedOnce(at, order, movable, ignored) ==
  IF \E i, j \in ToSet(order) : i # j /\ Collide(at, i, j, movable, ignored)
    THEN Through(LAMBDA acc, k : PushedByLater(acc, order, k, movable, ignored), at, [k \in DOMAIN order |-> k])
    ELSE at
\* Sixty rounds at most.
ResolveOverlaps(order, boxes, movable, ignored) ==
  Through(LAMBDA acc, n : PushedOnce(acc, order, movable, ignored), boxes, [n \in 1..60 |-> n])

-----------------------------------------------------------------------------
(* autoLayout, down: ids in the order they were created, links the edges.  *)

\* One turn of the depth-first search: a link to a node on the stack goes back.
Search(d, links) ==
  LET u == Last(d.stack)
      out == Only(links, LAMBDA e : e[1] = u /\ e[2] # u)
      v == out[d.next[u]][2]
      further == [d EXCEPT !.next[u] = @ + 1]
  IN CASE d.stack = <<>> /\ d.white = <<>> -> d
       [] d.stack = <<>> /\ d.white # <<>> -> [d EXCEPT !.stack = <<Head(d.white)>>, !.white = Tail(@)]
       [] d.stack # <<>> /\ d.next[u] > Len(out) -> [d EXCEPT !.stack = Front(@)]
       [] OTHER -> CASE Contains(d.stack, v) -> [further EXCEPT !.back = @ \cup {<<u, v>>}]
                     [] Contains(d.white, v) -> [further EXCEPT !.stack = Append(@, v), !.white = Remove(@, v)]
                     [] OTHER -> further
BackLinks(ids, links) ==
  LET start == [stack |-> <<>>, white |-> ids, next |-> [i \in ToSet(ids) |-> 1], back |-> {}]
  IN Through(LAMBDA d, n : Search(d, links), start, [n \in 1..3 * Len(ids) + Len(links) |-> n]).back

\* layerize: the longest path of forward links to each node.
Deeper(depth, e, back) ==
  IF e[1] = e[2] \/ e \in back THEN depth ELSE [depth EXCEPT ![e[2]] = Most(@, depth[e[1]] + 1)]
Deepened(depth, links, back) == Through(LAMBDA acc, e : Deeper(acc, e, back), depth, links)
Layers(ids, links) ==
  LET back == BackLinks(ids, links)
  IN Through(LAMBDA acc, n : Deepened(acc, links, back), [i \in ToSet(ids) |-> 0], ids)

\* components: the nodes that links connect with one.
Component(ids, links, one) ==
  LET closed == {part \in SUBSET ToSet(ids) : one \in part /\ \A e \in ToSet(links) :
                   {e[1], e[2]} \cap part # {} => {e[1], e[2]} \cap ToSet(ids) \subseteq part}
  IN {i \in ToSet(ids) : \A part \in closed : i \in part}

\* layoutOne: each layer centred below the one before.
Layer(ids, depth, n) == {i \in ToSet(ids) : depth[i] = n}
\* The width of those in S, with a gap behind each; and the height of the first n layers.
Widening(sum, i, S, size) == IF i \in S THEN sum + size[i].w + COL_GAP ELSE sum
Wide(ids, size, S) == Through(LAMBDA sum, i : Widening(sum, i, S, size), 0, ids)
Lowering(sum, n, ids, size, depth) == sum + Max({0} \cup {size[i].h : i \in Layer(ids, depth, n - 1)}) + ROW_GAP
Above(ids, size, depth, n) == Through(LAMBDA sum, m : Lowering(sum, m, ids, size, depth), 0, [m \in 1..n |-> m])
LayerWidth(ids, size, depth, i) == Wide(ids, size, Layer(ids, depth, depth[i])) - COL_GAP
Earlier(ids, depth, i) ==
  {j \in Layer(ids, depth, depth[i]) : \E a, b \in DOMAIN ids : a < b /\ ids[a] = j /\ ids[b] = i}
LayoutLayers(ids, size, depth, x, y) ==
  LET widest == Max({LayerWidth(ids, size, depth, i) : i \in ToSet(ids)})
  IN [w |-> widest,
      at |-> [i \in ToSet(ids) |->
        Place(x + Half(widest - LayerWidth(ids, size, depth, i)) + Wide(ids, size, Earlier(ids, depth, i)),
              y + Above(ids, size, depth, depth[i]))]]
LayoutOne(part, ids, links, size, x, y) ==
  LET nodes == Only(ids, LAMBDA i : i \in part)
      within == Only(links, LAMBDA e : e[1] \in part /\ e[2] \in part)
  IN LayoutLayers(nodes, size, Layers(nodes, within), x, y)

\* The components side by side, each where its first node comes in the order of the ids.
Beside(done, n, ids, links, size) ==
  LET one == LayoutOne(Component(ids, links, ids[n]), ids, links, size, done.x, done.y)
  IN [done EXCEPT !.x = @ + one.w + REGION_GAP, !.at = Joined(one.at, @)]
Firsts(ids, links) ==
  Only([n \in DOMAIN ids |-> n], LAMBDA n : \A m \in 1..n - 1 : ids[m] \notin Component(ids, links, ids[n]))
AutoLayout(ids, links, size, x, y) ==
  Through(LAMBDA done, n : Beside(done, n, ids, links, size), [x |-> x, y |-> y, at |-> <<>>], Firsts(ids, links)).at

\* autoPlaceMissing: to the right of what the scene has.
AutoPlace(ids, links, size, existing) ==
  LET at == IF existing = {} THEN Place(120, 120)
            ELSE Place(Max({b.x + b.w : b \in existing}) + 160, Min({b.y : b \in existing}))
  IN AutoLayout(ids, links, size, at.x, at.y)
=============================================================================
