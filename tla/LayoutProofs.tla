---------------------------- MODULE LayoutProofs ----------------------------
(***************************************************************************)
(* Theorems about the layout of a batch (CanvasLayout and the modules it   *)
(* stands on), for any scenes, operations and relations.                   *)
(*                                                                         *)
(* VacantPlaceIsClear: findVacantRect finds a place in the clear, for      *)
(* boxes, obstacles and margins of any size.                               *)
(*                                                                         *)
(* RepairsKeepComposition: the passes keep the composition.  The argument: *)
(* MoveIssues rejects what is not in order, contained or apart as before,  *)
(* and the shapes captured before the first pass are still the measure     *)
(* after the second (ProtectedKeeps).  Rows and columns: when there are no *)
(* containers, the shapes moved by more than some number only grow from one *)
(* pass to the next, and grow no more once a pass left them alone, so that *)
(* one pass for each shape and one more settle the shifts; with containers *)
(* they may be cut off, and only what a last pass without a change left is *)
(* even (SpreadIsEven).  The rest is that the operations and the passes    *)
(* make scenes of shapes of scenes of shapes (OperateIsLaid, SpacingTyped, *)
(* OverlapsTyped), so that all these numbers are numbers.                  *)
(*                                                                         *)
(* RoutesAlwaysHold: between batches every arrow runs from shape to shape  *)
(* and through no other unless reported.  The argument: an endpoint that   *)
(* solveArrowEndpoints finds lies on or near the outline it looks for      *)
(* (EndpointsAre); every path the router tries keeps such ends, and a path *)
(* it takes without a warning has passed the check against the obstacles   *)
(* (PlannedIsGood); an arrow that is routed therefore runs well            *)
(* (AllRoutedIsDone), and one that is not ran well before, and what was    *)
(* created or moved since is not in its way (StayRunsWell).  For this the  *)
(* invariant says of the middle of a batch what the batch remembers of     *)
(* the scene it found (Known).                                             *)
(***************************************************************************)
EXTENDS CanvasLayout, FiniteSetTheorems, SequenceTheorems, WellFoundedInduction, TLAPS

-----------------------------------------------------------------------------
(* Induction up to a number.                                               *)

\* A set of the numbers up to n that holds 0, and with each its successor, holds them all:
\* it has no least number it misses.
LEMMA UpTo ==
  ASSUME NEW n \in Nat, NEW S, 0 \in S, \A i \in 0 .. n - 1 : i \in S => i + 1 \in S
  PROVE  \A i \in 0 .. n : i \in S
<1> DEFINE Missed == {i \in Nat : i <= n /\ i \notin S}
<1>1. SUFFICES ASSUME Missed # {} PROVE FALSE
  OBVIOUS
<1>2. PICK m \in Missed : \A k \in Missed : ~(<<k, m>> \in OpToRel(<, Nat))
  BY <1>1, NatLessThanWellFounded, WFMin
<1>3. \A k \in Missed : ~(k < m)
  BY <1>2 DEF OpToRel
<1>4. m # 0 /\ m - 1 \in Nat /\ m - 1 < m
  OBVIOUS
<1>5. m - 1 \notin Missed
  BY <1>3, <1>4
<1> QED BY <1>4, <1>5

\* A shape has a place and a size; a region (of findVacantRect) has nothing else.
Measured(box) == box.x \in Int /\ box.y \in Int /\ box.w \in Int /\ box.h \in Int
Region == [x: Int, y: Int, w: Int, h: Int]

-----------------------------------------------------------------------------
\* A set of numbers has a least one.
LEMMA LeastOf == ASSUME NEW S \in SUBSET Nat, S # {} PROVE \E m \in S : \A n \in S : m <= n
<1>1. PICK m \in S : \A n \in S : ~(<<n, m>> \in OpToRel(<, Nat))
  BY NatLessThanWellFounded, WFMin
<1>2. \A n \in S : ~(n < m)
  BY <1>1 DEF OpToRel
<1>. QED
  BY <1>2

\* A finite set of integers has a greatest one: of the sets without, one would be smallest,
\* and without one of its members it would have a greatest one.
LEMMA GreatestOf ==
  ASSUME NEW S \in SUBSET Int, IsFiniteSet(S), S # {}
  PROVE  \E m \in S : \A n \in S : n <= m
<1>. DEFINE Topped(T) == \E m \in T : \A n \in T : n <= m
            Bad == {k \in Nat : \E T \in SUBSET Int : /\ IsFiniteSet(T) /\ T # {}
                                                      /\ ~Topped(T) /\ Cardinality(T) = k}
<1>1. SUFFICES Bad = {}
  BY FS_CardinalityType
<1>2. SUFFICES ASSUME Bad # {} PROVE FALSE
  OBVIOUS
<1>3. PICK k \in Bad : \A n \in Bad : k <= n
  BY <1>2, LeastOf
<1>4. PICK T \in SUBSET Int : IsFiniteSet(T) /\ T # {} /\ ~Topped(T) /\ Cardinality(T) = k
  BY <1>3
<1>5. PICK t \in T : TRUE
  BY <1>4
<1>6. IsFiniteSet(T \ {t}) /\ Cardinality(T \ {t}) = k - 1
  BY <1>4, <1>5, FS_RemoveElement
<1>7. T \ {t} # {}
  BY <1>4, <1>5
<1>8. k - 1 \in Nat
  BY <1>6, FS_CardinalityType
<1>9. Topped(T \ {t})
  <2>1. k - 1 \notin Bad
    BY <1>3, <1>8
  <2>. QED
    BY <2>1, <1>6, <1>7, <1>8
<1>10. PICK m \in T \ {t} : \A n \in T \ {t} : n <= m
  BY <1>9
<1>11. CASE m <= t
  <2>1. \A n \in T : n <= t
    BY <1>10, <1>11
  <2>. QED
    BY <2>1, <1>4, <1>5
<1>12. CASE t <= m
  <2>1. \A n \in T : n <= m
    BY <1>10, <1>12
  <2>. QED
    BY <2>1, <1>4, <1>10
<1>. QED
  BY <1>5, <1>10, <1>11, <1>12

-----------------------------------------------------------------------------
(* The candidates                                                          *)

\* The centre of a box is a point, and the square of a distance is a number.
LEMMA CentreType == ASSUME NEW box, Measured(box)
                    PROVE  Centre(box).x \in Int /\ Centre(box).y \in Int
  BY DEF Measured, Centre, Place, Half

LEMMA SquareType ==
  ASSUME NEW a, NEW b, a.x \in Int, a.y \in Int, b.x \in Int, b.y \in Int
  PROVE  Square(a, b) \in Nat
<1>1. \A n \in Int : n * n \in Nat
  BY SMT
<1>. DEFINE dx == a.x - b.x  dy == a.y - b.y
<1>2. dx * dx \in Nat /\ dy * dy \in Nat
  BY <1>1
<1>. QED
  BY <1>2 DEF Square

\* Every candidate is a place on the canvas.
LEMMA CandidateType ==
  ASSUME NEW rect \in Region, NEW obstacles, \A o \in obstacles : Measured(o),
         NEW anchor, Measured(anchor), NEW margin \in Int
  PROVE  Candidates(rect, obstacles, anchor, margin) \subseteq [x: Int, y: Int]
<1>1. ColumnsTried(rect, obstacles, anchor, margin) \subseteq Int
  BY CentreType DEF ColumnsTried, Measured, Region, Half
<1>2. RowsTried(rect, obstacles, anchor, margin) \subseteq Int
  BY CentreType DEF RowsTried, Measured, Region, Half
<1>3. RingsTried(rect, anchor, margin) \subseteq [x: Int, y: Int]
  <2>. DEFINE x == Centre(anchor).x - Half(rect.w)  y == Centre(anchor).y - Half(rect.h)
              step == Most(Most(rect.w, rect.h), Most(anchor.w, anchor.h)) + margin
              reach == {step * r : r \in 1..12}
  <2>1. x \in Int /\ y \in Int
    BY CentreType DEF Half, Region
  <2>2. step \in Int
    BY DEF Most, Measured, Region
  <2>3. \A d \in reach : d \in Int
    <3>. HIDE DEF step
    <3>. QED BY <2>2
  <2>. HIDE DEF x, y, reach
  <2>. DEFINE corners == {Place(x + s * d, y + t * d) : s \in {-1, 1}, t \in {-1, 1}, d \in reach}
              right == {Place(anchor.x + anchor.w + margin + d, y) : d \in reach}
              left == {Place(anchor.x - rect.w - margin - d, y) : d \in reach}
              below == {Place(x, anchor.y + anchor.h + margin + d) : d \in reach}
              above == {Place(x, anchor.y - rect.h - margin - d) : d \in reach}
  <2>4. corners \subseteq [x: Int, y: Int]
    BY <2>1, <2>3 DEF Place
  <2>5. right \subseteq [x: Int, y: Int] /\ left \subseteq [x: Int, y: Int]
    BY <2>1, <2>3 DEF Place, Measured, Region
  <2>6. below \subseteq [x: Int, y: Int] /\ above \subseteq [x: Int, y: Int]
    BY <2>1, <2>3 DEF Place, Measured, Region
  <2>7. RingsTried(rect, anchor, margin) = corners \cup right \cup left \cup below \cup above
    BY DEF RingsTried, x, y, reach
  <2>. QED
    BY <2>4, <2>5, <2>6, <2>7
<1>. QED
  BY <1>1, <1>2, <1>3 DEF Candidates, Place

\* Beside the obstacle that reaches farthest to the right nothing stands, so some
\* candidate is always clear and the fallback of findVacantRect is never taken.
LEMMA SomeCandidateIsClear ==
  ASSUME NEW rect \in Region, NEW obstacles, IsFiniteSet(obstacles),
         \A o \in obstacles : Measured(o),
         NEW anchor, Measured(anchor), NEW margin \in Int
  PROVE  \E p \in Candidates(rect, obstacles, anchor, margin) : Clear(At(rect, p), obstacles, margin)
<1>1. rect.y \in RowsTried(rect, obstacles, anchor, margin)
  BY DEF RowsTried
<1>2. CASE obstacles = {}
  <2>1. rect.x \in ColumnsTried(rect, obstacles, anchor, margin)
    BY DEF ColumnsTried
  <2>. QED
    BY <1>1, <1>2, <2>1 DEF Candidates, Clear
<1>3. CASE obstacles # {}
  <2>. DEFINE edges == {o.x + o.w : o \in obstacles}
  <2>1. IsFiniteSet(edges) /\ edges \in SUBSET Int /\ edges # {}
    <3>. DEFINE edge == [o \in obstacles |-> o.x + o.w]
    <3>1. edge \in Surjection(obstacles, edges)
      BY DEF Surjection
    <3>2. IsFiniteSet(edges)
      <4>. HIDE DEF edge, edges
      <4>. QED BY <3>1, FS_Surjection
    <3>3. edges \in SUBSET Int /\ edges # {}
      BY <1>3 DEF Measured
    <3>. QED
      BY <3>2, <3>3
  <2>2. PICK far \in obstacles : \A o \in obstacles : o.x + o.w <= far.x + far.w
    <3>1. PICK m \in edges : \A n \in edges : n <= m
      BY <2>1, GreatestOf
    <3>. QED
      BY <3>1
  <2>. DEFINE p == Place(far.x + far.w + margin, rect.y)
  <2>3. far.x + far.w + margin \in ColumnsTried(rect, obstacles, anchor, margin)
    BY <2>2 DEF ColumnsTried, Measured
  <2>4. p \in Candidates(rect, obstacles, anchor, margin)
    BY <1>1, <2>3 DEF Candidates
  <2>5. At(rect, p).x = far.x + far.w + margin
    BY DEF At, Place, Region
  <2>6. \A o \in obstacles : ~(At(rect, p).x < o.x + o.w + margin)
    BY <2>2, <2>5 DEF Measured
  <2>7. Clear(At(rect, p), obstacles, margin)
    BY <2>6 DEF Clear, Hits
  <2>. QED
    BY <2>4, <2>7
<1>. QED
  BY <1>2, <1>3
-----------------------------------------------------------------------------
(* findVacantRect                                                          *)

\* What is cheapest among some places is one of them.
LEMMA CheapestType ==
  ASSUME NEW S, NEW priced \in SUBSET (Nat \X S), priced # {}
  PROVE  (CHOOSE p \in priced : \A q \in priced : p[1] <= q[1])[2] \in S
<1>. DEFINE costs == {p[1] : p \in priced}
<1>1. costs \in SUBSET Nat /\ costs # {}
  OBVIOUS
<1>2. PICK m \in costs : \A n \in costs : m <= n
  <2>. HIDE DEF costs
  <2>. QED BY <1>1, LeastOf
<1>3. \E p \in priced : \A q \in priced : p[1] <= q[1]
  BY <1>2
<1>. QED
  BY <1>3

\* The place is a clear candidate in the preferred direction if there is one, a clear
\* candidate if there is none, or the place the region has when that is clear and nearest.
LEMMA VacantPlace ==
  ASSUME NEW rect \in Region, NEW obstacles, IsFiniteSet(obstacles),
         \A o \in obstacles : Measured(o),
         NEW prefer, NEW anchor, Measured(anchor), NEW margin \in Int
  PROVE  LET place == findVacantRect(rect, obstacles, prefer, anchor, margin)
             clear == {p \in Candidates(rect, obstacles, anchor, margin) : Clear(At(rect, p), obstacles, margin)}
             obeying == {p \in clear : Obeys(prefer, At(rect, p), anchor)}
         IN  \/ /\ prefer = "nearest" /\ Clear(rect, obstacles, margin)
                /\ place = Place(rect.x, rect.y)
             \/ place \in (IF obeying # {} THEN obeying ELSE clear)
<1>. DEFINE clear == {p \in Candidates(rect, obstacles, anchor, margin) : Clear(At(rect, p), obstacles, margin)}
            obeying == {p \in clear : Obeys(prefer, At(rect, p), anchor)}
            ideal == Ideal(prefer, rect, anchor, margin)
            Score(p) == Square(Centre(At(rect, p)), ideal) + Square(Centre(At(rect, p)), Centre(rect)) \div 100
            pool == IF obeying # {} THEN obeying ELSE clear
            priced == {<<Score(p), p>> : p \in pool}
            cheapest == (CHOOSE p \in priced : \A q \in priced : p[1] <= q[1])[2]
<1>1. clear # {}
  BY SomeCandidateIsClear
<1>2. pool # {} /\ pool \subseteq [x: Int, y: Int]
  BY <1>1, CandidateType
<1>3. \A p \in pool : Score(p) \in Nat
  <2>. SUFFICES ASSUME NEW p \in pool PROVE Score(p) \in Nat
    OBVIOUS
  <2>. HIDE DEF pool
  <2>. DEFINE c == Centre(At(rect, p))
  <2>1. p.x \in Int /\ p.y \in Int
    BY <1>2
  <2>2. Measured(rect) /\ Measured(At(rect, p))
    BY <2>1 DEF Measured, At, Region
  <2>3. c.x \in Int /\ c.y \in Int /\ Centre(rect).x \in Int /\ Centre(rect).y \in Int
    BY <2>2, CentreType
  <2>4. ideal.x \in Int /\ ideal.y \in Int
    BY <2>3, CentreType DEF Ideal, Place, Half, Measured, Region
  <2>5. Square(c, ideal) \in Nat /\ Square(c, Centre(rect)) \in Nat
    <3>. HIDE DEF c, ideal
    <3>. QED BY <2>3, <2>4, SquareType
  <2>. HIDE DEF c, ideal
  <2>6. \A n \in Nat : n \div 100 \in Nat
    BY SMT
  <2>7. Score(p) = Square(c, ideal) + Square(c, Centre(rect)) \div 100
    BY DEF c
  <2>. HIDE DEF Score
  <2>. QED
    BY <2>5, <2>6, <2>7
<1>4. cheapest \in pool
  <2>. HIDE DEF Score, pool
  <2>1. priced # {}
    BY <1>2
  <2>2. priced \in SUBSET (Nat \X pool)
    <3>1. \A p \in pool : <<Score(p), p>> \in Nat \X pool
      BY <1>3
    <3>. QED
      BY <3>1
  <2>. HIDE DEF priced
  <2>. QED
    BY <2>1, <2>2, CheapestType
<1>5. findVacantRect(rect, obstacles, prefer, anchor, margin) =
        IF (prefer = "nearest" /\ Clear(rect, obstacles, margin)) \/ clear = {} THEN Place(rect.x, rect.y)
        ELSE cheapest
  BY DEF findVacantRect, Cheapest
<1>. HIDE DEF cheapest
<1>. QED
  BY <1>1, <1>4, <1>5

\* A region that is placed stands apart from every obstacle, however many there are and
\* however they lie: findVacantRect never gives up (layout.ts).
THEOREM VacantPlaceIsClear ==
  ASSUME NEW rect \in Region, NEW obstacles, IsFiniteSet(obstacles),
         \A o \in obstacles : Measured(o),
         NEW prefer, NEW anchor, Measured(anchor), NEW margin \in Int
  PROVE  Clear(At(rect, findVacantRect(rect, obstacles, prefer, anchor, margin)), obstacles, margin)
<1>. DEFINE place == findVacantRect(rect, obstacles, prefer, anchor, margin)
<1>1. CASE Clear(rect, obstacles, margin) /\ place = Place(rect.x, rect.y)
  <2>1. At(rect, place) = rect
    <3>1. [rect EXCEPT !.x = rect.x] = rect /\ [rect EXCEPT !.y = rect.y] = rect
      BY DEF Region
    <3>2. place.x = rect.x /\ place.y = rect.y
      <4>. HIDE DEF place
      <4>. QED BY <1>1 DEF Place
    <3>. HIDE DEF place
    <3>. QED
      BY <3>1, <3>2, Zenon DEF At
  <2>. QED
    BY <1>1, <2>1
<1>2. CASE Clear(At(rect, place), obstacles, margin)
  BY <1>2
<1>. HIDE DEF place
<1>3. \/ Clear(rect, obstacles, margin) /\ place = Place(rect.x, rect.y)
      \/ Clear(At(rect, place), obstacles, margin)
  BY VacantPlace DEF place
<1>. QED
  BY <1>1, <1>2, <1>3

-----------------------------------------------------------------------------
(* Greatest and least numbers, and the members of a sequence that pass.    *)

\* A finite set of integers has a least one, and Max and Min find the two.
LEMMA LowestOf ==
  ASSUME NEW S \in SUBSET Int, IsFiniteSet(S), S # {}
  PROVE  \E m \in S : \A n \in S : m <= n
<1> DEFINE mirror == [n \in S |-> -n]
           T == {-n : n \in S}
<1>1. mirror \in Surjection(S, T)
  BY DEF Surjection
<1>2. IsFiniteSet(T) /\ T \in SUBSET Int /\ T # {}
  <2>1. IsFiniteSet(T)
    <3> HIDE DEF mirror, T
    <3> QED BY <1>1, FS_Surjection
  <2>2. \A n \in S : n \in Int /\ -n \in Int
    OBVIOUS
  <2> QED BY <2>1, <2>2
<1>3. PICK m \in T : \A n \in T : n <= m
  <2> HIDE DEF T
  <2> QED BY <1>2, GreatestOf
<1>4. -m \in S /\ m \in Int /\ \A n \in S : -n <= m
  <2>1. PICK n \in S : m = -n
    OBVIOUS
  <2>2. \A k \in S : -k \in T
    OBVIOUS
  <2>3. \A k \in S : -k <= m
    BY <1>3, <2>2
  <2> QED BY <2>1, <2>3
<1> QED BY <1>4

LEMMA MaxIs ==
  ASSUME NEW S \in SUBSET Int, IsFiniteSet(S), S # {}
  PROVE  Max(S) \in S /\ \A n \in S : n <= Max(S)
<1>1. PICK m \in S : \A n \in S : n <= m
  BY GreatestOf
<1>2. \E x \in S : \A y \in S : x >= y
  BY <1>1
<1> QED BY <1>2 DEF Max

LEMMA MinIs ==
  ASSUME NEW S \in SUBSET Int, IsFiniteSet(S), S # {}
  PROVE  Min(S) \in S /\ \A n \in S : Min(S) <= n
<1>1. PICK m \in S : \A n \in S : m <= n
  BY LowestOf
<1>2. \E x \in S : \A y \in S : x <= y
  BY <1>1
<1> QED BY <1>2 DEF Min

\* The members of S below n.
Below(S, n) == {m \in S : m < n}

\* The rank of a member is below the size, and different members differ in it.
LEMMA RankGrows ==
  ASSUME NEW S \in SUBSET Nat, IsFiniteSet(S), NEW n \in S, NEW m \in S, m < n
  PROVE  /\ Cardinality(Below(S, m)) \in Nat /\ Cardinality(Below(S, n)) \in Nat
         /\ Cardinality(Below(S, m)) < Cardinality(Below(S, n))
<1>1. m \in Nat /\ n \in Nat /\ \A k \in S : k \in Nat
  OBVIOUS
<1>2. \A k \in S : k < m => k < n
  BY <1>1
<1>3. Below(S, n) \subseteq S /\ Below(S, m) \subseteq Below(S, n)
  BY <1>2 DEF Below
<1>4. m \in Below(S, n) /\ m \notin Below(S, m)
  BY <1>1 DEF Below
<1>5. IsFiniteSet(Below(S, n)) /\ IsFiniteSet(Below(S, m))
  BY <1>3, FS_Subset
<1>6. /\ Cardinality(Below(S, m)) <= Cardinality(Below(S, n))
      /\ Cardinality(Below(S, m)) # Cardinality(Below(S, n))
  <2>1. Below(S, m) # Below(S, n)
    BY <1>4
  <2> QED BY <1>3, <1>5, <2>1, FS_Subset
<1>7. Cardinality(Below(S, m)) \in Nat /\ Cardinality(Below(S, n)) \in Nat
  BY <1>5, FS_CardinalityType
<1> QED BY <1>6, <1>7

\* Every rank below the size is that of a member: without its greatest member, a set has the
\* same ranks but the last.
LEMMA RankExists ==
  ASSUME NEW S \in SUBSET Nat, IsFiniteSet(S), NEW k \in 1..Cardinality(S)
  PROVE  \E n \in S : Cardinality(Below(S, n)) = k - 1
<1> DEFINE Ranked(T) == \A i \in 1..Cardinality(T) : \E n \in T : Cardinality(Below(T, n)) = i - 1
           Bad == {c \in Nat : \E T \in SUBSET Nat : IsFiniteSet(T) /\ ~Ranked(T) /\ Cardinality(T) = c}
<1>1. SUFFICES Bad = {}
  BY FS_CardinalityType
<1>2. SUFFICES ASSUME Bad # {} PROVE FALSE
  OBVIOUS
<1>3. PICK c \in Bad : \A d \in Bad : c <= d
  BY <1>2, LeastOf
<1>4. PICK T \in SUBSET Nat : IsFiniteSet(T) /\ ~Ranked(T) /\ Cardinality(T) = c
  BY <1>3
<1>5. T # {}
  BY <1>4, FS_EmptySet
<1>6. PICK t \in T : \A n \in T : n <= t
  BY <1>4, <1>5, GreatestOf
<1>7. IsFiniteSet(T \ {t}) /\ Cardinality(T \ {t}) = c - 1 /\ c \in Nat /\ c - 1 \in Nat
  BY <1>4, <1>6, FS_RemoveElement, FS_CardinalityType
<1>8. Ranked(T \ {t})
  <2>1. c - 1 \notin Bad
    BY <1>3, <1>7
  <2> QED BY <2>1, <1>7
<1>9. \A n \in T \ {t} : Below(T \ {t}, n) = Below(T, n)
  BY <1>6 DEF Below
<1>10. Below(T, t) = T \ {t}
  <2>1. \A n \in T : n \in Nat /\ n <= t /\ t \in Nat
    BY <1>4, <1>6
  <2>2. \A n \in T : n < t <=> n # t
    BY <2>1
  <2> QED BY <2>2 DEF Below
<1>11. \A i \in 1..c : \E n \in T : Cardinality(Below(T, n)) = i - 1
  <2> SUFFICES ASSUME NEW i \in 1..c PROVE \E n \in T : Cardinality(Below(T, n)) = i - 1
    OBVIOUS
  <2>1. CASE i = c
    BY <1>6, <1>7, <1>10, <2>1
  <2>2. CASE i # c
    <3>1. i \in 1..Cardinality(T \ {t})
      BY <1>7, <2>2
    <3>2. PICK n \in T \ {t} : Cardinality(Below(T \ {t}, n)) = i - 1
      BY <1>8, <3>1
    <3> QED BY <1>9, <3>2
  <2> QED BY <2>1, <2>2
<1> QED BY <1>4, <1>11

\* A picked sequence has the members at its places and no others.
LEMMA PickedIs ==
  ASSUME NEW S, NEW seq \in Seq(S), NEW places \in SUBSET DOMAIN seq
  PROVE  /\ Picked(seq, places) \in Seq({seq[n] : n \in places})
         /\ \A n \in places : \E k \in DOMAIN Picked(seq, places) : Picked(seq, places)[k] = seq[n]
         /\ \A k \in DOMAIN Picked(seq, places) : \E n \in places : Picked(seq, places)[k] = seq[n]
<1>1. places \in SUBSET Nat /\ IsFiniteSet(places) /\ Cardinality(places) \in Nat
  <2>1. DOMAIN seq = 1..Len(seq) /\ Len(seq) \in Nat
    OBVIOUS
  <2>2. IsFiniteSet(1..Len(seq))
    BY <2>1, FS_Interval
  <2>3. IsFiniteSet(places)
    BY <2>1, <2>2, FS_Subset
  <2> QED BY <2>1, <2>3, FS_CardinalityType
<1>2. \A k, n : AtRank(places, k) = CHOOSE m \in places : Cardinality(Below(places, m)) = k - 1
  BY DEF AtRank, Below
<1>3. \A k \in 1..Cardinality(places) :
         AtRank(places, k) \in places /\ Cardinality(Below(places, AtRank(places, k))) = k - 1
  BY <1>1, <1>2, RankExists
<1>4. Picked(seq, places) \in Seq({seq[n] : n \in places})
  BY <1>1, <1>3 DEF Picked
<1>5. \A n \in places : \E k \in 1..Cardinality(places) : AtRank(places, k) = n
  <2> SUFFICES ASSUME NEW n \in places PROVE \E k \in 1..Cardinality(places) : AtRank(places, k) = n
    OBVIOUS
  <2>1. PICK c : c = Cardinality(Below(places, n))
    OBVIOUS
  <2>2. Below(places, n) \subseteq places /\ n \notin Below(places, n)
    BY <1>1 DEF Below
  <2>3. c \in Nat /\ c < Cardinality(places)
    <3>1. IsFiniteSet(Below(places, n))
      BY <1>1, <2>2, FS_Subset
    <3> QED BY <1>1, <2>1, <2>2, <3>1, FS_Subset, FS_CardinalityType
  <2>4. c + 1 \in 1..Cardinality(places)
    BY <1>1, <2>3
  <2>5. PICK m : m = AtRank(places, c + 1)
    OBVIOUS
  <2>6. m \in places /\ Cardinality(Below(places, m)) = c
    BY <1>3, <2>3, <2>4, <2>5
  <2>7. m \in Nat /\ n \in Nat
    BY <1>1, <2>6
  <2>8. ~(m < n)
    BY <1>1, <2>1, <2>6, <2>7, RankGrows
  <2>9. ~(n < m)
    BY <1>1, <2>1, <2>6, <2>7, RankGrows
  <2> QED BY <2>4, <2>5, <2>7, <2>8, <2>9
<1>6. DOMAIN Picked(seq, places) = 1..Cardinality(places)
      /\ \A k \in 1..Cardinality(places) : Picked(seq, places)[k] = seq[AtRank(places, k)]
  BY DEF Picked
<1> QED BY <1>3, <1>4, <1>5, <1>6

\* Members of a sequence that are picked are members of what it is a sequence of.
LEMMA PickedWithin ==
  ASSUME NEW S, NEW seq \in Seq(S), NEW places \in SUBSET DOMAIN seq
  PROVE  Picked(seq, places) \in Seq(S)
<1>1. PICK T : T = {seq[n] : n \in places}
  OBVIOUS
<1>2. Picked(seq, places) \in Seq(T)
  BY <1>1, PickedIs
<1>3. T \subseteq S
  BY <1>1
<1> QED BY <1>2, <1>3

-----------------------------------------------------------------------------
(* The passes keep shapes shapes: they move them and nothing else.         *)

Scene(ids) == [ids -> ShapeBox]
Corridor(ids) == [from: ids, to: ids, axis: Axes, gap: Int]

\* What the measures of a shape are.
LEMMA BoxFacts ==
  ASSUME NEW box \in ShapeBox
  PROVE  /\ box.x \in Int /\ box.y \in Int /\ box.w \in Int /\ box.h \in Int /\ box.w > 0 /\ box.h > 0
         /\ Measured(box)
         /\ \A axis \in Axes : box[axis] \in Int /\ Extent(box, axis) \in Int /\ Extent(box, axis) > 0
  BY DEF ShapeBox, Measured, Axes, Extent

\* A shape that is moved, by one of the two ways the code has, is a shape.
LEMMA MovedTyped ==
  ASSUME NEW box \in ShapeBox, NEW dx \in Int, NEW dy \in Int
  PROVE  /\ Moved(box, dx, dy) \in ShapeBox
         /\ Moved(box, dx, dy).x = box.x + dx /\ Moved(box, dx, dy).y = box.y + dy
         /\ Moved(box, dx, dy).w = box.w /\ Moved(box, dx, dy).h = box.h /\ Moved(box, dx, dy).type = box.type
<1>1. PICK x \in Int, y \in Int : x = box.x + dx /\ y = box.y + dy
  BY DEF ShapeBox
<1>2. Moved(box, dx, dy) = [box EXCEPT !.x = x, !.y = y]
  BY <1>1 DEF Moved
<1>3. PICK moved : moved = [box EXCEPT !.x = x, !.y = y]
  OBVIOUS
<1>4. moved \in ShapeBox /\ moved.x = x /\ moved.y = y /\ moved.w = box.w /\ moved.h = box.h /\ moved.type = box.type
  BY <1>1, <1>3 DEF ShapeBox
<1> QED BY <1>1, <1>2, <1>3, <1>4

LEMMA ShiftTyped ==
  ASSUME NEW box \in ShapeBox, NEW axis \in Axes, NEW d \in Int
  PROVE  Shift(box, axis, d) \in ShapeBox
<1>1. axis = "x" \/ axis = "y"
  BY DEF Axes
<1>2. CASE axis = "x"
  BY <1>2 DEF Shift, ShapeBox
<1>3. CASE axis = "y"
  BY <1>3 DEF Shift, ShapeBox
<1> QED BY <1>1, <1>2, <1>3

\* expandFlowSpacing moves shapes along an axis, one corridor after the other, round after round.
LEMMA DeficitTyped ==
  ASSUME NEW ids, NEW at \in Scene(ids), NEW c \in Corridor(ids)
  PROVE  Deficit(at, c) \in Int
<1>1. c.gap \in Int /\ at[c.from] \in ShapeBox /\ at[c.to] \in ShapeBox /\ c.axis \in Axes
  BY DEF Scene, Corridor
<1>2. at[c.to][c.axis] \in Int /\ at[c.from][c.axis] \in Int /\ Extent(at[c.from], c.axis) \in Int
  BY <1>1, BoxFacts
<1> QED BY <1>1, <1>2 DEF Deficit, flowGap

LEMMA RelaxedTyped ==
  ASSUME NEW ids, NEW at \in Scene(ids), NEW c \in Corridor(ids), NEW movable
  PROVE  Relaxed(at, c, movable) \in Scene(ids)
<1>1. c.axis \in Axes /\ c.to \in ids /\ at[c.to] \in ShapeBox /\ Deficit(at, c) \in Int
  BY DeficitTyped DEF Corridor, Scene
<1>2. PICK box \in ShapeBox : box = Shift(at[c.to], c.axis, Deficit(at, c))
  BY <1>1, ShiftTyped
<1>3. [at EXCEPT ![c.to] = box] \in Scene(ids)
  BY <1>1, <1>2 DEF Scene
<1> QED BY <1>2, <1>3 DEF Relaxed

RelaxStep(a, b, c, acc, x) == Relaxed(acc, x, a)
Relaxing == INSTANCE Stepwise WITH Step <- RelaxStep

LEMMA StretchedTyped ==
  ASSUME NEW ids, NEW at \in Scene(ids), NEW corridors \in Seq(Corridor(ids)), NEW movable
  PROVE  Stretched(at, corridors, movable) \in Scene(ids)
<1>1. Stretched(at, corridors, movable) = Relaxing!Result(movable, 0, 0, at, corridors)
  BY DEF Stretched, Through, RelaxStep, Relaxing!Result, Relaxing!Walk, Relaxing!Once
<1>2. \A n \in 1..Len(corridors) : \A acc \in Scene(ids) : RelaxStep(movable, 0, 0, acc, corridors[n]) \in Scene(ids)
  BY RelaxedTyped DEF RelaxStep
<1>3. Relaxing!Result(movable, 0, 0, at, corridors) \in Scene(ids)
  BY <1>2, Relaxing!ResultKeeps
<1> QED BY <1>1, <1>3

StretchStep(a, b, c, acc, x) == Stretched(acc, a, b)
Stretching == INSTANCE Stepwise WITH Step <- StretchStep

LEMMA SpacingTyped ==
  ASSUME NEW ids, NEW at \in Scene(ids), NEW corridors \in Seq(Corridor(ids)), NEW movable,
         NEW flowNodes, IsFiniteSet(flowNodes)
  PROVE  expandFlowSpacing(at, corridors, flowNodes, movable) \in Scene(ids)
<1>1. PICK rounds : rounds = [n \in 1..Cardinality(flowNodes) |-> n]
  OBVIOUS
<1>2. Len(rounds) \in Nat
  <2>1. Cardinality(flowNodes) \in Nat
    BY FS_CardinalityType
  <2>2. rounds \in Seq(Nat)
    BY <1>1, <2>1
  <2> QED BY <2>2
<1>3. expandFlowSpacing(at, corridors, flowNodes, movable) = Stretching!Result(corridors, movable, 0, at, rounds)
  BY <1>1 DEF expandFlowSpacing, Through, StretchStep, Stretching!Result, Stretching!Walk, Stretching!Once
<1>4. \A n \in 1..Len(rounds) : \A acc \in Scene(ids) : StretchStep(corridors, movable, 0, acc, rounds[n]) \in Scene(ids)
  BY StretchedTyped DEF StretchStep
<1>5. Stretching!Result(corridors, movable, 0, at, rounds) \in Scene(ids)
  BY <1>2, <1>4, Stretching!ResultKeeps
<1> QED BY <1>3, <1>5

\* resolveOverlaps pushes two shapes apart, then each from all behind it, in up to sixty rounds.
LEMMA SeparationTyped ==
  ASSUME NEW a \in ShapeBox, NEW b \in ShapeBox
  PROVE  Separation(a, b).x \in Int /\ Separation(a, b).y \in Int
<1>1. Overlap(a, b, "x") \in Int /\ Overlap(a, b, "y") \in Int
  BY BoxFacts DEF Overlap, Least, Most
<1>2. PICK x \in Int, y \in Int : x = Overlap(a, b, "x") /\ y = Overlap(a, b, "y")
  BY <1>1
<1>3. \A p \in Int, q \in Int : Place(p, q).x \in Int /\ Place(p, q).y \in Int
  BY DEF Place
<1>4. PICK s \in {-1, 1}, t \in {-1, 1} :
        /\ s = IF 2 * a.x + a.w <= 2 * b.x + b.w THEN -1 ELSE 1
        /\ t = IF 2 * a.y + a.h <= 2 * b.y + b.h THEN -1 ELSE 1
  OBVIOUS
<1>5. Separation(a, b) = IF x < y THEN Place(s * (x + MARGIN), 0) ELSE Place(0, t * (y + MARGIN))
  BY <1>2, <1>4 DEF Separation
<1>6. s * (x + MARGIN) \in Int /\ t * (y + MARGIN) \in Int
  BY DEF MARGIN
<1> QED BY <1>3, <1>5, <1>6

LEMMA PushApartTyped ==
  ASSUME NEW ids, NEW at \in Scene(ids), NEW movable, NEW i \in ids, NEW j \in ids
  PROVE  PushApart(at, movable, i, j) \in Scene(ids)
<1>1. at[i] \in ShapeBox /\ at[j] \in ShapeBox
  BY DEF Scene
<1>2. PICK away : away = Separation(at[i], at[j])
  OBVIOUS
<1>3. away.x \in Int /\ away.y \in Int
  BY <1>1, <1>2, SeparationTyped
<1>4. PICK share : share = CASE i \in movable /\ j \in movable -> Place(Half(away.x), Half(away.y))
                             [] i \in movable -> away
                             [] OTHER -> Place(0, 0)
  OBVIOUS
<1>5. share.x \in Int /\ share.y \in Int
  <2>1. Half(away.x) \in Int /\ Half(away.y) \in Int
    BY <1>3 DEF Half
  <2>2. \A p \in Int, q \in Int : Place(p, q).x \in Int /\ Place(p, q).y \in Int
    BY DEF Place
  <2>3. share = away \/ share = Place(Half(away.x), Half(away.y)) \/ share = Place(0, 0)
    BY <1>4
  <2> QED BY <1>3, <2>1, <2>2, <2>3
<1>6. PushApart(at, movable, i, j) =
        [at EXCEPT ![i] = Moved(@, share.x, share.y), ![j] = Moved(@, share.x - away.x, share.y - away.y)]
  BY <1>2, <1>4 DEF PushApart
<1>7. \A box \in ShapeBox : Moved(box, share.x, share.y) \in ShapeBox
                              /\ Moved(box, share.x - away.x, share.y - away.y) \in ShapeBox
  BY <1>3, <1>5, MovedTyped
<1> QED BY <1>1, <1>6, <1>7 DEF Scene

LEMMA PushedTyped ==
  ASSUME NEW ids, NEW at \in Scene(ids), NEW movable, NEW ignored, NEW i \in ids, NEW j \in ids
  PROVE  Pushed(at, i, j, movable, ignored) \in Scene(ids)
  BY PushApartTyped DEF Pushed

PushStep(a, b, c, acc, x) == Pushed(acc, a, x, b, c)
Pushing == INSTANCE Stepwise WITH Step <- PushStep

LEMMA PushedByLaterTyped ==
  ASSUME NEW ids, NEW at \in Scene(ids), NEW movable, NEW ignored, NEW seq \in Seq(ids), NEW k \in 1..Len(seq)
  PROVE  PushedByLater(at, seq, k, movable, ignored) \in Scene(ids)
<1>1. PICK later : later = SubSeq(seq, k + 1, Len(seq))
  OBVIOUS
<1>2. later \in Seq(ids) /\ Len(later) \in Nat
  BY <1>1
<1>3. PICK i \in ids : i = seq[k]
  OBVIOUS
<1>4. PushedByLater(at, seq, k, movable, ignored) = Pushing!Result(i, movable, ignored, at, later)
  BY <1>1, <1>3 DEF PushedByLater, Through, PushStep, Pushing!Result, Pushing!Walk, Pushing!Once
<1>5. \A n \in 1..Len(later) : \A acc \in Scene(ids) : PushStep(i, movable, ignored, acc, later[n]) \in Scene(ids)
  BY <1>2, PushedTyped DEF PushStep
<1>6. Pushing!Result(i, movable, ignored, at, later) \in Scene(ids)
  BY <1>2, <1>5, Pushing!ResultKeeps
<1> QED BY <1>4, <1>6

LaterStep(a, b, c, acc, x) == PushedByLater(acc, a, x, b, c)
Passing == INSTANCE Stepwise WITH Step <- LaterStep

LEMMA PushedOnceTyped ==
  ASSUME NEW ids, NEW at \in Scene(ids), NEW movable, NEW ignored, NEW seq \in Seq(ids)
  PROVE  PushedOnce(at, seq, movable, ignored) \in Scene(ids)
<1>1. PICK places : places = [k \in DOMAIN seq |-> k]
  OBVIOUS
<1>2. places \in Seq(DOMAIN seq) /\ Len(places) = Len(seq) /\ \A n \in 1..Len(places) : places[n] \in 1..Len(seq)
  BY <1>1
<1>3. PICK passed : passed = Passing!Result(seq, movable, ignored, at, places)
  OBVIOUS
<1>4. PushedOnce(at, seq, movable, ignored) = passed \/ PushedOnce(at, seq, movable, ignored) = at
  BY <1>1, <1>3 DEF PushedOnce, Through, LaterStep, Passing!Result, Passing!Walk, Passing!Once
<1>5. \A n \in 1..Len(places) : \A acc \in Scene(ids) : LaterStep(seq, movable, ignored, acc, places[n]) \in Scene(ids)
  BY <1>2, PushedByLaterTyped DEF LaterStep
<1>6. Passing!Result(seq, movable, ignored, at, places) \in Scene(ids)
  BY <1>2, <1>5, Passing!ResultKeeps
<1> QED BY <1>3, <1>4, <1>6

RoundStep(a, b, c, acc, x) == PushedOnce(acc, a, b, c)
Resolving == INSTANCE Stepwise WITH Step <- RoundStep

LEMMA OverlapsTyped ==
  ASSUME NEW ids, NEW at \in Scene(ids), NEW movable, NEW ignored, NEW seq \in Seq(ids)
  PROVE  ResolveOverlaps(seq, at, movable, ignored) \in Scene(ids)
<1>1. PICK rounds : rounds = [n \in 1..60 |-> n]
  OBVIOUS
<1>2. rounds \in Seq(Nat) /\ Len(rounds) \in Nat
  BY <1>1
<1>3. ResolveOverlaps(seq, at, movable, ignored) = Resolving!Result(seq, movable, ignored, at, rounds)
  BY <1>1 DEF ResolveOverlaps, Through, RoundStep, Resolving!Result, Resolving!Walk, Resolving!Once
<1>4. \A n \in 1..Len(rounds) : \A acc \in Scene(ids) : RoundStep(seq, movable, ignored, acc, rounds[n]) \in Scene(ids)
  BY PushedOnceTyped DEF RoundStep
<1>5. Resolving!Result(seq, movable, ignored, at, rounds) \in Scene(ids)
  BY <1>2, <1>4, Resolving!ResultKeeps
<1> QED BY <1>3, <1>5

-----------------------------------------------------------------------------
(* The shifts spread, in one pass more than there are shapes.              *)

\* A set that only grows, and grows no more once it did not, is the same from one step to the
\* next after as many steps as it may have members.
Growing(F, ids, from, last) ==
  /\ \A n \in from..last : F[n] \subseteq ids /\ F[n + 1] \subseteq ids /\ F[n] \subseteq F[n + 1]
  /\ \A n \in from..last - 1 : F[n + 1] = F[n] => F[n + 2] = F[n + 1]

LEMMA Settles ==
  ASSUME NEW ids, IsFiniteSet(ids), NEW F, NEW from \in Nat, NEW last \in Nat, last = from + Cardinality(ids),
         Growing(F, ids, from, last)
  PROVE  F[last + 1] = F[last]
<1> USE DEF Growing
<1>1. PICK k \in Nat : k = Cardinality(ids)
  BY FS_CardinalityType
<1> DEFINE S == {m \in 0..k : Cardinality(F[from + m]) >= m \/ F[from + m + 1] = F[from + m]}
<1>2. 0 \in S
  <2>1. F[from] \subseteq ids /\ from + 0 = from
    BY <1>1
  <2>2. Cardinality(F[from]) \in Nat
    BY <2>1, FS_Subset, FS_CardinalityType
  <2> QED BY <1>1, <2>1, <2>2
<1>3. ASSUME NEW m \in 0..k - 1, m \in S PROVE m + 1 \in S
  <2>1. /\ m \in Nat /\ m + 1 \in 0..k /\ from + m \in from..last - 1 /\ from + (m + 1) = from + m + 1
        /\ from + m \in from..last /\ from + m + 1 \in from..last
        /\ from + (m + 1) + 1 = from + m + 2 /\ from + m \in Nat
    BY <1>1
  <2>2. PICK n \in Nat : n = from + m
    BY <2>1
  <2>3. /\ n \in from..last - 1 /\ n \in from..last /\ n + 1 \in from..last
        /\ from + (m + 1) = n + 1 /\ from + (m + 1) + 1 = n + 2 /\ from + m + 1 = n + 1
    BY <2>1, <2>2
  <2>4. CASE F[n + 1] = F[n]
    BY <2>1, <2>3, <2>4
  <2>5. CASE F[n + 1] # F[n]
    <3>1. Cardinality(F[n]) >= m
      BY <1>3, <2>2, <2>3, <2>5
    <3>2. F[n] \subseteq F[n + 1] /\ F[n + 1] \subseteq ids
      BY <2>3
    <3>3. IsFiniteSet(F[n + 1]) /\ IsFiniteSet(F[n])
      BY <3>2, FS_Subset
    <3>4. Cardinality(F[n]) < Cardinality(F[n + 1])
      BY <2>5, <3>2, <3>3, FS_Subset, FS_CardinalityType
    <3>5. Cardinality(F[n]) \in Nat /\ Cardinality(F[n + 1]) \in Nat
      BY <3>3, FS_CardinalityType
    <3>6. Cardinality(F[n + 1]) >= m + 1
      BY <2>1, <3>1, <3>4, <3>5
    <3> QED BY <2>1, <2>3, <3>6
  <2> QED BY <2>4, <2>5
<1>4. k \in S
  <2> HIDE DEF S
  <2>1. \A m \in 0..k : m \in S
    BY <1>1, <1>2, <1>3, UpTo
  <2> QED BY <1>1, <2>1
<1>5. last = from + k /\ last \in from..last
  BY <1>1
<1>6. CASE Cardinality(F[last]) >= k
  <2>1. F[last] \subseteq ids /\ F[last + 1] \subseteq ids /\ F[last] \subseteq F[last + 1]
    BY <1>5
  <2>2. Cardinality(F[last]) \in Nat /\ (F[last] # ids => Cardinality(F[last]) < Cardinality(ids))
    BY <2>1, FS_Subset, FS_CardinalityType
  <2>3. F[last] = ids
    BY <1>1, <1>6, <2>2
  <2> QED BY <2>1, <2>3
<1> QED BY <1>4, <1>5, <1>6

\* The moves along an axis; those of at least v pixels either way; groups and containers of shapes.
Moves(ids)   == [by: [ids -> Int], torn: BOOLEAN, changed: BOOLEAN]
Far(d)       == IF d >= 0 THEN d ELSE -d
Level(by, v) == {i \in DOMAIN by : Far(by[i]) >= v}
Composed(ids, groups, containers) == groups \in Seq(SUBSET ids) /\ containers \in Seq(ids \X ids)

\* A function on the numbers up to m is a sequence.
LEMMA IsSeq ==
  ASSUME NEW S, NEW m \in Nat, NEW f, DOMAIN f = 1..m, f = [n \in DOMAIN f |-> f[n]], \A n \in 1..m : f[n] \in S
  PROVE  f \in Seq(S) /\ Len(f) = m
  OBVIOUS

\* Pairs of shapes are groups of two.
LEMMA CouplesTyped ==
  ASSUME NEW ids, NEW pairs \in Seq(ids \X ids)
  PROVE  Couples(pairs) \in Seq(SUBSET ids) /\ Len(Couples(pairs)) = Len(pairs)
<1>1. PICK m \in Nat, two \in {Couples(pairs)} : m = Len(pairs)
  OBVIOUS
<1>2. PICK U : U = SUBSET ids
  OBVIOUS
<1>3. DOMAIN two = 1..m /\ two = [n \in DOMAIN two |-> two[n]]
  BY <1>1 DEF Couples
<1>4. ASSUME NEW n \in 1..m PROVE two[n] \in U
  <2>1. pairs[n] \in ids \X ids
    BY <1>1
  <2>2. two[n] = {pairs[n][1], pairs[n][2]}
    BY <1>1 DEF Couples
  <2> QED BY <1>2, <2>1, <2>2
<1>5. two \in Seq(U) /\ Len(two) = m
  BY <1>3, <1>4, IsSeq
<1> QED BY <1>1, <1>2, <1>5

\* The farthest of the moves of a group is one of them, and as far as any when it is not torn.
LEMMA FarthestIs ==
  ASSUME NEW ids, IsFiniteSet(ids), NEW by \in [ids -> Int], NEW group \in SUBSET ids, group # {},
         NEW d, d = FarthestIn(by, group)
  PROVE  /\ d \in Int /\ \E i \in group : by[i] = d
         /\ ~TornIn(by, group) => \A i \in group : Far(by[i]) <= Far(d)
<1>1. PICK moves : moves = {by[i] : i \in group}
  OBVIOUS
<1>2. moves \in SUBSET Int /\ moves # {} /\ IsFiniteSet(moves)
  <2>1. IsFiniteSet(group)
    BY FS_Subset
  <2>2. [i \in group |-> by[i]] \in Surjection(group, moves)
    BY <1>1 DEF Surjection
  <2>3. IsFiniteSet(moves)
    BY <2>1, <2>2, FS_Surjection
  <2> QED BY <1>1, <2>3
<1>3. PICK top \in moves, low \in moves : /\ top = Max(moves) /\ \A n \in moves : n <= top
                                          /\ low = Min(moves) /\ \A n \in moves : low <= n
  BY <1>2, MaxIs, MinIs
<1>4. d = IF top > 0 THEN top ELSE low
  BY <1>1, <1>3 DEF FarthestIn
<1>5. top \in Int /\ low \in Int /\ d \in moves
  BY <1>2, <1>3, <1>4
<1>6. ASSUME ~TornIn(by, group), NEW i \in group PROVE Far(by[i]) <= Far(d)
  <2>1. by[i] \in Int /\ by[i] <= top /\ low <= by[i]
    BY <1>1, <1>3
  <2>2. ~(top > 0 /\ low < 0)
    BY <1>1, <1>3, <1>6 DEF TornIn
  <2> QED BY <1>4, <1>5, <2>1, <2>2 DEF Far
<1> QED BY <1>1, <1>5, <1>6, <1>2

\* What a group that is visited does to the moves.
LEMMA FollowIs ==
  ASSUME NEW ids, IsFiniteSet(ids), NEW acc \in Moves(ids), NEW group \in SUBSET ids,
         NEW next, next = Follow(acc, group)
  PROVE  /\ next \in Moves(ids)
         /\ acc.torn => next.torn
         /\ acc.changed => next.changed
         /\ ~next.torn => ~TornIn(acc.by, group)
         /\ ~next.torn => \A v \in Nat : Level(next.by, v) = Level(acc.by, v)
                                           \cup (IF group \cap Level(acc.by, v) = {} THEN {} ELSE group)
         /\ ~next.changed => next.by = acc.by /\ (TornIn(acc.by, group) \/ EvenIn(acc.by, group))
         /\ TornIn(acc.by, group) \/ EvenIn(acc.by, group) => next.by = acc.by /\ next.changed = acc.changed
<1>1. PICK by, torn, changed : by = acc.by /\ torn = acc.torn /\ changed = acc.changed
  OBVIOUS
<1>2. /\ by \in [ids -> Int] /\ torn \in BOOLEAN /\ changed \in BOOLEAN /\ DOMAIN by = ids
      /\ acc = [by |-> by, torn |-> torn, changed |-> changed]
  BY <1>1 DEF Moves
<1>3. CASE TornIn(by, group)
  <2>1. next = [acc EXCEPT !.torn = TRUE]
    <3>1. ~EvenIn(by, group)
      <4>1. PICK i \in group, j \in group : by[i] > 0 /\ by[j] < 0
        BY <1>3 DEF TornIn
      <4>2. by[i] \in Int /\ by[j] \in Int /\ by[i] # by[j]
        BY <1>2, <4>1
      <4> QED BY <4>2 DEF EvenIn
    <3>2. TornIn(acc.by, group) /\ ~EvenIn(acc.by, group)
      BY <1>1, <1>3, <3>1
    <3> QED BY <3>2 DEF Follow
  <2>2. next.by = by /\ next.torn = TRUE /\ next.changed = changed
    BY <1>2, <2>1
  <2>3. next \in Moves(ids)
    BY <2>1 DEF Moves
  <2> QED BY <1>1, <1>3, <2>2, <2>3
<1>4. CASE ~TornIn(by, group) /\ EvenIn(by, group)
  <2>1. next = acc
    BY <1>1, <1>4 DEF Follow
  <2>2. ASSUME NEW v \in Nat PROVE group \cap Level(by, v) = {} \/ group \subseteq Level(by, v)
    BY <1>2, <1>4 DEF EvenIn, Level
  <2> QED BY <1>1, <1>4, <2>1, <2>2
<1>5. CASE ~TornIn(by, group) /\ ~EvenIn(by, group)
  <2>1. group # {}
    BY <1>5 DEF EvenIn
  <2>2. PICK d : d = FarthestIn(by, group)
    OBVIOUS
  <2>3. d \in Int /\ (\E i \in group : by[i] = d) /\ \A i \in group : Far(by[i]) <= Far(d)
    BY <1>2, <1>5, <2>1, <2>2, FarthestIs
  <2>4. PICK by2 : by2 = [i \in ids |-> IF i \in group THEN d ELSE by[i]]
    OBVIOUS
  <2>5. by2 \in [ids -> Int] /\ DOMAIN by2 = ids
    BY <1>2, <2>3, <2>4
  <2>6. next = [acc EXCEPT !.by = by2, !.changed = TRUE]
    <3>1. by2 = Taken(by, group)
      BY <1>2, <2>2, <2>4 DEF Taken
    <3>2. Follow(acc, group) = [acc EXCEPT !.by = by2, !.changed = TRUE]
      BY <1>1, <1>5, <3>1 DEF Follow
    <3> QED BY <3>2
  <2>7. next.by = by2 /\ next.torn = torn /\ next.changed = TRUE
    BY <1>2, <2>6
  <2>8. next \in Moves(ids)
    BY <2>5, <2>6 DEF Moves
  <2>9. ASSUME NEW v \in Nat
        PROVE  Level(by2, v) = Level(by, v) \cup (IF group \cap Level(by, v) = {} THEN {} ELSE group)
    <3>1. \A i \in ids : Far(by[i]) \in Int /\ Far(d) \in Int
      BY <1>2, <2>3 DEF Far
    <3>2. Far(d) >= v <=> \E i \in group : Far(by[i]) >= v
      BY <2>3, <3>1
    <3>3. \A i \in ids : i \in Level(by, v) <=> Far(by[i]) >= v
      BY <1>2 DEF Level
    <3>4. \A i \in ids : i \in Level(by2, v) <=> IF i \in group THEN Far(d) >= v ELSE Far(by[i]) >= v
      BY <2>4, <2>5 DEF Level
    <3>5. Level(by, v) \subseteq ids /\ Level(by2, v) \subseteq ids
      BY <1>2, <2>5 DEF Level
    <3>6. group \cap Level(by, v) = {} <=> ~(Far(d) >= v)
      BY <3>2, <3>3
    <3>7. \A i \in group : i \in Level(by, v) => Far(d) >= v
      BY <3>2, <3>3
    <3> QED BY <3>3, <3>4, <3>5, <3>6, <3>7
  <2> QED BY <1>1, <1>5, <2>7, <2>8, <2>9
<1> QED BY <1>1, <1>3, <1>4, <1>5

FollowStep(a, b, c, acc, group) == Follow(acc, group)
Following == INSTANCE Stepwise WITH Step <- FollowStep

\* What a step never ends lasts from the time it holds.
LEMMA Lasts ==
  ASSUME NEW m \in Nat, NEW T, \A n \in 1..m : n - 1 \in T => n \in T, NEW k \in 0..m, k \in T
  PROVE  \A n \in k..m : n \in T
<1>1. PICK S : S = {n \in 0..m - k : k + n \in T}
  OBVIOUS
<1>2. k \in Nat /\ m - k \in Nat /\ 0 \in S
  BY <1>1
<1>3. ASSUME NEW n \in 0..(m - k) - 1, n \in S PROVE n + 1 \in S
  <2>1. k + n + 1 \in 1..m /\ (k + n + 1) - 1 = k + n /\ n + 1 \in 0..m - k /\ k + (n + 1) = k + n + 1
    BY <1>2
  <2> QED BY <1>1, <1>3, <2>1
<1>4. \A n \in 0..m - k : n \in S
  BY <1>2, <1>3, UpTo
<1>5. \A n \in k..m : n - k \in 0..m - k /\ k + (n - k) = n
  BY <1>2
<1> QED BY <1>1, <1>4, <1>5

\* What holds of a walk along the groups, from one visit to the next.
Visits(f, ids, seq) ==
  /\ f[0] \in Moves(ids)
  /\ \A n \in 1..Len(seq) : f[n] = Follow(f[n - 1], seq[n])

LEMMA VisitsAre ==
  ASSUME NEW ids, IsFiniteSet(ids), NEW seq \in Seq(SUBSET ids), NEW f, Visits(f, ids, seq)
  PROVE  \A n \in 0..Len(seq) : f[n] \in Moves(ids)
<1>1. PICK m \in Nat : m = Len(seq)
  OBVIOUS
<1>2. PICK S : S = {n \in 0..m : f[n] \in Moves(ids)}
  OBVIOUS
<1>3. 0 \in S
  BY <1>1, <1>2 DEF Visits
<1>4. ASSUME NEW n \in 0..m - 1, n \in S PROVE n + 1 \in S
  <2>1. n + 1 \in 1..m /\ n + 1 \in 0..m /\ (n + 1) - 1 = n
    BY <1>1
  <2>2. f[n + 1] = Follow(f[n], seq[n + 1]) /\ seq[n + 1] \in SUBSET ids /\ f[n] \in Moves(ids)
    BY <1>1, <1>2, <1>4, <2>1 DEF Visits
  <2>3. f[n + 1] \in Moves(ids)
    BY <2>2, FollowIs
  <2> QED BY <1>2, <2>1, <2>3
<1>5. \A n \in 0..m : n \in S
  BY <1>1, <1>3, <1>4, UpTo
<1> QED BY <1>1, <1>2, <1>5

\* Who is torn stays torn, and what changed stays changed.
LEMMA VisitsGrow ==
  ASSUME NEW ids, IsFiniteSet(ids), NEW seq \in Seq(SUBSET ids), NEW f, Visits(f, ids, seq),
         NEW m, m = Len(seq), NEW k \in 0..m
  PROVE  (f[k].torn => f[m].torn) /\ (f[k].changed => f[m].changed)
<1>1. m \in Nat /\ m \in k..m
  OBVIOUS
<1>2. PICK torn, changed : torn = {n \in 0..m : f[n].torn} /\ changed = {n \in 0..m : f[n].changed}
  OBVIOUS
<1>3. ASSUME NEW n \in 1..m PROVE (n - 1 \in torn => n \in torn) /\ (n - 1 \in changed => n \in changed)
  <2>1. n \in 0..m /\ n - 1 \in 0..m
    BY <1>1
  <2>2. f[n - 1] \in Moves(ids) /\ f[n] = Follow(f[n - 1], seq[n]) /\ seq[n] \in SUBSET ids
    <3>1. f[n - 1] \in Moves(ids)
      BY <2>1, VisitsAre
    <3> QED BY <3>1 DEF Visits
  <2>3. (f[n - 1].torn => f[n].torn) /\ (f[n - 1].changed => f[n].changed)
    <3>1. PICK acc, next, group : acc = f[n - 1] /\ next = f[n] /\ group = seq[n]
      OBVIOUS
    <3>2. acc \in Moves(ids) /\ next = Follow(acc, group) /\ group \in SUBSET ids
      BY <2>2, <3>1
    <3>3. (acc.torn => next.torn) /\ (acc.changed => next.changed)
      BY <3>2, FollowIs
    <3> QED BY <3>1, <3>3
  <2> QED BY <1>2, <2>1, <2>3
<1>4. k \in torn => m \in torn
  BY <1>1, <1>3, Lasts
<1>5. k \in changed => m \in changed
  BY <1>1, <1>3, Lasts
<1> QED BY <1>2, <1>4, <1>5

\* The levels along a walk, each the last and the groups that reach into it.
Levels(f, m, v) == [n \in 0..m |-> Level(f[n].by, v)]
Widens(F, ids, seq, m) ==
  /\ \A n \in 1..m : F[n] = F[n - 1] \cup (IF seq[n] \cap F[n - 1] = {} THEN {} ELSE seq[n])
  /\ \A n \in 0..m : F[0] \subseteq F[n] /\ F[n] \subseteq F[m] /\ F[n] \subseteq ids

\* A walk that tears nothing widens every level.
LEMMA VisitsWiden ==
  ASSUME NEW ids, IsFiniteSet(ids), NEW seq \in Seq(SUBSET ids), NEW f, Visits(f, ids, seq),
         NEW m, m = Len(seq), ~f[m].torn, NEW v \in Nat
  PROVE  Widens(Levels(f, m, v), ids, seq, m)
<1>1. m \in Nat
  OBVIOUS
<1>. PICK F : F = Levels(f, m, v)
  OBVIOUS
<1>2. ASSUME NEW n \in 1..m PROVE F[n] = F[n - 1] \cup (IF seq[n] \cap F[n - 1] = {} THEN {} ELSE seq[n])
  <2>1. n \in 0..m /\ n - 1 \in 0..m
    BY <1>1
  <2>2. f[n] = Follow(f[n - 1], seq[n]) /\ seq[n] \in SUBSET ids
    BY DEF Visits
  <2>3. f[n - 1] \in Moves(ids) /\ ~f[n].torn
    BY <2>1, VisitsAre, VisitsGrow
  <2>4. Level(f[n].by, v) = Level(f[n - 1].by, v)
                              \cup (IF seq[n] \cap Level(f[n - 1].by, v) = {} THEN {} ELSE seq[n])
    BY <2>2, <2>3, FollowIs
  <2>5. F[n] = Level(f[n].by, v) /\ F[n - 1] = Level(f[n - 1].by, v)
    BY <2>1 DEF Levels
  <2> QED BY <2>4, <2>5
<1>3. ASSUME NEW k \in 0..m, NEW n \in k..m PROVE F[k] \subseteq F[n]
  <2>1. SUFFICES ASSUME NEW x \in F[k] PROVE x \in F[n]
    OBVIOUS
  <2>2. PICK T : T = {p \in 0..m : x \in F[p]}
    OBVIOUS
  <2>3. ASSUME NEW p \in 1..m PROVE p - 1 \in T => p \in T
    <3>1. p \in 0..m
      BY <1>1
    <3>2. F[p - 1] \subseteq F[p]
      BY <1>2
    <3> QED BY <2>2, <3>1, <3>2
  <2>4. k \in T
    BY <2>1, <2>2
  <2>5. n \in T
    BY <1>1, <2>3, <2>4, Lasts
  <2> QED BY <2>2, <2>5
<1>4. \A n \in 0..m : F[0] \subseteq F[n] /\ F[n] \subseteq F[m]
  <2>1. 0 \in 0..m /\ \A n \in 0..m : n \in 0..m /\ m \in n..m
    BY <1>1
  <2> QED BY <1>3, <2>1
<1>8. ASSUME NEW n \in 0..m PROVE F[n] \subseteq ids
  <2>1. f[n] \in Moves(ids)
    BY VisitsAre
  <2>2. DOMAIN f[n].by = ids
    BY <2>1 DEF Moves
  <2>3. F[n] = Level(f[n].by, v)
    BY DEF Levels
  <2> QED BY <2>2, <2>3 DEF Level
<1> QED BY <1>2, <1>4, <1>8 DEF Widens

\* A walk that changes nothing leaves the moves as they were, and every group it visits is torn or even.
LEMMA VisitsStill ==
  ASSUME NEW ids, IsFiniteSet(ids), NEW seq \in Seq(SUBSET ids), NEW f, Visits(f, ids, seq),
         NEW m, m = Len(seq), ~f[m].changed
  PROVE  /\ \A n \in 0..m : f[n].by = f[0].by
         /\ \A n \in 1..m : TornIn(f[0].by, seq[n]) \/ EvenIn(f[0].by, seq[n])
<1>1. m \in Nat
  OBVIOUS
<1>2. ASSUME NEW n \in 1..m
      PROVE  f[n].by = f[n - 1].by /\ (TornIn(f[n - 1].by, seq[n]) \/ EvenIn(f[n - 1].by, seq[n]))
  <2>1. n \in 0..m /\ n - 1 \in 0..m
    BY <1>1
  <2>2. f[n - 1] \in Moves(ids) /\ f[n] = Follow(f[n - 1], seq[n]) /\ seq[n] \in SUBSET ids
    BY <2>1, VisitsAre DEF Visits
  <2>3. ~f[n].changed
    BY <2>1, VisitsGrow
  <2> QED BY <2>2, <2>3, FollowIs
<1>3. PICK S : S = {n \in 0..m : f[n].by = f[0].by}
  OBVIOUS
<1>4. 0 \in S
  BY <1>1, <1>3
<1>5. ASSUME NEW n \in 0..m - 1, n \in S PROVE n + 1 \in S
  <2>1. n + 1 \in 1..m /\ n + 1 \in 0..m /\ (n + 1) - 1 = n
    BY <1>1
  <2> QED BY <1>2, <1>3, <1>5, <2>1
<1>6. \A n \in 0..m : n \in S
  BY <1>1, <1>4, <1>5, UpTo
<1>7. \A n \in 1..m : n - 1 \in 0..m
  BY <1>1
<1> QED BY <1>2, <1>3, <1>6, <1>7

\* A walk along groups that are torn or even changes nothing.
LEMMA VisitsIdle ==
  ASSUME NEW ids, IsFiniteSet(ids), NEW seq \in Seq(SUBSET ids), NEW f, Visits(f, ids, seq),
         NEW m, m = Len(seq), NEW by, f[0].by = by,
         \A n \in 1..m : TornIn(by, seq[n]) \/ EvenIn(by, seq[n])
  PROVE  f[m].changed = f[0].changed
<1>1. m \in Nat
  OBVIOUS
<1>2. PICK S : S = {n \in 0..m : f[n].by = by /\ f[n].changed = f[0].changed}
  OBVIOUS
<1>3. 0 \in S
  BY <1>1, <1>2
<1>4. ASSUME NEW n \in 0..m - 1, n \in S PROVE n + 1 \in S
  <2>1. n + 1 \in 1..m /\ n + 1 \in 0..m /\ (n + 1) - 1 = n /\ n \in 0..m
    BY <1>1
  <2>2. f[n] \in Moves(ids) /\ f[n + 1] = Follow(f[n], seq[n + 1]) /\ seq[n + 1] \in SUBSET ids
    BY <2>1, VisitsAre DEF Visits
  <2>3. TornIn(f[n].by, seq[n + 1]) \/ EvenIn(f[n].by, seq[n + 1])
    BY <1>2, <1>4, <2>1
  <2>4. f[n + 1].by = f[n].by /\ f[n + 1].changed = f[n].changed
    BY <2>2, <2>3, FollowIs
  <2> QED BY <1>2, <1>4, <2>1, <2>4
<1>5. \A n \in 0..m : n \in S
  BY <1>1, <1>3, <1>4, UpTo
<1> QED BY <1>1, <1>2, <1>5

\* A walk that tears nothing visits no group with moves both ways.
LEMMA VisitsWhole ==
  ASSUME NEW ids, IsFiniteSet(ids), NEW seq \in Seq(SUBSET ids), NEW f, Visits(f, ids, seq),
         NEW m, m = Len(seq), ~f[m].torn, NEW n \in 1..m
  PROVE  ~TornIn(f[n - 1].by, seq[n])
<1>1. n \in 0..m /\ n - 1 \in 0..m
  OBVIOUS
<1>2. f[n - 1] \in Moves(ids) /\ f[n] = Follow(f[n - 1], seq[n]) /\ seq[n] \in SUBSET ids
  BY <1>1, VisitsAre DEF Visits
<1>3. ~f[n].torn
  BY <1>1, VisitsGrow
<1> QED BY <1>2, <1>3, FollowIs

\* What a pass does to the moves.
PassStep(a, b, c, acc, n) == Pass(acc, a, b)
Repeating == INSTANCE Stepwise WITH Step <- PassStep

\* A pass is a walk along the groups, and behind them along the content of some containers.
LEMMA PassVisits ==
  ASSUME NEW ids, NEW acc \in Moves(ids), NEW groups, NEW containers, Composed(ids, groups, containers)
  PROVE  \E seq \in Seq(SUBSET ids) : \E f :
           /\ Visits(f, ids, seq) /\ f[0] = [acc EXCEPT !.changed = FALSE]
           /\ f[Len(seq)] = Pass(acc, groups, containers)
           /\ Len(groups) <= Len(seq) /\ \A n \in 1..Len(groups) : seq[n] = groups[n]
           /\ containers = <<>> => Len(seq) = Len(groups)
<1>1. PICK by : by = acc.by
  OBVIOUS
<1>2. PICK pulled : pulled = Pulled(by, containers)
  OBVIOUS
<1>3. pulled \in Seq(SUBSET ids) /\ (containers = <<>> => Len(pulled) = 0)
  <2>1. PICK places : places = {n \in DOMAIN containers : by[containers[n][1]] # 0}
    OBVIOUS
  <2>2. PICK moving, pair : moving = Picked(containers, places) /\ pair = ids \X ids
    OBVIOUS
  <2>3. containers \in Seq(pair) /\ places \in SUBSET DOMAIN containers
    BY <2>1, <2>2 DEF Composed
  <2>4. moving \in Seq(pair) /\ \A k \in DOMAIN moving : \E n \in places : moving[k] = containers[n]
    BY <2>2, <2>3, PickedIs, PickedWithin
  <2>5. pulled = Couples(moving)
    BY <1>2, <2>1, <2>2 DEF Pulled, Only
  <2>6. pulled \in Seq(SUBSET ids) /\ Len(pulled) = Len(moving)
    BY <2>2, <2>4, <2>5, CouplesTyped
  <2>7. ASSUME containers = <<>> PROVE Len(moving) = 0
    <3>1. DOMAIN moving = {}
      BY <2>3, <2>4, <2>7
    <3> QED BY <2>4, <3>1
  <2> QED BY <2>6, <2>7
<1>4. groups \in Seq(SUBSET ids)
  BY DEF Composed
<1>5. PICK seq : seq = groups \o pulled
  OBVIOUS
<1>6. /\ seq \in Seq(SUBSET ids) /\ Len(seq) = Len(groups) + Len(pulled) /\ Len(groups) \in Nat /\ Len(pulled) \in Nat
      /\ \A n \in 1..Len(groups) : seq[n] = groups[n]
  BY <1>3, <1>4, <1>5
<1>7. PICK start : start = [acc EXCEPT !.changed = FALSE]
  OBVIOUS
<1>8. start \in Moves(ids)
  BY <1>7 DEF Moves
<1>9. Pass(acc, groups, containers) = Following!Result(0, 0, 0, start, seq)
  BY <1>1, <1>2, <1>5, <1>7 DEF Pass, Through, FollowStep, Following!Result, Following!Walk, Following!Once
<1>10. PICK f : Following!Goes(f, 0, 0, 0, start, seq, Len(seq)) /\ Pass(acc, groups, containers) = f[Len(seq)]
  BY <1>6, <1>9, Following!ResultIs
<1>11. Visits(f, ids, seq) /\ f[0] = start
  BY <1>8, <1>10 DEF Following!Goes, FollowStep, Visits
<1>12. Len(groups) <= Len(seq) /\ (containers = <<>> => Len(seq) = Len(groups))
  BY <1>3, <1>6
<1> QED BY <1>6, <1>7, <1>10, <1>11, <1>12

\* No group has a shape at a level and one below.
Closed(by, groups, v) == \A g \in ToSet(groups) : g \cap Level(by, v) = {} \/ g \subseteq Level(by, v)

\* A group that is closed at every level is even, unless it is torn.
LEMMA ClosedIsEven ==
  ASSUME NEW ids, IsFiniteSet(ids), NEW by \in [ids -> Int], NEW group \in SUBSET ids,
         \A v \in Nat : group \cap Level(by, v) = {} \/ group \subseteq Level(by, v)
  PROVE  TornIn(by, group) \/ EvenIn(by, group)
<1>1. SUFFICES ASSUME ~TornIn(by, group), NEW i \in group PROVE by[i] = FarthestIn(by, group)
  BY DEF EvenIn
<1>2. PICK d : d = FarthestIn(by, group)
  OBVIOUS
<1>3. PICK j \in group : by[j] = d /\ d \in Int /\ \A k \in group : Far(by[k]) <= Far(d)
  BY <1>1, <1>2, FarthestIs
<1>4. PICK v \in Nat : v = Far(d)
  BY <1>3 DEF Far
<1>5. DOMAIN by = ids /\ by[i] \in Int
  OBVIOUS
<1>6. j \in Level(by, v)
  BY <1>3, <1>4, <1>5 DEF Level
<1>7. i \in Level(by, v)
  BY <1>6
<1>8. Far(by[i]) >= Far(d) /\ Far(by[i]) <= Far(d)
  BY <1>3, <1>4, <1>7 DEF Level
<1>9. ~(d > 0 /\ by[i] < 0) /\ ~(d < 0 /\ by[i] > 0)
  BY <1>1, <1>3 DEF TornIn
<1>10. by[i] = d
  BY <1>3, <1>5, <1>8, <1>9 DEF Far
<1> QED BY <1>2, <1>10

\* What a pass does to a level: it grows, or no group has a shape at it and one below.
LevelGrows(ids, by, next, groups, containers, v) ==
  /\ Level(by, v) \subseteq Level(next, v) /\ Level(next, v) \subseteq ids
  /\ Level(next, v) = Level(by, v) => Closed(by, groups, v)
  /\ containers = <<>> /\ Closed(by, groups, v) => Level(next, v) = Level(by, v)

LEMMA PassIs ==
  ASSUME NEW ids, IsFiniteSet(ids), NEW acc \in Moves(ids), NEW groups, NEW containers, Composed(ids, groups, containers),
         NEW next, next = Pass(acc, groups, containers)
  PROVE  /\ next \in Moves(ids) /\ (acc.torn => next.torn)
         /\ ~next.torn /\ ~next.changed => \A g \in ToSet(groups) : EvenIn(next.by, g)
         /\ ~next.torn => \A v \in Nat : LevelGrows(ids, acc.by, next.by, groups, containers, v)
         /\ ~next.torn /\ containers = <<>> /\ (\A v \in Nat : Closed(acc.by, groups, v)) => ~next.changed
<1>1. PICK seq \in Seq(SUBSET ids) : \E f :
           /\ Visits(f, ids, seq) /\ f[0] = [acc EXCEPT !.changed = FALSE]
           /\ f[Len(seq)] = next
           /\ Len(groups) <= Len(seq) /\ \A n \in 1..Len(groups) : seq[n] = groups[n]
           /\ containers = <<>> => Len(seq) = Len(groups)
  BY PassVisits
<1>2. PICK f : /\ Visits(f, ids, seq) /\ f[0] = [acc EXCEPT !.changed = FALSE]
               /\ f[Len(seq)] = next
               /\ Len(groups) <= Len(seq) /\ \A n \in 1..Len(groups) : seq[n] = groups[n]
               /\ containers = <<>> => Len(seq) = Len(groups)
  BY <1>1
<1>3. PICK m \in Nat, by \in {acc.by} : m = Len(seq)
  OBVIOUS
<1>4. f[0].by = by /\ f[0].torn = acc.torn /\ f[0].changed = FALSE /\ by \in [ids -> Int] /\ f[m] = next
  BY <1>2, <1>3 DEF Moves
<1>5. 0 \in 0..m /\ m \in 0..m
  BY <1>3
<1>6. next \in Moves(ids) /\ (acc.torn => next.torn)
  <2>1. f[m] \in Moves(ids)
    BY <1>2, <1>3, <1>5, VisitsAre
  <2>2. f[0].torn => f[m].torn
    BY <1>2, <1>3, <1>5, VisitsGrow
  <2> QED BY <1>4, <2>1, <2>2
<1>7. groups \in Seq(SUBSET ids) /\ Len(groups) \in Nat
  BY DEF Composed
<1>8. \A g \in ToSet(groups) : \E n \in 1..m : g = seq[n]
  <2>1. ASSUME NEW g \in ToSet(groups) PROVE \E n \in 1..m : g = seq[n]
    <3>1. PICK n \in 1..Len(groups) : g = groups[n]
      BY <1>7 DEF ToSet
    <3> QED BY <1>2, <1>3, <1>7, <3>1
  <2> QED BY <2>1
<1>9. ASSUME ~next.torn, ~next.changed, NEW g \in ToSet(groups) PROVE EvenIn(next.by, g)
  <2>1. /\ \A n \in 0..m : f[n].by = by
        /\ \A n \in 1..m : TornIn(by, seq[n]) \/ EvenIn(by, seq[n])
    <3>1. ~f[m].changed /\ Visits(f, ids, seq) /\ m = Len(seq)
      BY <1>2, <1>3, <1>4, <1>9
    <3>2. /\ \A n \in 0..m : f[n].by = f[0].by
          /\ \A n \in 1..m : TornIn(f[0].by, seq[n]) \/ EvenIn(f[0].by, seq[n])
      BY <3>1, VisitsStill
    <3> QED BY <1>4, <3>2
  <2>2. PICK n \in 1..m : g = seq[n]
    BY <1>8
  <2>3. n - 1 \in 0..m
    BY <1>3
  <2>4. ~TornIn(f[n - 1].by, seq[n])
    BY <1>2, <1>3, <1>4, <1>9, VisitsWhole
  <2> QED BY <1>4, <1>5, <2>1, <2>2, <2>3, <2>4
<1>10. ASSUME ~next.torn, NEW v \in Nat
       PROVE  LevelGrows(ids, by, next.by, groups, containers, v)
  <2>1. PICK F : F = Levels(f, m, v)
    OBVIOUS
  <2>2. /\ \A n \in 1..m : F[n] = F[n - 1] \cup (IF seq[n] \cap F[n - 1] = {} THEN {} ELSE seq[n])
        /\ \A n \in 0..m : F[0] \subseteq F[n] /\ F[n] \subseteq F[m] /\ F[n] \subseteq ids
    <3>1. ~f[m].torn /\ Visits(f, ids, seq) /\ m = Len(seq)
      BY <1>2, <1>3, <1>4, <1>10
    <3>2. Widens(Levels(f, m, v), ids, seq, m)
      BY <3>1, VisitsWiden
    <3> QED BY <2>1, <3>2 DEF Widens
  <2>3. F[0] = Level(by, v) /\ F[m] = Level(next.by, v)
    BY <1>4, <1>5, <2>1 DEF Levels
  <2>4. ASSUME F[m] = F[0], NEW g \in ToSet(groups) PROVE g \cap F[0] = {} \/ g \subseteq F[0]
    <3>1. PICK n \in 1..m : g = seq[n]
      BY <1>8
    <3>2. n \in 0..m /\ n - 1 \in 0..m
      BY <1>3
    <3>3. F[n] = F[0] /\ F[n - 1] = F[0]
      BY <2>2, <2>4, <3>2
    <3> QED BY <2>2, <3>1, <3>3
  <2>5. ASSUME containers = <<>>, Closed(by, groups, v) PROVE F[m] = F[0]
    <3>1. PICK S : S = {n \in 0..m : F[n] = F[0]}
      OBVIOUS
    <3>2. 0 \in S
      BY <1>5, <3>1
    <3>3. ASSUME NEW n \in 0..m - 1, n \in S PROVE n + 1 \in S
      <4>1. n + 1 \in 1..m /\ n + 1 \in 0..m /\ (n + 1) - 1 = n
        BY <1>3
      <4>2. seq[n + 1] = groups[n + 1] /\ groups[n + 1] \in ToSet(groups)
        BY <1>2, <1>3, <1>7, <2>5, <4>1 DEF ToSet
      <4>3. seq[n + 1] \cap F[0] = {} \/ seq[n + 1] \subseteq F[0]
        BY <2>3, <2>5, <4>2 DEF Closed
      <4>4. F[n + 1] = F[n] \cup (IF seq[n + 1] \cap F[n] = {} THEN {} ELSE seq[n + 1])
        BY <2>2, <4>1
      <4>5. F[n] = F[0]
        BY <3>1, <3>3
      <4> QED BY <3>1, <4>1, <4>3, <4>4, <4>5
    <3>4. \A n \in 0..m : n \in S
      BY <1>3, <3>2, <3>3, UpTo
    <3> QED BY <1>5, <3>1, <3>4
  <2> QED BY <1>5, <2>2, <2>3, <2>4, <2>5 DEF Closed, LevelGrows
<1>11. ASSUME ~next.torn, containers = <<>>, \A v \in Nat : Closed(by, groups, v) PROVE ~next.changed
  <2>1. ASSUME NEW n \in 1..m PROVE TornIn(by, seq[n]) \/ EvenIn(by, seq[n])
    <3>1. PICK g \in SUBSET ids : g = seq[n] /\ g \in ToSet(groups)
      BY <1>2, <1>3, <1>7, <1>11 DEF ToSet
    <3>2. \A v \in Nat : g \cap Level(by, v) = {} \/ g \subseteq Level(by, v)
      BY <1>11, <3>1 DEF Closed
    <3>3. TornIn(by, g) \/ EvenIn(by, g)
      BY <1>4, <3>2, ClosedIsEven
    <3> QED BY <3>1, <3>3
  <2>2. f[m].changed = f[0].changed
    <3>1. Visits(f, ids, seq) /\ m = Len(seq) /\ f[0].by = by
      BY <1>2, <1>3, <1>4
    <3> QED BY <2>1, <3>1, VisitsIdle
  <2> QED BY <1>4, <2>2
<1> QED BY <1>3, <1>6, <1>9, <1>10, <1>11

\* The moves a proposal ends in are the same within every group if nothing was torn, and either
\* the last pass changed nothing or there are no containers: then the passes are enough, one for
\* each shape by which a level may grow.
LEMMA SpreadIsEven ==
  ASSUME NEW ids, IsFiniteSet(ids), NEW shift \in [ids -> Int],
         NEW groups, NEW containers, Composed(ids, groups, containers),
         NEW s, s = Spread(shift, groups, containers)
  PROVE  /\ s \in Moves(ids)
         /\ ~s.torn /\ (~s.changed \/ containers = <<>>) =>
              \A g \in ToSet(groups) : \A i, j \in g : s.by[i] = s.by[j]
<1>1. PICK k \in Nat : k = Cardinality(ids)
  BY FS_CardinalityType
<1>2. PICK passes, start : passes = [n \in 1..k + 1 |-> n] /\ start = [by |-> shift, torn |-> FALSE, changed |-> TRUE]
  OBVIOUS
<1>3. passes \in Seq(Nat) /\ Len(passes) = k + 1
  BY <1>1, <1>2
<1>4. start \in Moves(ids)
  BY <1>2 DEF Moves
<1>5. s = Repeating!Result(groups, containers, 0, start, passes)
  <2>1. DOMAIN shift = ids
    OBVIOUS
  <2> QED BY <1>1, <1>2, <2>1 DEF Spread, Through, PassStep, Repeating!Result, Repeating!Walk, Repeating!Once
<1>6. PICK f : Repeating!Goes(f, groups, containers, 0, start, passes, Len(passes)) /\ s = f[Len(passes)]
  <2>1. Len(passes) = k + 1 /\ Len(passes) \in Nat
    BY <1>1, <1>3
  <2> QED BY <1>5, <2>1, Repeating!ResultIs
<1>7. f[0] = start /\ s = f[k + 1] /\ \A n \in 1..k + 1 : f[n] = Pass(f[n - 1], groups, containers)
  BY <1>3, <1>6 DEF Repeating!Goes, PassStep
<1>8. \A n \in 0..k + 1 : f[n] \in Moves(ids)
  <2>1. PICK S : S = {n \in 0..k + 1 : f[n] \in Moves(ids)}
    OBVIOUS
  <2>2. 0 \in S /\ k + 1 \in Nat
    BY <1>1, <1>4, <1>7, <2>1
  <2>3. ASSUME NEW n \in 0..(k + 1) - 1, n \in S PROVE n + 1 \in S
    <3>1. n + 1 \in 1..k + 1 /\ n + 1 \in 0..k + 1 /\ (n + 1) - 1 = n
      BY <1>1
    <3>2. f[n + 1] = Pass(f[n], groups, containers) /\ f[n] \in Moves(ids)
      BY <1>7, <2>1, <2>3, <3>1
    <3>3. f[n + 1] \in Moves(ids)
      BY <3>2, PassIs
    <3> QED BY <2>1, <3>1, <3>3
  <2>4. \A n \in 0..k + 1 : n \in S
    BY <2>2, <2>3, UpTo
  <2> QED BY <2>1, <2>4
<1>9. \A n \in 0..k : n \in 0..k + 1 /\ n + 1 \in 1..k + 1 /\ n + 1 \in 0..k + 1 /\ (n + 1) - 1 = n
  BY <1>1
<1>10. \A n \in 0..k : f[n] \in Moves(ids) /\ f[n + 1] = Pass(f[n], groups, containers)
  BY <1>7, <1>8, <1>9
<1>11. k \in 0..k /\ k + 1 \in 0..k + 1
  BY <1>1
<1>12. ASSUME ~s.torn, ~s.changed, NEW g \in ToSet(groups) PROVE EvenIn(s.by, g)
  BY <1>7, <1>10, <1>11, <1>12, PassIs
<1>13. ASSUME ~s.torn, containers = <<>> PROVE ~s.changed
  <2>1. \A n \in 0..k + 1 : ~f[n].torn
    <3>1. PICK T : T = {n \in 0..k + 1 : f[n].torn}
      OBVIOUS
    <3>2. ASSUME NEW n \in 1..k + 1 PROVE n - 1 \in T => n \in T
      <4>1. n \in 0..k + 1 /\ n - 1 \in 0..k + 1 /\ k + 1 \in Nat
        BY <1>1
      <4>2. f[n - 1] \in Moves(ids) /\ f[n] = Pass(f[n - 1], groups, containers)
        BY <1>7, <1>8, <4>1
      <4>3. f[n - 1].torn => f[n].torn
        BY <4>2, PassIs
      <4> QED BY <3>1, <4>1, <4>3
    <3>3. ASSUME NEW n \in 0..k + 1, n \in T PROVE FALSE
      <4>1. k + 1 \in n..k + 1 /\ k + 1 \in Nat
        BY <1>1
      <4>2. k + 1 \in T
        BY <3>2, <3>3, <4>1, Lasts
      <4> QED BY <1>7, <1>13, <3>1, <4>2
    <3> QED BY <3>1, <3>3
  <2>2. ASSUME NEW v \in Nat PROVE Closed(f[k].by, groups, v)
    <3>1. PICK F : F = [n \in 0..k + 1 |-> Level(f[n].by, v)]
      OBVIOUS
    <3>2. ASSUME NEW n \in 0..k
          PROVE  /\ F[n] \subseteq F[n + 1] /\ F[n + 1] \subseteq ids
                 /\ F[n + 1] = F[n] => Closed(f[n].by, groups, v)
                 /\ Closed(f[n].by, groups, v) => F[n + 1] = F[n]
      <4>1. F[n] = Level(f[n].by, v) /\ F[n + 1] = Level(f[n + 1].by, v)
        BY <1>9, <3>1
      <4>2. f[n] \in Moves(ids) /\ f[n + 1] = Pass(f[n], groups, containers) /\ ~f[n + 1].torn
        BY <1>9, <1>10, <2>1
      <4>3. LevelGrows(ids, f[n].by, f[n + 1].by, groups, containers, v)
        BY <4>2, PassIs
      <4> QED BY <1>13, <4>1, <4>3 DEF LevelGrows
    <3>3. ASSUME NEW n \in 0..k - 1, F[n + 1] = F[n] PROVE F[n + 2] = F[n + 1]
      <4>1. n \in 0..k /\ n + 1 \in 0..k /\ (n + 1) + 1 = n + 2 /\ n \in 0..k + 1 /\ n + 1 \in 0..k + 1
        BY <1>1
      <4>2. Closed(f[n].by, groups, v)
        BY <3>2, <3>3, <4>1
      <4>3. Level(f[n + 1].by, v) = Level(f[n].by, v)
        BY <3>1, <3>3, <4>1
      <4>4. Closed(f[n + 1].by, groups, v)
        BY <4>2, <4>3 DEF Closed
      <4> QED BY <3>2, <4>1, <4>4
    <3>4. \A n \in 0..k : F[n] \subseteq ids /\ F[n + 1] \subseteq ids /\ F[n] \subseteq F[n + 1]
      BY <3>2
    <3>5. Growing(F, ids, 0, k)
      BY <3>3, <3>4 DEF Growing
    <3>6. k = 0 + Cardinality(ids) /\ 0 \in Nat
      BY <1>1
    <3>7. F[k + 1] = F[k]
      BY <3>5, <3>6, Settles
    <3> QED BY <1>11, <3>2, <3>7
  <2>3. f[k] \in Moves(ids) /\ f[k + 1] = Pass(f[k], groups, containers) /\ ~f[k + 1].torn
    BY <1>10, <1>11, <2>1
  <2>4. ~f[k + 1].changed
    BY <1>13, <2>2, <2>3, PassIs
  <2> QED BY <1>7, <2>4
<1>14. s \in Moves(ids)
  BY <1>7, <1>8, <1>11
<1> QED BY <1>12, <1>13, <1>14 DEF EvenIn

-----------------------------------------------------------------------------
(* What a move keeps of the composition.                                   *)

\* What is left of the composition that was kept when the shapes were at `made`.
KeepsComposition(at, made, kept, free) ==
  /\ \A i \in (DOMAIN made) \ free : at[i] = made[i]
  /\ \A axis \in Axes : \A ij \in kept.order[axis] : Middle(at[ij[1]], axis) < Middle(at[ij[2]], axis)
  /\ \A pc \in ToSet(kept.containers) : boxContains(made[pc[1]], made[pc[2]]) => boxContains(at[pc[1]], at[pc[2]])
  /\ \A i, j \in DOMAIN made : i # j /\ {i, j} \notin kept.ignored =>
       OverlapArea(at[i], at[j]) <= OverlapArea(made[i], made[j])

\* Every row and column moved as one.
Together(at, made, kept) ==
  \A axis \in Axes : \A g \in ToSet(kept.groups[axis]) : \A i, j \in g :
    at[i][axis] - made[i][axis] = at[j][axis] - made[j][axis]

\* The kept composition is one of these shapes.
Remembers(ids, kept) ==
  \A axis \in Axes : Composed(ids, kept.groups[axis], kept.containers) /\ kept.order[axis] \in SUBSET (ids \X ids)

\* Overlaps and middles are numbers.
LEMMA BoxMeasures ==
  ASSUME NEW a \in ShapeBox, NEW b \in ShapeBox
  PROVE  OverlapArea(a, b) \in Int /\ \A axis \in Axes : Middle(a, axis) \in Int
<1>1. Overlap(a, b, "x") \in Int /\ Overlap(a, b, "y") \in Int
  BY BoxFacts DEF Overlap, Least, Most
<1>2. PICK p, q : p = Most(0, Overlap(a, b, "x")) /\ q = Most(0, Overlap(a, b, "y"))
  OBVIOUS
<1>3. p \in Int /\ q \in Int
  BY <1>1, <1>2 DEF Most
<1>4. OverlapArea(a, b) \in Int
  BY <1>2, <1>3 DEF OverlapArea
<1>5. ASSUME NEW axis \in Axes PROVE Middle(a, axis) \in Int
  <2>1. a[axis] \in Int /\ Extent(a, axis) \in Int
    BY BoxFacts
  <2> QED BY <2>1 DEF Middle
<1> QED BY <1>4, <1>5

\* A move without issues keeps what was left of the composition.
LEMMA SoundMoveKeeps ==
  ASSUME NEW ids, NEW at \in Scene(ids), NEW made \in Scene(ids), NEW candidate \in Scene(ids),
         NEW allowed, NEW free, allowed \subseteq free, NEW kept, Remembers(ids, kept), NEW corridors,
         KeepsComposition(at, made, kept, free),
         MoveIssues(at, candidate, allowed, kept, corridors) = {}
  PROVE  KeepsComposition(candidate, made, kept, free)
<1>1. DOMAIN at = ids /\ DOMAIN made = ids
  BY DEF Scene
<1>2. /\ {i \in ids \ allowed : candidate[i] # at[i]} = {}
      /\ {pc \in ToSet(kept.containers) : ~boxContains(candidate[pc[1]], candidate[pc[2]])} = {}
      /\ {ij \in ids \X ids : \E axis \in Axes :
            ij \in kept.order[axis] /\ Middle(candidate[ij[1]], axis) >= Middle(candidate[ij[2]], axis)} = {}
      /\ {ij \in ids \X ids : /\ ij[1] # ij[2] /\ {ij[1], ij[2]} \notin kept.ignored
                              /\ OverlapArea(candidate[ij[1]], candidate[ij[2]]) > OverlapArea(at[ij[1]], at[ij[2]])} = {}
  <2>1. /\ "frozen" \notin MoveIssues(at, candidate, allowed, kept, corridors)
        /\ "container" \notin MoveIssues(at, candidate, allowed, kept, corridors)
        /\ "order" \notin MoveIssues(at, candidate, allowed, kept, corridors)
        /\ "overlap" \notin MoveIssues(at, candidate, allowed, kept, corridors)
    OBVIOUS
  <2> QED BY <1>1, <2>1 DEF MoveIssues
<1>3. \A i \in ids \ free : candidate[i] = made[i]
  <2>1. \A i \in ids \ free : candidate[i] = at[i] /\ at[i] = made[i]
    BY <1>1, <1>2 DEF KeepsComposition
  <2> QED BY <2>1
<1>4. ASSUME NEW axis \in Axes, NEW ij \in kept.order[axis]
      PROVE  Middle(candidate[ij[1]], axis) < Middle(candidate[ij[2]], axis)
  <2>1. ij \in ids \X ids
    BY DEF Remembers
  <2>2. ~(Middle(candidate[ij[1]], axis) >= Middle(candidate[ij[2]], axis))
    BY <1>2, <2>1
  <2>3. candidate[ij[1]] \in ShapeBox /\ candidate[ij[2]] \in ShapeBox
    BY <2>1 DEF Scene
  <2>4. Middle(candidate[ij[1]], axis) \in Int /\ Middle(candidate[ij[2]], axis) \in Int
    BY <2>3, BoxMeasures
  <2> QED BY <2>2, <2>4
<1>6. ASSUME NEW pc \in ToSet(kept.containers) PROVE boxContains(candidate[pc[1]], candidate[pc[2]])
  BY <1>2
<1>7. ASSUME NEW i \in ids, NEW j \in ids, i # j, {i, j} \notin kept.ignored
      PROVE  OverlapArea(candidate[i], candidate[j]) <= OverlapArea(made[i], made[j])
  <2>1. <<i, j>> \in ids \X ids /\ <<i, j>>[1] = i /\ <<i, j>>[2] = j
    OBVIOUS
  <2>2. ~(OverlapArea(candidate[i], candidate[j]) > OverlapArea(at[i], at[j]))
    BY <1>2, <1>7, <2>1
  <2>3. OverlapArea(at[i], at[j]) <= OverlapArea(made[i], made[j])
    BY <1>1, <1>7 DEF KeepsComposition
  <2>4. /\ OverlapArea(candidate[i], candidate[j]) \in Int /\ OverlapArea(at[i], at[j]) \in Int
        /\ OverlapArea(made[i], made[j]) \in Int
    BY BoxMeasures DEF Scene
  <2> QED BY <2>2, <2>3, <2>4
<1> QED BY <1>1, <1>3, <1>4, <1>6, <1>7 DEF KeepsComposition

\* A move of every group as one keeps together what was.
LEMMA EvenMoveKeeps ==
  ASSUME NEW ids, NEW at \in Scene(ids), NEW made \in Scene(ids), NEW candidate \in Scene(ids),
         NEW kept, Remembers(ids, kept), Together(at, made, kept), Together(candidate, at, kept)
  PROVE  Together(candidate, made, kept)
<1>1. SUFFICES ASSUME NEW axis \in Axes, NEW g \in ToSet(kept.groups[axis]), NEW i \in g, NEW j \in g
               PROVE  candidate[i][axis] - made[i][axis] = candidate[j][axis] - made[j][axis]
  BY DEF Together
<1>2. i \in ids /\ j \in ids
  <2>1. kept.groups[axis] \in Seq(SUBSET ids)
    BY DEF Remembers, Composed
  <2>2. g \in SUBSET ids
    BY <2>1 DEF ToSet
  <2> QED BY <2>2
<1>3. \A box \in ShapeBox : box[axis] \in Int
  BY BoxFacts
<1>4. /\ at[i][axis] \in Int /\ made[i][axis] \in Int /\ candidate[i][axis] \in Int
      /\ at[j][axis] \in Int /\ made[j][axis] \in Int /\ candidate[j][axis] \in Int
  BY <1>2, <1>3 DEF Scene
<1>5. at[i][axis] - made[i][axis] = at[j][axis] - made[j][axis]
  BY DEF Together
<1>6. candidate[i][axis] - at[i][axis] = candidate[j][axis] - at[j][axis]
  BY DEF Together
<1> QED BY <1>4, <1>5, <1>6

\* protectLayoutMoves keeps what was left of the composition, whatever is proposed; and what
\* was together it keeps together if its last pass changed nothing, or could not have.
LEMMA ProtectedKeeps ==
  ASSUME NEW ids, IsFiniteSet(ids), NEW at \in Scene(ids), NEW made \in Scene(ids), NEW proposed \in Scene(ids),
         NEW allowed, NEW free, allowed \subseteq free, NEW kept, Remembers(ids, kept), NEW corridors,
         KeepsComposition(at, made, kept, free),
         NEW guarded, guarded = protectLayoutMoves(at, proposed, allowed, kept, corridors)
  PROVE  /\ guarded.boxes \in Scene(ids) /\ KeepsComposition(guarded.boxes, made, kept, free)
         /\ (kept.containers = <<>> \/ guarded.settled) /\ Together(at, made, kept) =>
              Together(guarded.boxes, made, kept)
<1>1. DOMAIN at = ids
  BY DEF Scene
<1>2. PICK spread : spread = Spreads(at, proposed, kept)
  OBVIOUS
<1>3. ASSUME NEW axis \in Axes
      PROVE  /\ spread[axis] \in Moves(ids)
             /\ ~spread[axis].torn /\ (~spread[axis].changed \/ kept.containers = <<>>) =>
                  \A g \in ToSet(kept.groups[axis]) : \A i, j \in g : spread[axis].by[i] = spread[axis].by[j]
  <2>1. \A box \in ShapeBox : box[axis] \in Int
    BY BoxFacts
  <2>2. [i \in ids |-> proposed[i][axis] - at[i][axis]] \in [ids -> Int]
    BY <2>1 DEF Scene
  <2>3. PICK shift \in [ids -> Int] : shift = [i \in ids |-> proposed[i][axis] - at[i][axis]]
    BY <2>2
  <2>4. spread[axis] = Spread(shift, kept.groups[axis], kept.containers)
    BY <1>1, <1>2, <2>3 DEF Spreads
  <2>5. Composed(ids, kept.groups[axis], kept.containers)
    BY DEF Remembers
  <2>6. PICK s, groups, containers : s = spread[axis] /\ groups = kept.groups[axis] /\ containers = kept.containers
    OBVIOUS
  <2>7. Composed(ids, groups, containers) /\ s = Spread(shift, groups, containers)
    BY <2>4, <2>5, <2>6
  <2>8. /\ s \in Moves(ids)
        /\ ~s.torn /\ (~s.changed \/ containers = <<>>) =>
             \A g \in ToSet(groups) : \A i, j \in g : s.by[i] = s.by[j]
    BY <2>7, SpreadIsEven
  <2> QED BY <2>6, <2>8
<1>4. PICK by : by = [axis \in Axes |-> spread[axis].by]
  OBVIOUS
<1>5. \A axis \in Axes : \A i \in ids : by[axis][i] \in Int
  <2>1. \A axis \in Axes : by[axis] = spread[axis].by /\ spread[axis].by \in [ids -> Int]
    BY <1>3, <1>4 DEF Moves
  <2> QED BY <2>1
<1>6. PICK candidate : candidate = [i \in ids |-> Moved(at[i], by["x"][i], by["y"][i])]
  OBVIOUS
<1>7. "x" \in Axes /\ "y" \in Axes /\ \A axis \in Axes : axis = "x" \/ axis = "y"
  BY DEF Axes
<1>8. /\ candidate \in Scene(ids)
      /\ \A i \in ids, axis \in Axes : candidate[i][axis] - at[i][axis] = by[axis][i]
  <2>1. ASSUME NEW i \in ids
        PROVE  candidate[i] \in ShapeBox /\ \A axis \in Axes : candidate[i][axis] - at[i][axis] = by[axis][i]
    <3>1. PICK dx \in Int, dy \in Int : dx = by["x"][i] /\ dy = by["y"][i]
      BY <1>5, <1>7
    <3>2. at[i] \in ShapeBox /\ at[i].x \in Int /\ at[i].y \in Int
      BY BoxFacts DEF Scene
    <3>3. candidate[i] = Moved(at[i], dx, dy)
      BY <1>6, <3>1
    <3>4. candidate[i] \in ShapeBox /\ candidate[i].x = at[i].x + dx /\ candidate[i].y = at[i].y + dy
      BY <3>2, <3>3, MovedTyped
    <3>5. candidate[i]["x"] - at[i]["x"] = by["x"][i] /\ candidate[i]["y"] - at[i]["y"] = by["y"][i]
      BY <3>1, <3>2, <3>4
    <3> QED BY <1>7, <3>4, <3>5
  <2>2. candidate = [i \in ids |-> candidate[i]]
    BY <1>6
  <2> QED BY <2>1, <2>2 DEF Scene
<1>9. candidate = Followers(at, spread)
  BY <1>1, <1>4, <1>6, <1>7 DEF Followers
<1>10. PICK issues : issues = IF Torn(spread) THEN {"alignment"} ELSE MoveIssues(at, candidate, allowed, kept, corridors)
  OBVIOUS
<1>11. guarded = [boxes |-> IF issues = {} THEN candidate ELSE at, issues |-> issues,
                  settled |-> issues = {} => \A axis \in Axes : ~spread[axis].changed]
  BY <1>2, <1>9, <1>10 DEF protectLayoutMoves
<1>12. /\ guarded.boxes = (IF issues = {} THEN candidate ELSE at)
       /\ guarded.settled = (issues = {} => \A axis \in Axes : ~spread[axis].changed)
  BY <1>11
<1>13. CASE issues = {}
  <2>1. guarded.boxes = candidate
    BY <1>12, <1>13
  <2>2. MoveIssues(at, candidate, allowed, kept, corridors) = {} /\ ~Torn(spread)
    BY <1>10, <1>13
  <2>3. KeepsComposition(candidate, made, kept, free)
    BY <1>8, <2>2, SoundMoveKeeps
  <2>4. ASSUME kept.containers = <<>> \/ guarded.settled, Together(at, made, kept)
        PROVE  Together(candidate, made, kept)
    <3>1. \A axis \in Axes : ~spread[axis].torn /\ (~spread[axis].changed \/ kept.containers = <<>>)
      BY <1>12, <1>13, <2>2, <2>4 DEF Torn
    <3>2. ASSUME NEW axis \in Axes, NEW g \in ToSet(kept.groups[axis]), NEW i \in g, NEW j \in g
          PROVE  candidate[i][axis] - at[i][axis] = candidate[j][axis] - at[j][axis]
      <4>1. kept.groups[axis] \in Seq(SUBSET ids)
        BY DEF Remembers, Composed
      <4>2. i \in ids /\ j \in ids
        BY <4>1 DEF ToSet
      <4>3. by[axis][i] = by[axis][j]
        BY <1>3, <1>4, <3>1
      <4> QED BY <1>8, <4>2, <4>3
    <3>3. Together(candidate, at, kept)
      BY <3>2 DEF Together
    <3> QED BY <1>8, <2>4, <3>3, EvenMoveKeeps
  <2> QED BY <1>8, <2>1, <2>3, <2>4
<1>14. CASE issues # {}
  <2>1. guarded.boxes = at
    BY <1>12, <1>14
  <2> QED BY <2>1
<1> QED BY <1>13, <1>14

-----------------------------------------------------------------------------
(* What is captured, and the corridors of the plan.                        *)

ChainStep(a, b, c, acc, seq) == acc \o seq
Chaining == INSTANCE Stepwise WITH Step <- ChainStep

LEMMA ChainedTyped ==
  ASSUME NEW S, NEW seqs \in Seq(Seq(S))
  PROVE  Chained(seqs) \in Seq(S)
<1>1. Chained(seqs) = Chaining!Result(0, 0, 0, <<>>, seqs)
  BY DEF Chained, Through, ChainStep, Chaining!Result, Chaining!Walk, Chaining!Once
<1>2. PICK Good : Good = Seq(S)
  OBVIOUS
<1>3. \A n \in 1..Len(seqs) : \A acc \in Good : ChainStep(0, 0, 0, acc, seqs[n]) \in Good
  <2>1. ASSUME NEW n \in 1..Len(seqs), NEW acc \in Seq(S) PROVE acc \o seqs[n] \in Seq(S)
    <3>1. seqs[n] \in Seq(S)
      OBVIOUS
    <3> QED BY <3>1
  <2> QED BY <1>2, <2>1 DEF ChainStep
<1>4. Len(seqs) \in Nat /\ <<>> \in Good
  BY <1>2
<1>5. Chaining!Result(0, 0, 0, <<>>, seqs) \in Good
  BY <1>3, <1>4, Chaining!ResultKeeps
<1> QED BY <1>1, <1>2, <1>5

LEMMA PairsTyped ==
  ASSUME NEW S, NEW seq \in Seq(S)
  PROVE  Pairs(seq) \in Seq(S \X S) /\ LaterPairs(seq) \in Seq(S \X S)
<1>1. PICK m \in Nat, pair \in {S \X S} : m = Len(seq)
  OBVIOUS
<1>2. DOMAIN seq = 1..m /\ \A n \in 1..m : seq[n] \in S
  BY <1>1
<1>3. PICK all, later : /\ all = [i \in DOMAIN seq |-> [j \in DOMAIN seq |-> <<seq[i], seq[j]>>]]
                        /\ later = [i \in DOMAIN seq |-> [j \in 1..Len(seq) - i |-> <<seq[i], seq[i + j]>>]]
  OBVIOUS
<1>4. PICK Lists : Lists = Seq(pair)
  OBVIOUS
<1>5. ASSUME NEW i \in 1..m PROVE all[i] \in Lists /\ later[i] \in Lists
  <2>1. PICK row : row = [j \in 1..m |-> <<seq[i], seq[j]>>]
    OBVIOUS
  <2>2. \A j \in 1..m : row[j] \in pair
    BY <1>1, <1>2, <2>1
  <2>3. DOMAIN row = 1..m /\ row = [j \in DOMAIN row |-> row[j]]
    BY <2>1
  <2>4. row \in Seq(pair)
    BY <2>2, <2>3, IsSeq
  <2>5. PICK k \in Nat : k = m - i
    OBVIOUS
  <2>6. PICK rest : rest = [j \in 1..k |-> <<seq[i], seq[i + j]>>]
    OBVIOUS
  <2>7. \A j \in 1..k : i + j \in 1..m
    BY <2>5
  <2>8. \A j \in 1..k : rest[j] \in pair
    BY <1>1, <1>2, <2>6, <2>7
  <2>9. DOMAIN rest = 1..k /\ rest = [j \in DOMAIN rest |-> rest[j]]
    BY <2>6
  <2>10. rest \in Seq(pair)
    BY <2>8, <2>9, IsSeq
  <2>11. all[i] = row /\ later[i] = rest
    BY <1>1, <1>2, <1>3, <2>1, <2>5, <2>6
  <2> QED BY <1>4, <2>4, <2>10, <2>11
<1>6. /\ DOMAIN all = 1..m /\ all = [i \in DOMAIN all |-> all[i]]
      /\ DOMAIN later = 1..m /\ later = [i \in DOMAIN later |-> later[i]]
  BY <1>2, <1>3
<1>7. all \in Seq(Lists) /\ later \in Seq(Lists)
  BY <1>5, <1>6, IsSeq
<1>8. Chained(all) \in Seq(pair) /\ Chained(later) \in Seq(pair)
  BY <1>4, <1>7, ChainedTyped
<1>9. Pairs(seq) = Chained(all) /\ LaterPairs(seq) = Chained(later)
  BY <1>3 DEF Pairs, LaterPairs
<1> QED BY <1>1, <1>8, <1>9

SoundRelations(declared) == declared \in Seq(ToSet(declared)) /\ \A r \in ToSet(declared) : RelationIsSound(r)

\* Containers are pairs of shapes.
LEMMA ContainersTyped ==
  ASSUME NEW ids, NEW at, DOMAIN at = ids, NEW seq \in Seq(ids), NEW declared, SoundRelations(declared)
  PROVE  Containers(seq, at, declared) \in Seq(ids \X ids)
<1>1. PICK pair : pair = ids \X ids
  OBVIOUS
<1>2. PICK pairs \in Seq(pair) : pairs = Pairs(seq)
  BY <1>1, PairsTyped
<1>3. PICK places : places = {n \in DOMAIN pairs : pairs[n][1] # pairs[n][2] /\ contains(at[pairs[n][1]], at[pairs[n][2]])}
  OBVIOUS
<1>4. PICK standing \in Seq(pair) : standing = Picked(pairs, places)
  <2>1. places \in SUBSET DOMAIN pairs
    BY <1>3
  <2> QED BY <2>1, PickedWithin
<1>5. PICK content : content = [n \in DOMAIN declared |->
         IF declared[n].kind = "contain"
           THEN [k \in DOMAIN declared[n].nodes |-> <<declared[n].parent, declared[n].nodes[k]>>] ELSE <<>>]
  OBVIOUS
<1>6. PICK some : some = {declared[n].parent : n \in DOMAIN declared} \X UNION {ToSet(declared[n].nodes) : n \in DOMAIN declared}
  OBVIOUS
<1>7. content \in Seq(Seq(some))
  <2>1. DOMAIN declared = 1..Len(declared) /\ Len(declared) \in Nat
    BY DEF SoundRelations
  <2>2. ASSUME NEW n \in DOMAIN declared PROVE content[n] \in Seq(some)
    <3>1. PICK r : r = declared[n]
      OBVIOUS
    <3>2. r \in ToSet(declared)
      BY <3>1 DEF ToSet
    <3>3. r.nodes \in Seq(ToSet(r.nodes))
      BY <3>2 DEF SoundRelations, RelationIsSound
    <3>4. PICK m \in Nat : m = Len(r.nodes) /\ DOMAIN r.nodes = 1..m
      BY <3>3
    <3>5. PICK mine : mine = [k \in 1..m |-> <<r.parent, r.nodes[k]>>]
      OBVIOUS
    <3>6. ASSUME NEW k \in 1..m PROVE mine[k] \in some
      <4>1. r.nodes[k] \in ToSet(r.nodes)
        BY <3>4 DEF ToSet
      <4>2. r.nodes[k] \in UNION {ToSet(declared[l].nodes) : l \in DOMAIN declared}
        BY <3>1, <4>1
      <4>3. r.parent \in {declared[l].parent : l \in DOMAIN declared}
        BY <3>1
      <4> QED BY <1>6, <3>5, <4>2, <4>3
    <3>7. mine \in Seq(some) /\ <<>> \in Seq(some)
      <4>1. DOMAIN mine = 1..m /\ mine = [k \in DOMAIN mine |-> mine[k]]
        BY <3>5
      <4> QED BY <3>6, <4>1, IsSeq
    <3>8. content[n] = IF r.kind = "contain" THEN mine ELSE <<>>
      BY <1>5, <3>1, <3>4, <3>5
    <3> QED BY <3>7, <3>8
  <2>3. content = [n \in 1..Len(declared) |-> content[n]]
    BY <1>5, <2>1
  <2> QED BY <2>1, <2>2, <2>3
<1>8. PICK asked \in Seq(some) : asked = Chained(content)
  BY <1>7, ChainedTyped
<1>9. PICK among : among = {n \in DOMAIN asked : asked[n][1] # asked[n][2] /\ {asked[n][1], asked[n][2]} \subseteq ids}
  OBVIOUS
<1>10. PICK told \in Seq(pair) : told = Picked(asked, among)
  <2>1. among \in SUBSET DOMAIN asked
    BY <1>9
  <2>2. Picked(asked, among) \in Seq({asked[n] : n \in among})
    BY <2>1, PickedIs
  <2>3. ASSUME NEW n \in among PROVE asked[n] \in pair
    <3>1. asked[n] \in some /\ asked[n][1] \in ids /\ asked[n][2] \in ids
      BY <1>9, <2>1
    <3>2. asked[n] = <<asked[n][1], asked[n][2]>>
      BY <1>6, <3>1
    <3> QED BY <1>1, <3>1, <3>2
  <2>4. {asked[n] : n \in among} \subseteq pair
    BY <2>3
  <2> QED BY <2>2, <2>4
<1>11. PICK both : both = standing \o told
  OBVIOUS
<1>12. both \in Seq(pair)
  BY <1>11
<1>13. PICK first : first = {n \in DOMAIN both : \A m \in 1..n - 1 : both[m] # both[n]}
  OBVIOUS
<1>14. Picked(both, first) \in Seq(pair)
  <2>1. first \in SUBSET DOMAIN both
    BY <1>13
  <2> QED BY <1>12, <2>1, PickedWithin
<1>15. FirstOnes(both) = Picked(both, first)
  BY <1>13 DEF FirstOnes
<1>16. Containers(seq, at, declared) = FirstOnes(both)
  BY <1>2, <1>3, <1>4, <1>5, <1>8, <1>9, <1>10, <1>11 DEF Containers, Only
<1> QED BY <1>1, <1>14, <1>15, <1>16

\* The rows and columns a relation declares are groups of its nodes.
LEMMA GroupsTyped ==
  ASSUME NEW r, RelationIsSound(r), NEW axis
  PROVE  DeclaredGroups(r, axis) \in Seq(SUBSET ToSet(r.nodes))
<1>1. PICK U : U = SUBSET ToSet(r.nodes)
  OBVIOUS
<1>2. <<>> \in Seq(U) /\ <<ToSet(r.nodes)>> \in Seq(U)
  BY <1>1
<1>3. CASE r.kind = "align"
  <2>1. DeclaredGroups(r, axis) = IF r.way = axis THEN <<ToSet(r.nodes)>> ELSE <<>>
    BY <1>3 DEF DeclaredGroups
  <2> QED BY <1>1, <1>2, <2>1
<1>4. CASE r.kind = "grid"
  <2>1. r.nodes \in Seq(ToSet(r.nodes)) /\ r.cols \in Nat
    BY <1>4 DEF RelationIsSound
  <2>2. PICK m \in Nat : m = Most(Len(r.nodes), r.cols)
    BY <2>1 DEF Most
  <2>3. PICK L : L = [k \in 1..m |-> {r.nodes[n] : n \in {l \in DOMAIN r.nodes :
                                        (IF axis = "y" THEN (l - 1) \div r.cols ELSE (l - 1) % r.cols) = k - 1}}]
    OBVIOUS
  <2>4. ASSUME NEW k \in 1..m PROVE L[k] \in U
    <3>1. PICK D : D = {l \in DOMAIN r.nodes : (IF axis = "y" THEN (l - 1) \div r.cols ELSE (l - 1) % r.cols) = k - 1}
      OBVIOUS
    <3>2. L[k] = {r.nodes[n] : n \in D} /\ D \subseteq DOMAIN r.nodes
      BY <2>3, <3>1
    <3> QED BY <1>1, <3>2 DEF ToSet
  <2>5. L \in Seq(U)
    BY <2>3, <2>4
  <2>6. DeclaredGroups(r, axis) = L
    BY <1>4, <2>2, <2>3 DEF DeclaredGroups
  <2> QED BY <1>1, <2>5, <2>6
<1>5. CASE r.kind \notin {"align", "grid"}
  <2>1. DeclaredGroups(r, axis) = <<>>
    BY <1>5 DEF DeclaredGroups
  <2> QED BY <1>1, <1>2, <2>1
<1> QED BY <1>3, <1>4, <1>5

LEMMA AskedTyped ==
  ASSUME NEW declared, SoundRelations(declared), NEW axis
  PROVE  \E U : Chained([n \in DOMAIN declared |-> DeclaredGroups(declared[n], axis)]) \in Seq(U)
<1>1. PICK U : U = SUBSET UNION {ToSet(r.nodes) : r \in ToSet(declared)}
  OBVIOUS
<1>2. PICK lists : lists = [n \in DOMAIN declared |-> DeclaredGroups(declared[n], axis)]
  OBVIOUS
<1>3. DOMAIN declared = 1..Len(declared) /\ Len(declared) \in Nat
  BY DEF SoundRelations
<1>4. ASSUME NEW n \in 1..Len(declared) PROVE lists[n] \in Seq(U)
  <2>1. PICK r \in ToSet(declared) : r = declared[n]
    BY <1>3 DEF ToSet
  <2>2. DeclaredGroups(r, axis) \in Seq(SUBSET ToSet(r.nodes))
    BY GroupsTyped DEF SoundRelations
  <2>3. SUBSET ToSet(r.nodes) \subseteq U
    BY <1>1
  <2>4. DeclaredGroups(r, axis) \in Seq(U)
    BY <2>2, <2>3
  <2> QED BY <1>2, <1>3, <2>1, <2>4
<1>5. lists \in Seq(Seq(U))
  <2>1. lists = [n \in 1..Len(declared) |-> lists[n]]
    BY <1>2, <1>3
  <2> QED BY <1>3, <1>4, <2>1
<1>6. Chained(lists) \in Seq(U)
  BY <1>5, ChainedTyped
<1> QED BY <1>2, <1>6

\* What is captured is the composition of the shapes, which is whole.
LEMMA CaptureIsKept ==
  ASSUME NEW ids, NEW at \in Scene(ids), NEW seq \in Seq(ids), NEW declared, SoundRelations(declared), NEW free, NEW kept,
         kept = captureLayoutPreservation(seq, at, declared)
  PROVE  Remembers(ids, kept) /\ KeepsComposition(at, at, kept, free) /\ Together(at, at, kept)
<1>1. DOMAIN at = ids
  BY DEF Scene
<1>2. PICK containers : containers = Containers(seq, at, declared)
  OBVIOUS
<1>3. containers \in Seq(ids \X ids)
  BY <1>1, <1>2, ContainersTyped
<1>4. kept.containers = containers
  BY <1>1, <1>2 DEF captureLayoutPreservation
<1>5. ASSUME NEW axis \in Axes PROVE kept.groups[axis] \in Seq(SUBSET ids)
  <2>1. PICK asked, U : asked = Chained([n \in DOMAIN declared |-> DeclaredGroups(declared[n], axis)]) /\ asked \in Seq(U)
    BY AskedTyped
  <2>2. PICK live : live = [n \in DOMAIN asked |-> asked[n] \cap ids]
    OBVIOUS
  <2>3. PICK pairs : pairs = LaterPairs(seq)
    OBVIOUS
  <2>4. pairs \in Seq(ids \X ids)
    BY <2>3, PairsTyped
  <2>5. PICK ignored, parents : /\ ignored = {{pc[1], pc[2]} : pc \in ToSet(containers)}
                                /\ parents = [i \in ids |-> Parent(at, containers, i)]
    OBVIOUS
  <2>6. PICK big, aligned :
          /\ big = {n \in DOMAIN live : Cardinality(live[n]) > 1}
          /\ aligned = {n \in DOMAIN pairs :
                 /\ pairs[n][1] # pairs[n][2] /\ {pairs[n][1], pairs[n][2]} \notin ignored
                      /\ parents[pairs[n][1]] = parents[pairs[n][2]]
                 /\ Aligned(at[pairs[n][1]], at[pairs[n][2]], axis)}
    OBVIOUS
  <2>7. PICK lines, lists : lines = Picked(pairs, aligned) /\ lists = Picked(live, big)
    OBVIOUS
  <2>8. lists \in Seq(SUBSET ids)
    <3>1. PICK m \in Nat, sets \in {SUBSET ids} : m = Len(asked)
      BY <2>1
    <3>2. DOMAIN live = 1..m /\ live = [n \in DOMAIN live |-> live[n]] /\ \A n \in 1..m : live[n] \in sets
      <4>1. asked \in Seq(U)
        BY <2>1
      <4>2. DOMAIN asked = 1..m
        BY <3>1, <4>1
      <4>3. \A n \in DOMAIN asked : live[n] \in SUBSET ids
        BY <2>2
      <4>4. DOMAIN live = DOMAIN asked /\ live = [n \in DOMAIN live |-> live[n]]
        BY <2>2
      <4> QED BY <3>1, <4>2, <4>3, <4>4
    <3>3. live \in Seq(sets) /\ big \in SUBSET DOMAIN live
      BY <2>6, <3>2, IsSeq
    <3>4. lists \in Seq(sets)
      BY <2>7, <3>3, PickedWithin
    <3> QED BY <3>1, <3>4
  <2>9. Couples(lines) \in Seq(SUBSET ids)
    <3>1. PICK pair : pair = ids \X ids
      OBVIOUS
    <3>2. pairs \in Seq(pair) /\ aligned \in SUBSET DOMAIN pairs
      BY <2>4, <2>6, <3>1
    <3>3. lines \in Seq(pair)
      BY <2>7, <3>2, PickedWithin
    <3> QED BY <3>1, <3>3, CouplesTyped
  <2>10. kept.groups[axis] = lists \o Couples(lines)
    BY <1>1, <1>2, <2>1, <2>2, <2>3, <2>5, <2>6, <2>7 DEF captureLayoutPreservation, Only
  <2> QED BY <2>8, <2>9, <2>10
<1>6. ASSUME NEW axis \in Axes
      PROVE  /\ kept.order[axis] \in SUBSET (ids \X ids)
             /\ \A ij \in kept.order[axis] : at[ij[1]][axis] + Extent(at[ij[1]], axis) <= at[ij[2]][axis]
  <2>1. \A ij \in kept.order[axis] : /\ ij \in ids \X ids
                                     /\ at[ij[1]][axis] + Extent(at[ij[1]], axis) <= at[ij[2]][axis]
    BY <1>1 DEF captureLayoutPreservation
  <2> QED BY <2>1
<1>7. Remembers(ids, kept)
  BY <1>3, <1>4, <1>5, <1>6 DEF Remembers, Composed
<1>8. ASSUME NEW axis \in Axes, NEW ij \in kept.order[axis] PROVE Middle(at[ij[1]], axis) < Middle(at[ij[2]], axis)
  <2>1. ij[1] \in ids /\ ij[2] \in ids
    BY <1>6
  <2>2. at[ij[1]] \in ShapeBox /\ at[ij[2]] \in ShapeBox
    BY <2>1 DEF Scene
  <2>3. PICK a \in Int, b \in Int, v \in Int, w \in Int :
           a = at[ij[1]][axis] /\ v = Extent(at[ij[1]], axis) /\ b = at[ij[2]][axis] /\ w = Extent(at[ij[2]], axis)
    BY <2>2, BoxFacts
  <2>4. v > 0 /\ w > 0 /\ a + v <= b
    BY <1>6, <2>2, <2>3, BoxFacts
  <2>5. 2 * a + v < 2 * b + w
    BY <2>4
  <2> QED BY <2>3, <2>5 DEF Middle
<1>9. Together(at, at, kept)
  <2>1. ASSUME NEW axis \in Axes, NEW g \in ToSet(kept.groups[axis]), NEW i \in g, NEW j \in g
        PROVE  at[i][axis] - at[i][axis] = at[j][axis] - at[j][axis]
    <3>1. i \in ids /\ j \in ids
      BY <1>5 DEF ToSet
    <3>2. at[i][axis] \in Int /\ at[j][axis] \in Int
      BY <3>1, BoxFacts DEF Scene
    <3> QED BY <3>2
  <2> QED BY <2>1 DEF Together
<1>10. ASSUME NEW i \in ids, NEW j \in ids PROVE OverlapArea(at[i], at[j]) <= OverlapArea(at[i], at[j])
  <2>1. OverlapArea(at[i], at[j]) \in Int
    BY BoxMeasures DEF Scene
  <2> QED BY <2>1
<1> QED BY <1>1, <1>7, <1>8, <1>9, <1>10 DEF KeepsComposition

\* An edge between shapes, with a measured label.
Joins(e, ids) == e.from \in ids /\ e.to \in ids /\ e.label.w \in Int /\ e.label.h \in Int

\* The corridors that declared flows ask for lie between shapes and have a width.
LEMMA CrowdingTyped ==
  ASSUME NEW at, NEW S, NEW edges \in Seq(S), NEW e
  PROVE  Crowding(at, edges, e) \in Int
<1>1. ASSUME NEW id, NEW side PROVE LaneCount(at, edges, id, side) \in Nat
  <2>1. IsFiniteSet(DOMAIN edges)
    <3>1. DOMAIN edges = 1..Len(edges) /\ Len(edges) \in Nat
      OBVIOUS
    <3> QED BY <3>1, FS_Interval
  <2>2. \A T \in SUBSET DOMAIN edges : Cardinality(T) \in Nat
    BY <2>1, FS_Subset, FS_CardinalityType
  <2>3. PICK outgoing, incoming :
          /\ outgoing = {f \in DOMAIN edges : edges[f].from = id /\ facingSide(at[id], at[edges[f].to]) = side}
          /\ incoming = {f \in DOMAIN edges : edges[f].to = id /\ facingSide(at[id], at[edges[f].from]) = side}
    OBVIOUS
  <2>4. Cardinality(outgoing) \in Nat /\ Cardinality(incoming) \in Nat
    BY <2>2, <2>3
  <2>5. LaneCount(at, edges, id, side) = Cardinality(outgoing) + Cardinality(incoming)
    BY <2>3 DEF LaneCount
  <2> QED BY <2>4, <2>5
<1> QED BY <1>1 DEF Crowding, Most

LEMMA CorridorTyped ==
  ASSUME NEW ids, NEW at, NEW S, NEW edges \in Seq(S), NEW declared, NEW e, Joins(e, ids)
  PROVE  FlowCorridor(at, edges, declared, e) \in Corridor(ids)
<1>1. PICK r : r = Last(FlowsAlong(declared, e.from, e.to))
  OBVIOUS
<1>2. PICK axis : axis = FlowAxis(at, r, e.from, e.to)
  OBVIOUS
<1>3. axis \in Axes
  <2>1. PICK wide, high : wide = Distance(at[e.from]["x"], at[e.to]["x"]) /\ high = Distance(at[e.from]["y"], at[e.to]["y"])
    OBVIOUS
  <2>2. axis = CASE r.way = "down" -> "y" [] r.way = "right" -> "x"
                 [] OTHER -> IF high >= wide THEN "y" ELSE "x"
    BY <1>2, <2>1 DEF FlowAxis
  <2> QED BY <2>2 DEF Axes
<1>4. PICK labelled : labelled = IF e.label = NoLabel THEN 0 ELSE 24 + Extent(e.label, axis)
  OBVIOUS
<1>5. labelled \in Int
  <2>1. Extent(e.label, axis) \in Int
    BY DEF Joins, Extent
  <2> QED BY <1>4, <2>1
<1>6. PICK gap : gap = Most(Least(MAX_CONNECTOR_GAP, MIN_CONNECTOR_GAP + (Crowding(at, edges, e) - 1) * EXTRA_LANE_GAP), labelled)
  OBVIOUS
<1>7. gap \in Int
  BY <1>5, <1>6, CrowdingTyped DEF Most, Least, MAX_CONNECTOR_GAP, MIN_CONNECTOR_GAP, EXTRA_LANE_GAP
<1>8. FlowCorridor(at, edges, declared, e) = [from |-> e.from, to |-> e.to, axis |-> axis, gap |-> gap]
  BY <1>1, <1>2, <1>4, <1>6 DEF FlowCorridor
<1> QED BY <1>3, <1>7, <1>8 DEF Joins, Corridor

LEMMA CorridorsTyped ==
  ASSUME NEW ids, NEW at, NEW S, NEW edges \in Seq(S), \A e \in S : Joins(e, ids), NEW declared
  PROVE  Corridors(at, edges, declared) \in Seq(Corridor(ids))
<1>1. PICK places : places = {n \in DOMAIN edges : FlowsAlong(declared, edges[n].from, edges[n].to) # <<>>}
  OBVIOUS
<1>2. PICK follows : follows = Picked(edges, places)
  OBVIOUS
<1>3. follows \in Seq(S)
  <2>1. places \in SUBSET DOMAIN edges
    BY <1>1
  <2> QED BY <1>2, <2>1, PickedWithin
<1>4. Corridors(at, edges, declared) = [i \in DOMAIN follows |-> FlowCorridor(at, edges, declared, follows[i])]
  BY <1>1, <1>2 DEF Corridors, Only
<1>5. \A i \in DOMAIN follows : FlowCorridor(at, edges, declared, follows[i]) \in Corridor(ids)
  <2> SUFFICES ASSUME NEW i \in DOMAIN follows
               PROVE  FlowCorridor(at, edges, declared, follows[i]) \in Corridor(ids)
    OBVIOUS
  <2>1. PICK e : e = follows[i]
    OBVIOUS
  <2>2. Joins(e, ids)
    BY <1>3, <2>1
  <2>3. FlowCorridor(at, edges, declared, e) \in Corridor(ids)
    BY <2>2, CorridorTyped
  <2> QED BY <2>1, <2>3
<1>6. DOMAIN follows = 1..Len(follows) /\ Len(follows) \in Nat
  BY <1>3
<1> QED BY <1>4, <1>5, <1>6


-----------------------------------------------------------------------------
(* autoLayout has a place for every id.                                    *)

Spot == [x: Int, y: Int]
Sized(size, ids) == \A i \in ids : size[i].w \in Int /\ size[i].h \in Int

\* A place, and the sizes of a layer and of the layers above it.
LEMMA PlaceTyped == ASSUME NEW x \in Int, NEW y \in Int
                    PROVE  Place(x, y) \in Spot /\ Place(x, y).x = x /\ Place(x, y).y = y
  BY DEF Place, Spot

WideStep(a, b, c, acc, x) == Widening(acc, x, a, b)
Widen == INSTANCE Stepwise WITH Step <- WideStep

LEMMA WideTyped ==
  ASSUME NEW I, NEW ids \in Seq(I), NEW size, Sized(size, I), NEW S
  PROVE  Wide(ids, size, S) \in Int
<1>1. Wide(ids, size, S) = Widen!Result(S, size, 0, 0, ids)
  BY DEF Wide, Through, WideStep, Widen!Result, Widen!Walk, Widen!Once
<1>2. \A n \in 1..Len(ids) : \A acc \in Int : WideStep(S, size, 0, acc, ids[n]) \in Int
  <2> SUFFICES ASSUME NEW n \in 1..Len(ids), NEW acc \in Int PROVE WideStep(S, size, 0, acc, ids[n]) \in Int
    OBVIOUS
  <2>1. ids[n] \in I
    OBVIOUS
  <2>2. size[ids[n]].w \in Int
    BY <2>1 DEF Sized
  <2> QED BY <2>2 DEF WideStep, Widening, COL_GAP
<1>3. Widen!Result(S, size, 0, 0, ids) \in Int
  <2>1. Len(ids) \in Nat /\ 0 \in Int
    OBVIOUS
  <2> QED BY <1>2, <2>1, Widen!ResultKeeps
<1> QED BY <1>1, <1>3

LowerStep(a, b, c, acc, x) == Lowering(acc, x, a, b, c)
Down == INSTANCE Stepwise WITH Step <- LowerStep

LEMMA AboveTyped ==
  ASSUME NEW ids, IsFiniteSet(ToSet(ids)), NEW size, Sized(size, ToSet(ids)), NEW depth, NEW n \in Nat
  PROVE  Above(ids, size, depth, n) \in Int
<1>1. PICK layers : layers = [m \in 1..n |-> m]
  OBVIOUS
<1>2. layers \in Seq(Nat) /\ Len(layers) \in Nat
  BY <1>1
<1>3. Above(ids, size, depth, n) = Down!Result(ids, size, depth, 0, layers)
  BY <1>1 DEF Above, Through, LowerStep, Down!Result, Down!Walk, Down!Once
<1>4. ASSUME NEW m, NEW acc \in Int PROVE LowerStep(ids, size, depth, acc, m) \in Int
  <2>1. PICK part : part = Layer(ids, depth, m - 1)
    OBVIOUS
  <2>2. part \subseteq ToSet(ids) /\ IsFiniteSet(part)
    <3>1. part \subseteq ToSet(ids)
      BY <2>1 DEF Layer
    <3> QED BY <3>1, FS_Subset
  <2>3. PICK heights : heights = {size[i].h : i \in part}
    OBVIOUS
  <2>4. [i \in part |-> size[i].h] \in Surjection(part, heights)
    BY <2>3 DEF Surjection
  <2>5. IsFiniteSet({0} \cup heights)
    BY <2>2, <2>4, FS_Surjection, FS_Singleton, FS_Union
  <2>6. {0} \cup heights \in SUBSET Int
    BY <2>2, <2>3 DEF Sized
  <2>7. Max({0} \cup heights) \in Int
    BY <2>5, <2>6, MaxIs
  <2>8. LowerStep(ids, size, depth, acc, m) = acc + Max({0} \cup heights) + ROW_GAP
    BY <2>1, <2>3 DEF LowerStep, Lowering
  <2> QED BY <2>7, <2>8 DEF ROW_GAP
<1>5. Down!Result(ids, size, depth, 0, layers) \in Int
  BY <1>2, <1>4, Down!ResultKeeps
<1> QED BY <1>3, <1>5

DeepenStep(a, b, c, acc, x) == Deeper(acc, x, a)
Deepening == INSTANCE Stepwise WITH Step <- DeepenStep
LayerStep(a, b, c, acc, x) == Deepened(acc, a, b)
Layering == INSTANCE Stepwise WITH Step <- LayerStep

\* A component laid out in layers has a place for each of its nodes.
LEMMA LayersTyped ==
  ASSUME NEW I, NEW ids \in Seq(I), NEW S, S = ToSet(ids), NEW links \in Seq(S \X S)
  PROVE  Layers(ids, links) \in [S -> Nat]
<1>1. ASSUME NEW depth \in [S -> Nat], NEW e \in S \X S, NEW back PROVE Deeper(depth, e, back) \in [S -> Nat]
  <2>1. PICK deep : deep = Most(depth[e[2]], depth[e[1]] + 1)
    OBVIOUS
  <2>2. deep \in Nat
    BY <2>1 DEF Most
  <2>3. [depth EXCEPT ![e[2]] = deep] \in [S -> Nat]
    BY <2>2
  <2>4. Deeper(depth, e, back) = IF e[1] = e[2] \/ e \in back THEN depth ELSE [depth EXCEPT ![e[2]] = deep]
    BY <2>1 DEF Deeper
  <2> QED BY <2>3, <2>4
<1>2. ASSUME NEW depth \in [S -> Nat], NEW back PROVE Deepened(depth, links, back) \in [S -> Nat]
  <2>1. Deepened(depth, links, back) = Deepening!Result(back, 0, 0, depth, links)
    BY DEF Deepened, Through, DeepenStep, Deepening!Result, Deepening!Walk, Deepening!Once
  <2>2. \A n \in 1..Len(links) : \A acc \in [S -> Nat] : DeepenStep(back, 0, 0, acc, links[n]) \in [S -> Nat]
    <3> SUFFICES ASSUME NEW n \in 1..Len(links), NEW acc \in [S -> Nat]
                 PROVE  DeepenStep(back, 0, 0, acc, links[n]) \in [S -> Nat]
      OBVIOUS
    <3>1. links[n] \in S \X S
      OBVIOUS
    <3> QED BY <1>1, <3>1 DEF DeepenStep
  <2>3. Deepening!Result(back, 0, 0, depth, links) \in [S -> Nat]
    <3>1. Len(links) \in Nat
      OBVIOUS
    <3> QED BY <2>2, <3>1, Deepening!ResultKeeps
  <2> QED BY <2>1, <2>3
<1>3. PICK back, start : back = BackLinks(ids, links) /\ start = [i \in S |-> 0]
  OBVIOUS
<1>4. Layers(ids, links) = Layering!Result(links, back, 0, start, ids)
  BY <1>3 DEF Layers, Through, LayerStep, Layering!Result, Layering!Walk, Layering!Once
<1>5. start \in [S -> Nat]
  BY <1>3
<1>6. \A n \in 1..Len(ids) : \A acc \in [S -> Nat] : LayerStep(links, back, 0, acc, ids[n]) \in [S -> Nat]
  BY <1>2 DEF LayerStep
<1>7. Layering!Result(links, back, 0, start, ids) \in [S -> Nat]
  <2>1. Len(ids) \in Nat
    OBVIOUS
  <2> QED BY <1>5, <1>6, <2>1, Layering!ResultKeeps
<1> QED BY <1>4, <1>7

\* Every node of a component has its place from layoutOne.
LEMMA LayersPlaced ==
  ASSUME NEW I, NEW ids \in Seq(I), NEW S, S = ToSet(ids), IsFiniteSet(S), S # {}, NEW size, Sized(size, S),
         NEW depth \in [S -> Nat], NEW x \in Int, NEW y \in Int
  PROVE  LayoutLayers(ids, size, depth, x, y) \in [w: Int, at: [S -> Spot]]
<1>1. ids \in Seq(S)
  BY DEF ToSet
<1>2. \A T : Wide(ids, size, T) \in Int
  BY <1>1, WideTyped
<1>3. PICK width, left, top :
        /\ width = [i \in S |-> LayerWidth(ids, size, depth, i)]
        /\ left = [i \in S |-> Wide(ids, size, Earlier(ids, depth, i))]
        /\ top = [i \in S |-> Above(ids, size, depth, depth[i])]
  OBVIOUS
<1>4. \A i \in S : width[i] \in Int /\ left[i] \in Int
  BY <1>2, <1>3 DEF LayerWidth, COL_GAP
<1>5. \A i \in S : top[i] \in Int
  <2> SUFFICES ASSUME NEW i \in S PROVE top[i] \in Int
    OBVIOUS
  <2>1. depth[i] \in Nat
    OBVIOUS
  <2>2. Above(ids, size, depth, depth[i]) \in Int
    BY <2>1, AboveTyped
  <2> QED BY <1>3, <2>2
<1>6. PICK widest : widest = Max({width[i] : i \in S})
  OBVIOUS
<1>7. widest \in Int
  <2>1. PICK widths : widths = {width[i] : i \in S}
    OBVIOUS
  <2>2. width \in Surjection(S, widths)
    BY <1>3, <2>1 DEF Surjection
  <2>3. IsFiniteSet(widths) /\ widths \in SUBSET Int /\ widths # {}
    BY <1>4, <2>1, <2>2, FS_Surjection
  <2> QED BY <1>6, <2>1, <2>3, MaxIs
<1>8. PICK at : at = [i \in S |-> Place(x + Half(widest - width[i]) + left[i], y + top[i])]
  OBVIOUS
<1>9. at \in [S -> Spot]
  <2>1. \A i \in S : x + Half(widest - width[i]) + left[i] \in Int /\ y + top[i] \in Int
    <3>1. \A n \in Int : Half(n) \in Int
      BY DEF Half
    <3>2. \A i \in S : widest - width[i] \in Int
      BY <1>4, <1>7
    <3>3. \A i \in S : Half(widest - width[i]) \in Int
      BY <3>1, <3>2
    <3> QED BY <1>4, <1>5, <3>3
  <2>2. \A i \in S : at[i] \in Spot
    BY <1>8, <2>1, PlaceTyped
  <2> QED BY <1>8, <2>2
<1>10. {LayerWidth(ids, size, depth, i) : i \in ToSet(ids)} = {width[i] : i \in S}
  BY <1>3
<1>11. LayoutLayers(ids, size, depth, x, y) = [w |-> widest, at |-> at]
  <2>1. at = [i \in ToSet(ids) |->
                Place(x + Half(widest - LayerWidth(ids, size, depth, i)) + Wide(ids, size, Earlier(ids, depth, i)),
                      y + Above(ids, size, depth, depth[i]))]
    BY <1>3, <1>8
  <2>2. widest = Max({LayerWidth(ids, size, depth, i) : i \in ToSet(ids)})
    BY <1>6, <1>10
  <2> QED BY <2>1, <2>2 DEF LayoutLayers
<1> QED BY <1>7, <1>9, <1>11

\* Closed sets and the components they make.
Shut(part, S, links) == \A e \in ToSet(links) : {e[1], e[2]} \cap part # {} => {e[1], e[2]} \cap S \subseteq part

\* A component is closed under links, and it is the component of each of its nodes.
LEMMA ComponentIs ==
  ASSUME NEW ids, NEW links, NEW one \in ToSet(ids), NEW i
  PROVE  /\ i \in Component(ids, links, one) <=>
              i \in ToSet(ids) /\ \A part \in SUBSET ToSet(ids) : one \in part /\ Shut(part, ToSet(ids), links) => i \in part
         /\ one \in Component(ids, links, one) /\ Component(ids, links, one) \subseteq ToSet(ids)
<1>1. PICK closed : closed = {part \in SUBSET ToSet(ids) : one \in part /\ \A e \in ToSet(links) :
                   {e[1], e[2]} \cap part # {} => {e[1], e[2]} \cap ToSet(ids) \subseteq part}
  OBVIOUS
<1>2. Component(ids, links, one) = {j \in ToSet(ids) : \A part \in closed : j \in part}
  BY <1>1 DEF Component
<1>3. closed = {part \in SUBSET ToSet(ids) : one \in part /\ Shut(part, ToSet(ids), links)}
  BY <1>1 DEF Shut
<1> QED BY <1>2, <1>3

\* Who is in a component has that component.
LEMMA ComponentsAgree ==
  ASSUME NEW ids, NEW links, NEW a \in ToSet(ids), NEW b \in Component(ids, links, a), NEW i \in Component(ids, links, a)
  PROVE  i \in Component(ids, links, b)
<1>1. PICK S : S = ToSet(ids)
  OBVIOUS
<1>2. b \in S /\ i \in S /\ a \in S
  BY <1>1, ComponentIs
<1>3. SUFFICES ASSUME NEW part \in SUBSET S, b \in part, Shut(part, S, links) PROVE i \in part
  BY <1>1, <1>2, ComponentIs
<1>4. a \in part
  <2> SUFFICES ASSUME a \notin part PROVE FALSE
    OBVIOUS
  <2>1. PICK rest : rest = S \ part
    OBVIOUS
  <2>2. Shut(rest, S, links)
    <3> SUFFICES ASSUME NEW e \in ToSet(links), {e[1], e[2]} \cap rest # {}, NEW j \in {e[1], e[2]}, j \in S
                 PROVE  j \in rest
      BY DEF Shut
    <3>1. j \notin part
      <4> SUFFICES ASSUME j \in part PROVE FALSE
        OBVIOUS
      <4>1. {e[1], e[2]} \cap S \subseteq part
        BY <1>3 DEF Shut
      <4> QED BY <2>1, <4>1
    <3> QED BY <2>1, <3>1
  <2>3. rest \in SUBSET S /\ a \in rest
    BY <1>2, <2>1
  <2>4. b \in rest
    BY <1>1, <2>2, <2>3, ComponentIs
  <2> QED BY <1>3, <2>1, <2>4
<1> QED BY <1>1, <1>3, <1>4, ComponentIs

\* autoLayout places every component, and so every node.
LEMMA OnePlaced ==
  ASSUME NEW S, NEW ids \in Seq(S), S = ToSet(ids), IsFiniteSet(S), NEW links \in Seq(S \X S),
         NEW part \in SUBSET S, part # {}, NEW size, Sized(size, S), NEW x \in Int, NEW y \in Int
  PROVE  LayoutOne(part, ids, links, size, x, y) \in [w: Int, at: [part -> Spot]]
<1>1. PICK places, among : /\ places = {n \in DOMAIN ids : ids[n] \in part}
                           /\ among = {n \in DOMAIN links : links[n][1] \in part /\ links[n][2] \in part}
  OBVIOUS
<1>2. PICK nodes, within : nodes = Picked(ids, places) /\ within = Picked(links, among)
  OBVIOUS
<1>3. nodes \in Seq(part) /\ ToSet(nodes) = part
  <2>1. places \in SUBSET DOMAIN ids
    BY <1>1
  <2>2. /\ nodes \in Seq({ids[n] : n \in places})
        /\ \A n \in places : \E k \in DOMAIN nodes : nodes[k] = ids[n]
        /\ \A k \in DOMAIN nodes : \E n \in places : nodes[k] = ids[n]
    BY <1>2, <2>1, PickedIs
  <2>3. {ids[n] : n \in places} = part
    BY <1>1 DEF ToSet
  <2>4. nodes \in Seq(part)
    BY <2>2, <2>3
  <2>5. ASSUME NEW i \in part PROVE \E k \in DOMAIN nodes : nodes[k] = i
    <3>1. PICK n \in places : ids[n] = i
      BY <2>3
    <3>2. PICK k \in DOMAIN nodes : nodes[k] = ids[n]
      BY <2>2
    <3> QED BY <3>1, <3>2
  <2>6. \A k \in DOMAIN nodes : nodes[k] \in part
    BY <2>4
  <2> QED BY <2>4, <2>5, <2>6 DEF ToSet
<1>4. within \in Seq(part \X part)
  <2>1. among \in SUBSET DOMAIN links
    BY <1>1
  <2>2. within \in Seq({links[n] : n \in among})
    BY <1>2, <2>1, PickedIs
  <2>3. \A n \in among : links[n] \in part \X part
    <3> SUFFICES ASSUME NEW n \in among PROVE links[n] \in part \X part
      OBVIOUS
    <3>1. links[n] \in S \X S
      BY <2>1
    <3>2. links[n][1] \in part /\ links[n][2] \in part
      BY <1>1
    <3> QED BY <3>1, <3>2
  <2>4. {links[n] : n \in among} \subseteq part \X part
    BY <2>3
  <2> QED BY <2>2, <2>4
<1>5. PICK depth : depth = Layers(nodes, within)
  OBVIOUS
<1>6. depth \in [part -> Nat]
  BY <1>3, <1>4, <1>5, LayersTyped
<1>7. Sized(size, part) /\ IsFiniteSet(part)
  BY FS_Subset DEF Sized
<1>8. LayoutLayers(nodes, size, depth, x, y) \in [w: Int, at: [part -> Spot]]
  BY <1>3, <1>6, <1>7, LayersPlaced
<1>9. LayoutOne(part, ids, links, size, x, y) = LayoutLayers(nodes, size, depth, x, y)
  BY <1>1, <1>2, <1>5 DEF LayoutOne, Only
<1> QED BY <1>8, <1>9

\* Every id is in the component of a first one.
LEMMA FirstsCover ==
  ASSUME NEW S, NEW ids \in Seq(S), NEW links, NEW i \in ToSet(ids)
  PROVE  /\ Firsts(ids, links) \in Seq(DOMAIN ids)
         /\ \E k \in DOMAIN Firsts(ids, links) : i \in Component(ids, links, ids[Firsts(ids, links)[k]])
<1>1. PICK all : all = [n \in DOMAIN ids |-> n]
  OBVIOUS
<1>2. PICK places : places = {n \in DOMAIN all : \A m \in 1..all[n] - 1 : ids[m] \notin Component(ids, links, ids[all[n]])}
  OBVIOUS
<1>3. DOMAIN ids = 1..Len(ids) /\ Len(ids) \in Nat
  OBVIOUS
<1>4. DOMAIN all = DOMAIN ids /\ all \in Seq(DOMAIN ids) /\ \A n \in DOMAIN ids : all[n] = n
  BY <1>1, <1>3
<1>5. PICK firsts : firsts = Firsts(ids, links)
  OBVIOUS
<1>6. firsts = Picked(all, places)
  BY <1>1, <1>2, <1>5 DEF Firsts, Only
<1>7. places \in SUBSET DOMAIN all
  BY <1>2
<1>8. firsts \in Seq({all[n] : n \in places}) /\ \A n \in places : \E k \in DOMAIN firsts : firsts[k] = all[n]
  BY <1>4, <1>6, <1>7, PickedIs
<1>9. firsts \in Seq(DOMAIN ids)
  <2>1. {all[n] : n \in places} \subseteq DOMAIN ids
    BY <1>4, <1>7
  <2> QED BY <1>8, <2>1
<1>10. PICK near : near = {m \in DOMAIN ids : i \in Component(ids, links, ids[m])}
  OBVIOUS
<1>11. near # {} /\ near \in SUBSET Nat
  <2>1. PICK m \in DOMAIN ids : ids[m] = i
    BY DEF ToSet
  <2>2. i \in Component(ids, links, i)
    BY ComponentIs
  <2> QED BY <1>3, <1>10, <2>1, <2>2
<1>12. PICK m \in near : \A n \in near : m <= n
  BY <1>11, LeastOf
<1>13. m \in DOMAIN ids /\ m \in Nat /\ i \in Component(ids, links, ids[m]) /\ ids[m] \in ToSet(ids)
  BY <1>10, <1>11, <1>12 DEF ToSet
<1>14. ASSUME NEW n \in 1..m - 1 PROVE ids[n] \notin Component(ids, links, ids[m])
  <2>1. n \in DOMAIN ids /\ n < m /\ n \in Nat
    BY <1>3, <1>13
  <2>2. n \notin near
    BY <1>12, <1>13, <2>1
  <2>3. i \notin Component(ids, links, ids[n])
    BY <1>10, <2>1, <2>2
  <2> QED BY <1>13, <2>3, ComponentsAgree
<1>15. m \in places /\ all[m] = m
  BY <1>2, <1>4, <1>13, <1>14
<1>16. PICK k \in DOMAIN firsts : firsts[k] = m
  BY <1>8, <1>15
<1> QED BY <1>5, <1>9, <1>13, <1>16

BesideStep(a, b, c, acc, x) == Beside(acc, x, a, b, c)
Besides == INSTANCE Stepwise WITH Step <- BesideStep

LEMMA AutoLayoutTyped ==
  ASSUME NEW S, NEW ids \in Seq(S), S = ToSet(ids), IsFiniteSet(S), NEW links \in Seq(S \X S),
         NEW size, Sized(size, S), NEW x \in Int, NEW y \in Int
  PROVE  \A i \in S : AutoLayout(ids, links, size, x, y)[i] \in Spot
<1>1. PICK firsts, start : firsts = Firsts(ids, links) /\ start = [x |-> x, y |-> y, at |-> <<>>]
  OBVIOUS
<1>2. SUFFICES ASSUME NEW i \in S PROVE AutoLayout(ids, links, size, x, y)[i] \in Spot
  OBVIOUS
<1>3. firsts \in Seq(DOMAIN ids) /\ Len(firsts) \in Nat /\ DOMAIN firsts = 1..Len(firsts)
  <2>1. firsts \in Seq(DOMAIN ids)
    BY <1>1, <1>2, FirstsCover
  <2> QED BY <2>1
<1>4. AutoLayout(ids, links, size, x, y) = Besides!Result(ids, links, size, start, firsts).at
  BY <1>1 DEF AutoLayout, Through, BesideStep, Besides!Result, Besides!Walk, Besides!Once
<1>5. PICK f : /\ Besides!Goes(f, ids, links, size, start, firsts, Len(firsts))
               /\ Besides!Result(ids, links, size, start, firsts) = f[Len(firsts)]
  BY <1>3, Besides!ResultIs
<1>6. PICK part : part = [n \in DOMAIN firsts |-> Component(ids, links, ids[firsts[n]])]
  OBVIOUS
<1>7. PICK Partly : Partly = UNION {[T -> Spot] : T \in SUBSET S}
  OBVIOUS
<1>8. PICK good : good = {n \in 0..Len(firsts) : /\ f[n] \in [x: Int, y: Int, at: Partly]
                                                 /\ \A m \in 1..n : part[m] \subseteq DOMAIN f[n].at}
  OBVIOUS
<1>9. 0 \in good
  <2>1. f[0] = start
    BY <1>5 DEF Besides!Goes
  <2>2. <<>> \in [{} -> Spot] /\ {} \in SUBSET S
    OBVIOUS
  <2>3. <<>> \in Partly
    BY <1>7, <2>2
  <2>4. start \in [x: Int, y: Int, at: Partly]
    BY <1>1, <2>3
  <2>5. \A m \in 1..0 : FALSE
    OBVIOUS
  <2> QED BY <1>3, <1>8, <2>1, <2>4, <2>5
<1>10. ASSUME NEW n \in 0..Len(firsts) - 1, n \in good PROVE n + 1 \in good
  <2>1. n + 1 \in 1..Len(firsts) /\ n + 1 \in 0..Len(firsts) /\ n + 1 - 1 = n
    BY <1>3
  <2>2. PICK done, next, k : done = f[n] /\ next = f[n + 1] /\ k = firsts[n + 1]
    OBVIOUS
  <2>3. done \in [x: Int, y: Int, at: Partly] /\ \A m \in 1..n : part[m] \subseteq DOMAIN done.at
    BY <1>8, <1>10, <2>2
  <2>4. k \in DOMAIN ids /\ ids[k] \in S
    BY <1>3, <2>1, <2>2 DEF ToSet
  <2>5. PICK one : one = LayoutOne(part[n + 1], ids, links, size, done.x, done.y)
    OBVIOUS
  <2>6. part[n + 1] = Component(ids, links, ids[k])
    BY <1>3, <1>6, <2>1, <2>2
  <2>7. part[n + 1] \in SUBSET S /\ part[n + 1] # {}
    BY <2>4, <2>6, ComponentIs
  <2>8. one \in [w: Int, at: [part[n + 1] -> Spot]]
    BY <2>3, <2>5, <2>7, OnePlaced
  <2>9. next = [done EXCEPT !.x = done.x + one.w + REGION_GAP, !.at = Joined(one.at, done.at)]
    <3>1. next = Beside(done, k, ids, links, size)
      BY <1>5, <2>1, <2>2 DEF Besides!Goes, BesideStep
    <3> QED BY <2>5, <2>6, <3>1 DEF Beside
  <2>10. PICK T \in SUBSET S : done.at \in [T -> Spot]
    BY <1>7, <2>3
  <2>11. PICK joined : joined = Joined(one.at, done.at)
    OBVIOUS
  <2>12. joined \in [part[n + 1] \cup T -> Spot]
    BY <2>8, <2>10, <2>11 DEF Joined
  <2>13. joined \in Partly /\ DOMAIN joined = part[n + 1] \cup DOMAIN done.at
    BY <1>7, <2>7, <2>10, <2>12
  <2>14. PICK right \in Int : right = done.x + one.w + REGION_GAP
    BY <2>3, <2>8 DEF REGION_GAP
  <2>15. next = [done EXCEPT !.x = right, !.at = joined]
    BY <2>9, <2>11, <2>14
  <2>16. next \in [x: Int, y: Int, at: Partly] /\ next.at = joined
    BY <2>3, <2>13, <2>15
  <2>17. \A m \in 1..n + 1 : m \in 1..n \/ m = n + 1
    OBVIOUS
  <2>18. \A m \in 1..n + 1 : part[m] \subseteq DOMAIN next.at
    BY <2>3, <2>13, <2>16, <2>17
  <2> QED BY <1>8, <2>1, <2>2, <2>16, <2>18
<1>11. Len(firsts) \in good
  <2>1. \A n \in 0..Len(firsts) : n \in good
    BY <1>3, <1>9, <1>10, UpTo
  <2> QED BY <1>3, <2>1
<1>12. PICK at : at = AutoLayout(ids, links, size, x, y)
  OBVIOUS
<1>13. at \in Partly /\ \A m \in DOMAIN firsts : part[m] \subseteq DOMAIN at
  BY <1>3, <1>4, <1>5, <1>8, <1>11, <1>12
<1>14. PICK m \in DOMAIN firsts : i \in part[m]
  BY <1>1, <1>2, <1>6, FirstsCover
<1>15. i \in DOMAIN at
  BY <1>13, <1>14
<1> QED BY <1>7, <1>12, <1>13, <1>15

-----------------------------------------------------------------------------
(* A place for every shape without coordinates.                            *)

\* Shapes without coordinates get a place, beside the shapes that are there if there are any
\* (autoPlaceMissing).
LEMMA AutoPlaceTyped ==
  ASSUME NEW S, NEW ids \in Seq(S), S = ToSet(ids), IsFiniteSet(S), NEW links \in Seq(S \X S),
         NEW size, Sized(size, S), NEW existing \in SUBSET ShapeBox, IsFiniteSet(existing)
  PROVE  \A i \in S : AutoPlace(ids, links, size, existing)[i] \in Spot
<1>1. CASE existing = {}
  <2>1. AutoPlace(ids, links, size, existing) = AutoLayout(ids, links, size, 120, 120)
    BY <1>1 DEF AutoPlace, Place
  <2> QED BY <2>1, AutoLayoutTyped
<1>2. CASE existing # {}
  <2>1. PICK rights, tops : rights = {b.x + b.w : b \in existing} /\ tops = {b.y : b \in existing}
    OBVIOUS
  <2>2. rights \in SUBSET Int /\ tops \in SUBSET Int /\ rights # {} /\ tops # {}
    BY <1>2, <2>1 DEF ShapeBox
  <2>3. /\ [b \in existing |-> b.x + b.w] \in Surjection(existing, rights)
        /\ [b \in existing |-> b.y] \in Surjection(existing, tops)
    BY <2>1 DEF Surjection
  <2>4. Max(rights) \in Int /\ Min(tops) \in Int
    BY <2>2, <2>3, FS_Surjection, MaxIs, MinIs
  <2>5. PICK x \in Int, y \in Int : x = Max(rights) + 160 /\ y = Min(tops)
    BY <2>4
  <2>6. Place(x, y).x = x /\ Place(x, y).y = y
    BY PlaceTyped
  <2>7. AutoPlace(ids, links, size, existing) =
          AutoLayout(ids, links, size, Place(x, y).x, Place(x, y).y)
    BY <1>2, <2>1, <2>5 DEF AutoPlace
  <2> QED BY <2>6, <2>7, AutoLayoutTyped
<1> QED BY <1>1, <1>2

SoundOperations(ops) == ops \in Seq(ToSet(ops)) /\ \A op \in ToSet(ops) : OperationIsSound(op)

\* So does every operation of a batch that creates such a shape.
LEMMA AutoPlacedTyped ==
  ASSUME NEW ops, SoundOperations(ops), NEW existing \in SUBSET ShapeBox, IsFiniteSet(existing),
         NEW op \in ToSet(ops), op.op = "create_geo", op.at = NoPlace
  PROVE  AutoPlaced(ops, existing)[op.id] \in Spot
<1>1. PICK places : places = {n \in DOMAIN ops : ops[n].op = "create_geo" /\ ops[n].at = NoPlace}
  OBVIOUS
<1>2. PICK missing : missing = Picked(ops, places)
  OBVIOUS
<1>3. PICK ids, S : ids = [i \in DOMAIN missing |-> missing[i].id] /\ S = ToSet(ids)
  OBVIOUS
<1>4. PICK among : among = {n \in DOMAIN ops : ops[n].op = "connect_shapes" /\ {ops[n].from, ops[n].to} \subseteq S}
  OBVIOUS
<1>5. PICK joins : joins = Picked(ops, among)
  OBVIOUS
<1>6. PICK links : links = [i \in DOMAIN joins |-> <<joins[i].from, joins[i].to>>]
  OBVIOUS
<1>7. PICK size : size = [i \in S |-> SizeOf(missing, i)]
  OBVIOUS
<1>8. places \in SUBSET DOMAIN ops /\ among \in SUBSET DOMAIN ops /\ ops \in Seq(ToSet(ops))
  BY <1>1, <1>4 DEF SoundOperations
<1>9. /\ missing \in Seq({ops[n] : n \in places})
      /\ \A n \in places : \E k \in DOMAIN missing : missing[k] = ops[n]
      /\ \A k \in DOMAIN missing : \E n \in places : missing[k] = ops[n]
      /\ joins \in Seq({ops[n] : n \in among})
      /\ \A k \in DOMAIN joins : \E n \in among : joins[k] = ops[n]
  <2>1. /\ missing \in Seq({ops[n] : n \in places})
        /\ \A n \in places : \E k \in DOMAIN missing : missing[k] = ops[n]
        /\ \A k \in DOMAIN missing : \E n \in places : missing[k] = ops[n]
    BY <1>2, <1>8, PickedIs
  <2>2. /\ joins \in Seq({ops[n] : n \in among})
        /\ \A k \in DOMAIN joins : \E n \in among : joins[k] = ops[n]
    BY <1>5, <1>8, PickedIs
  <2> QED BY <2>1, <2>2
<1>10. DOMAIN missing = 1..Len(missing) /\ Len(missing) \in Nat /\ DOMAIN joins = 1..Len(joins) /\ Len(joins) \in Nat
  BY <1>9
<1>11. ids \in Seq(S) /\ IsFiniteSet(S) /\ DOMAIN ids = DOMAIN missing
  <2>1. IsFiniteSet(DOMAIN missing)
    BY <1>10, FS_Interval
  <2>2. ids \in Surjection(DOMAIN missing, S)
    BY <1>3 DEF Surjection, ToSet
  <2>3. IsFiniteSet(S)
    BY <2>1, <2>2, FS_Surjection
  <2>4. ids \in Seq(S)
    BY <1>3, <1>10 DEF ToSet
  <2> QED BY <1>3, <2>3, <2>4
<1>12. op.id \in S /\ missing # <<>>
  <2>1. PICK n \in places : ops[n] = op
    BY <1>1 DEF ToSet
  <2>2. PICK k \in DOMAIN missing : missing[k] = op
    BY <1>9, <2>1
  <2>3. k \in DOMAIN ids /\ ids[k] = op.id
    BY <1>3, <2>2
  <2> QED BY <1>3, <1>10, <2>2, <2>3 DEF ToSet
<1>13. links \in Seq(S \X S)
  <2>1. \A k \in DOMAIN joins : <<joins[k].from, joins[k].to>> \in S \X S
    BY <1>4, <1>9
  <2> QED BY <1>6, <1>10, <2>1
<1>14. Sized(size, S)
  <2> SUFFICES ASSUME NEW i \in S PROVE size[i].w \in Int /\ size[i].h \in Int
    BY DEF Sized
  <2>1. PICK k \in DOMAIN missing : missing[k].id = i
    BY <1>3, <1>11 DEF ToSet
  <2>2. \E o \in ToSet(missing) : o.id = i
    BY <2>1 DEF ToSet
  <2>3. PICK o \in ToSet(missing) : size[i] = o.size
    BY <1>7, <2>2 DEF SizeOf
  <2>7. PICK l \in DOMAIN missing : o = missing[l]
    BY <2>3 DEF ToSet
  <2>4. PICK n \in places : o = ops[n]
    BY <1>9, <2>7
  <2>5. o \in ToSet(ops) /\ o.op = "create_geo"
    BY <1>1, <2>4 DEF ToSet
  <2>6. o.size \in [w: Nat \ {0}, h: Nat \ {0}]
    BY <2>5 DEF SoundOperations, OperationIsSound
  <2> QED BY <2>3, <2>6
<1>15. AutoPlaced(ops, existing) = AutoPlace(ids, links, size, existing)
  <2>1. Unplaced(ops) = missing
    BY <1>1, <1>2 DEF Unplaced, Only
  <2>2. IdsOf(missing) = ids
    BY <1>3 DEF IdsOf
  <2>3. Linking(ops, S) = joins
    BY <1>4, <1>5 DEF Linking, Only
  <2>4. AutoPlaced(ops, existing) = PlacedAlong(missing, ids, joins, existing)
    BY <1>3, <1>12, <2>1, <2>2, <2>3 DEF AutoPlaced
  <2> QED BY <1>3, <1>6, <1>7, <2>4 DEF PlacedAlong
<1>16. \A i \in S : AutoPlace(ids, links, size, existing)[i] \in Spot
  BY <1>3, <1>11, <1>13, <1>14, AutoPlaceTyped
<1> QED BY <1>12, <1>15, <1>16

-----------------------------------------------------------------------------
(* The operations of a batch.                                              *)

\* The locals of apply hold shapes, and arrows with measured labels.
HasLabel(line) == "label" \in DOMAIN line /\ line.label \in [w: Nat, h: Nat]
Labelled(lines) == lines \in Seq(ToSet(lines)) /\ \A n \in DOMAIN lines : HasLabel(lines[n])
Laid(b) ==
  /\ b = [boxes |-> b.boxes, order |-> b.order, arrows |-> b.arrows, fresh |-> b.fresh,
          created |-> b.created, moved |-> b.moved, placed |-> b.placed, drawn |-> b.drawn]
  /\ IsFiniteSet(DOMAIN b.boxes) /\ b.boxes \in Scene(DOMAIN b.boxes) /\ b.order \in Seq(DOMAIN b.boxes)
  /\ IsFiniteSet(DOMAIN b.fresh) /\ b.fresh \in Scene(DOMAIN b.fresh) /\ b.created \in Seq(DOMAIN b.fresh)
  /\ Labelled(b.arrows)

\* Every shape without coordinates has a place.
Provides(places, op) == op.op = "create_geo" /\ op.at = NoPlace => places[op.id] \in Spot

\* Two scenes make one scene.
LEMMA JoinedTyped ==
  ASSUME NEW f, NEW g, IsFiniteSet(DOMAIN f), IsFiniteSet(DOMAIN g), f \in Scene(DOMAIN f), g \in Scene(DOMAIN g)
  PROVE  /\ DOMAIN Joined(f, g) = (DOMAIN f) \cup (DOMAIN g) /\ IsFiniteSet(DOMAIN Joined(f, g))
         /\ Joined(f, g) \in Scene(DOMAIN Joined(f, g))
<1>1. DOMAIN Joined(f, g) = (DOMAIN f) \cup (DOMAIN g)
  BY DEF Joined
<1>2. IsFiniteSet((DOMAIN f) \cup (DOMAIN g))
  BY FS_Union
<1>3. Joined(f, g) \in [(DOMAIN f) \cup (DOMAIN g) -> ShapeBox]
  BY DEF Joined, Scene
<1> QED BY <1>1, <1>2, <1>3 DEF Scene

\* An operation keeps the locals of apply what they are: a new shape is a shape.
LEMMA CreatedIsLaid ==
  ASSUME NEW b, Laid(b), NEW op, OperationIsSound(op), op.op = "create_geo", NEW places, Provides(places, op)
  PROVE  Laid(create_geo(b, op, places))
<1>1. PICK at : at = IF op.at = NoPlace THEN places[op.id] ELSE op.at
  OBVIOUS
<1>2. at.x \in Int /\ at.y \in Int /\ op.size.w \in Nat \ {0} /\ op.size.h \in Nat \ {0}
  BY <1>1 DEF OperationIsSound, Provides, Spot
<1>3. Rectangle(at, op.size) \in ShapeBox
  <2>1. PICK x \in Int, y \in Int, w \in Nat \ {0}, h \in Nat \ {0} :
           x = at.x /\ y = at.y /\ w = op.size.w /\ h = op.size.h
    BY <1>2
  <2>2. Rectangle(at, op.size) = [x |-> x, y |-> y, w |-> w, h |-> h, type |-> "rectangle"]
    BY <2>1 DEF Rectangle
  <2>3. "rectangle" \in ShapeTypes
    BY DEF ShapeTypes
  <2> QED BY <2>2, <2>3 DEF ShapeBox
<1>4. PICK one : one = [i \in {op.id} |-> Rectangle(at, op.size)]
  OBVIOUS
<1>5. DOMAIN one = {op.id} /\ IsFiniteSet(DOMAIN one) /\ one \in Scene(DOMAIN one)
  BY <1>3, <1>4, FS_Singleton DEF Scene
<1>6. PICK fresh : fresh = Joined(b.fresh, one)
  OBVIOUS
<1>7. IsFiniteSet(DOMAIN fresh) /\ fresh \in Scene(DOMAIN fresh) /\ DOMAIN fresh = (DOMAIN b.fresh) \cup {op.id}
  BY <1>5, <1>6, JoinedTyped DEF Laid
<1>8. PICK created : created = Append(b.created, op.id)
  OBVIOUS
<1>9. created \in Seq(DOMAIN fresh)
  <2>1. b.created \in Seq(DOMAIN fresh) /\ op.id \in DOMAIN fresh
    BY <1>7 DEF Laid
  <2> QED BY <1>8, <2>1
<1>10. create_geo(b, op, places) = [b EXCEPT !.created = created, !.fresh = fresh]
  BY <1>1, <1>4, <1>6, <1>8 DEF create_geo
<1>11. create_geo(b, op, places) =
         [boxes |-> b.boxes, order |-> b.order, arrows |-> b.arrows, fresh |-> fresh,
          created |-> created, moved |-> b.moved, placed |-> b.placed, drawn |-> b.drawn]
  BY <1>10 DEF Laid
<1> QED BY <1>7, <1>9, <1>11 DEF Laid

\* A moved shape is a shape.
LEMMA MovedIsLaid ==
  ASSUME NEW b, Laid(b), NEW op, OperationIsSound(op), op.op = "move_shape"
  PROVE  Laid(move_shape(b, op))
<1>1. CASE op.id \notin DOMAIN b.boxes
  BY <1>1 DEF move_shape
<1>2. CASE op.id \in DOMAIN b.boxes
  <2>1. PICK box \in ShapeBox : box = b.boxes[op.id]
    BY <1>2 DEF Laid, Scene
  <2>2. At(box, op.at) \in ShapeBox
    <3>1. PICK x \in Int, y \in Int : x = op.at.x /\ y = op.at.y
      BY DEF OperationIsSound
    <3>2. At(box, op.at) = [box EXCEPT !.x = x, !.y = y]
      BY <3>1 DEF At
    <3> QED BY <3>2 DEF ShapeBox
  <2>3. PICK boxes2 : boxes2 = [b.boxes EXCEPT ![op.id] = At(box, op.at)]
    OBVIOUS
  <2>4. boxes2 \in Scene(DOMAIN b.boxes) /\ DOMAIN boxes2 = DOMAIN b.boxes
    BY <2>2, <2>3 DEF Laid, Scene
  <2>5. PICK moved2 : moved2 = b.moved \cup {op.id}
    OBVIOUS
  <2>6. move_shape(b, op) = [b EXCEPT !.boxes = boxes2, !.moved = moved2]
    BY <1>2, <2>1, <2>3, <2>5 DEF move_shape, Laid
  <2>7. move_shape(b, op) =
          [boxes |-> boxes2, order |-> b.order, arrows |-> b.arrows, fresh |-> b.fresh,
           created |-> b.created, moved |-> moved2, placed |-> b.placed, drawn |-> b.drawn]
    BY <2>6 DEF Laid
  <2> QED BY <2>4, <2>7 DEF Laid
<1> QED BY <1>1, <1>2

\* The box around some shapes.
LEMMA UnionTyped ==
  ASSUME NEW some \in SUBSET ShapeBox, IsFiniteSet(some), some # {}
  PROVE  UnionBox(some) \in Region
<1>1. PICK lefts, tops, rights, bottoms :
        /\ lefts = {b.x : b \in some} /\ tops = {b.y : b \in some}
        /\ rights = {b.x + b.w : b \in some} /\ bottoms = {b.y + b.h : b \in some}
  OBVIOUS
<1>2. /\ [b \in some |-> b.x] \in Surjection(some, lefts) /\ [b \in some |-> b.y] \in Surjection(some, tops)
      /\ [b \in some |-> b.x + b.w] \in Surjection(some, rights)
      /\ [b \in some |-> b.y + b.h] \in Surjection(some, bottoms)
  BY <1>1 DEF Surjection
<1>3. IsFiniteSet(lefts) /\ IsFiniteSet(tops) /\ IsFiniteSet(rights) /\ IsFiniteSet(bottoms)
  BY <1>2, FS_Surjection
<1>4. /\ lefts \in SUBSET Int /\ tops \in SUBSET Int /\ rights \in SUBSET Int /\ bottoms \in SUBSET Int
      /\ lefts # {} /\ tops # {} /\ rights # {} /\ bottoms # {}
  BY <1>1 DEF ShapeBox
<1>5. PICK l, t, r, u : l = Min(lefts) /\ t = Min(tops) /\ r = Max(rights) /\ u = Max(bottoms)
  OBVIOUS
<1>6. l \in Int /\ t \in Int /\ r \in Int /\ u \in Int
  BY <1>3, <1>4, <1>5, MaxIs, MinIs
<1>7. l < r /\ t < u
  <2>1. PICK b : b \in some
    OBVIOUS
  <2>2. b.x \in lefts /\ b.y \in tops /\ b.x + b.w \in rights /\ b.y + b.h \in bottoms
    BY <1>1, <2>1
  <2>3. l <= b.x /\ b.x + b.w <= r /\ t <= b.y /\ b.y + b.h <= u
    BY <1>3, <1>4, <1>5, <2>2, MaxIs, MinIs
  <2>4. b.x \in Int /\ b.y \in Int /\ b.w \in Int /\ b.h \in Int /\ b.w > 0 /\ b.h > 0
    BY <2>1, BoxFacts
  <2> QED BY <1>6, <2>3, <2>4
<1>8. UnionBox(some) = [x |-> l, y |-> t, w |-> r - l, h |-> u - t]
  BY <1>1, <1>5 DEF UnionBox
<1> QED BY <1>6, <1>7, <1>8 DEF Region

\* The place findVacantRect finds for the box around a region, and how far that is, are in pixels.
LEMMA VacantPlaceTyped ==
  ASSUME NEW rect \in Region, NEW obstacles, IsFiniteSet(obstacles), \A o \in obstacles : Measured(o),
         NEW prefer, NEW anchor, Measured(anchor), NEW margin \in Int
  PROVE  findVacantRect(rect, obstacles, prefer, anchor, margin) \in Spot
<1>1. Place(rect.x, rect.y) \in Spot
  BY PlaceTyped DEF Region
<1>2. Candidates(rect, obstacles, anchor, margin) \subseteq Spot
  BY CandidateType DEF Spot
<1>3. \/ findVacantRect(rect, obstacles, prefer, anchor, margin) = Place(rect.x, rect.y)
      \/ findVacantRect(rect, obstacles, prefer, anchor, margin) \in Candidates(rect, obstacles, anchor, margin)
  BY VacantPlace
<1> QED BY <1>1, <1>2, <1>3

LEMMA DriftTyped ==
  ASSUME NEW b, Laid(b), NEW op, op.margin \in Nat, NEW moving, moving \subseteq DOMAIN b.boxes, moving # {}
  PROVE  Drift(b, op, moving).x \in Int /\ Drift(b, op, moving).y \in Int
<1>1. PICK at, ids : at = b.boxes /\ ids = DOMAIN b.boxes
  OBVIOUS
<1>2. at \in Scene(ids) /\ IsFiniteSet(ids) /\ DOMAIN at = ids /\ moving \subseteq ids /\ ids \ moving \subseteq ids
  BY <1>1 DEF Laid
<1>3. ASSUME NEW S \in SUBSET ids
      PROVE  {at[i] : i \in S} \in SUBSET ShapeBox /\ IsFiniteSet({at[i] : i \in S})
  <2>1. PICK T : T = {at[i] : i \in S}
    OBVIOUS
  <2>2. [i \in S |-> at[i]] \in Surjection(S, T)
    BY <2>1 DEF Surjection
  <2>3. IsFiniteSet(S)
    BY <1>2, FS_Subset
  <2>4. IsFiniteSet(T)
    BY <2>2, <2>3, FS_Surjection
  <2>5. T \in SUBSET ShapeBox
    BY <1>2, <2>1 DEF Scene
  <2> QED BY <2>1, <2>4, <2>5
<1>4. PICK some, others : some = {at[i] : i \in moving} /\ others = {at[i] : i \in ids \ moving}
  OBVIOUS
<1>5. /\ some \in SUBSET ShapeBox /\ IsFiniteSet(some) /\ others \in SUBSET ShapeBox /\ IsFiniteSet(others)
      /\ some # {}
  BY <1>2, <1>3, <1>4
<1>6. PICK region \in Region : region = UnionBox(some)
  BY <1>5, UnionTyped
<1>7. PICK anchor : anchor = IF op.anchorId \in ids THEN at[op.anchorId] ELSE region
  OBVIOUS
<1>8. Measured(anchor) /\ \A o \in others : Measured(o)
  <2>1. Measured(region)
    BY DEF Region, Measured
  <2>2. \A box \in ShapeBox : Measured(box)
    BY BoxFacts
  <2> QED BY <1>2, <1>5, <1>7, <2>1, <2>2 DEF Scene
<1>9. PICK to : to = findVacantRect(region, others, op.prefer, anchor, op.margin)
  OBVIOUS
<1>10. to \in Spot
  <2>1. op.margin \in Int
    OBVIOUS
  <2> QED BY <1>5, <1>8, <1>9, <2>1, VacantPlaceTyped
<1>11. Drift(b, op, moving) = Minus(to, region)
  BY <1>1, <1>4, <1>6, <1>7, <1>9 DEF Drift
<1>12. to.x - region.x \in Int /\ to.y - region.y \in Int
  BY <1>10 DEF Spot, Region
<1> QED BY <1>11, <1>12, PlaceTyped DEF Minus

\* A region that is placed is moved as a whole.
LEMMA PlacedIsLaid ==
  ASSUME NEW b, Laid(b), NEW op, OperationIsSound(op), op.op = "place_region"
  PROVE  Laid(place_region(b, op))
<1>1. PICK ids, moving : ids = DOMAIN b.boxes /\ moving = op.ids \cap ids
  OBVIOUS
<1>2. PICK d, put : d = Drift(b, op, moving) /\ put = [ids |-> moving, margin |-> op.margin]
  OBVIOUS
<1>3. CASE moving = {}
  BY <1>1, <1>3 DEF place_region
<1>4. CASE moving # {} /\ d = Place(0, 0)
  <2>1. place_region(b, op) = [b EXCEPT !.placed = put]
    BY <1>1, <1>2, <1>4 DEF place_region
  <2>2. place_region(b, op) =
          [boxes |-> b.boxes, order |-> b.order, arrows |-> b.arrows, fresh |-> b.fresh,
           created |-> b.created, moved |-> b.moved, placed |-> put, drawn |-> b.drawn]
    BY <2>1 DEF Laid
  <2> QED BY <2>2 DEF Laid
<1>5. CASE moving # {} /\ d # Place(0, 0)
  <2>1. PICK boxes2, moved2 :
          /\ boxes2 = [i \in ids |-> IF i \in moving THEN Moved(b.boxes[i], d.x, d.y) ELSE b.boxes[i]]
          /\ moved2 = b.moved \cup moving
    OBVIOUS
  <2>2. place_region(b, op) = [b EXCEPT !.boxes = boxes2, !.moved = moved2, !.placed = put]
    BY <1>1, <1>2, <1>5, <2>1 DEF place_region
  <2>3. place_region(b, op) =
          [boxes |-> boxes2, order |-> b.order, arrows |-> b.arrows, fresh |-> b.fresh,
           created |-> b.created, moved |-> moved2, placed |-> put, drawn |-> b.drawn]
    BY <2>2 DEF Laid
  <2>4. d.x \in Int /\ d.y \in Int
    <3>1. op.margin \in Nat
      BY DEF OperationIsSound
    <3> QED BY <1>1, <1>2, <1>5, <3>1, DriftTyped
  <2>5. \A i \in ids : Moved(b.boxes[i], d.x, d.y) \in ShapeBox /\ b.boxes[i] \in ShapeBox
    BY <1>1, <2>4, MovedTyped DEF Laid, Scene
  <2>6. boxes2 \in Scene(ids) /\ DOMAIN boxes2 = ids
    BY <2>1, <2>5 DEF Scene
  <2> QED BY <1>1, <2>3, <2>6 DEF Laid
<1> QED BY <1>3, <1>4, <1>5

\* A deleted shape leaves the scene and its order.
LEMMA DeletedIsLaid ==
  ASSUME NEW b, Laid(b), NEW op, op.op = "delete_shape"
  PROVE  Laid(delete_shape(b, op))
<1>1. PICK ids : ids = (DOMAIN b.boxes) \ {op.id}
  OBVIOUS
<1>2. PICK boxes2 : boxes2 = Restrict(b.boxes, ids)
  OBVIOUS
<1>3. boxes2 \in Scene(ids) /\ DOMAIN boxes2 = ids /\ IsFiniteSet(ids)
  <2>1. boxes2 = [i \in ids |-> b.boxes[i]]
    BY <1>2 DEF Restrict
  <2>2. \A i \in ids : b.boxes[i] \in ShapeBox
    BY <1>1 DEF Laid, Scene
  <2>3. IsFiniteSet(ids)
    BY <1>1, FS_Subset DEF Laid
  <2> QED BY <2>1, <2>2, <2>3 DEF Scene
<1>4. PICK places : places = {n \in DOMAIN b.order : b.order[n] # op.id}
  OBVIOUS
<1>5. PICK order2 : order2 = Picked(b.order, places)
  OBVIOUS
<1>6. order2 \in Seq(ids)
  <2>1. b.order \in Seq(DOMAIN b.boxes) /\ places \in SUBSET DOMAIN b.order
    BY <1>4 DEF Laid
  <2>2. order2 \in Seq({b.order[n] : n \in places})
    BY <1>5, <2>1, PickedIs
  <2>3. {b.order[n] : n \in places} \subseteq ids
    BY <1>1, <1>4, <2>1
  <2> QED BY <2>2, <2>3
<1>7. delete_shape(b, op) = [b EXCEPT !.boxes = boxes2, !.order = order2]
  BY <1>1, <1>2, <1>4, <1>5 DEF delete_shape, Only
<1>8. delete_shape(b, op) =
        [boxes |-> boxes2, order |-> order2, arrows |-> b.arrows, fresh |-> b.fresh,
         created |-> b.created, moved |-> b.moved, placed |-> b.placed, drawn |-> b.drawn]
  BY <1>7 DEF Laid
<1> QED BY <1>3, <1>6, <1>8 DEF Laid

\* So every operation keeps the locals what they are, and all of them do, one after the other.
LEMMA AppliedIsLaid ==
  ASSUME NEW b, Laid(b), NEW op, OperationIsSound(op), NEW places, Provides(places, op)
  PROVE  Laid(Applied(b, op, places))
<1>1. CASE op.op = "create_geo"
  BY <1>1, CreatedIsLaid DEF Applied
<1>2. CASE op.op = "move_shape"
  BY <1>2, MovedIsLaid DEF Applied
<1>3. CASE op.op = "place_region"
  BY <1>3, PlacedIsLaid DEF Applied
<1>4. CASE op.op = "delete_shape"
  BY <1>4, DeletedIsLaid DEF Applied
<1>5. CASE op.op \notin {"create_geo", "move_shape", "place_region", "delete_shape"}
  <2>1. Applied(b, op, places) = b
    BY <1>5 DEF Applied
  <2> QED BY <2>1
<1> QED BY <1>1, <1>2, <1>3, <1>4, <1>5

ApplyStep(a, b, c, acc, x) == Applied(acc, x, a)
Applying == INSTANCE Stepwise WITH Step <- ApplyStep

LEMMA AllAppliedIsLaid ==
  ASSUME NEW b, Laid(b), NEW ops, SoundOperations(ops), NEW places, \A op \in ToSet(ops) : Provides(places, op)
  PROVE  Laid(AllApplied(b, ops, places))
<1>1. AllApplied(b, ops, places) = Applying!Result(places, 0, 0, b, ops)
  BY DEF AllApplied, Through, ApplyStep, Applying!Result, Applying!Walk, Applying!Once
<1>2. Len(ops) \in Nat /\ \A n \in 1..Len(ops) : ops[n] \in ToSet(ops)
  BY DEF SoundOperations
<1>3. PICK f : /\ Applying!Goes(f, places, 0, 0, b, ops, Len(ops))
               /\ Applying!Result(places, 0, 0, b, ops) = f[Len(ops)]
  BY <1>2, Applying!ResultIs
<1>4. f[0] = b /\ \A n \in 1..Len(ops) : f[n] = Applied(f[n - 1], ops[n], places)
  BY <1>3 DEF Applying!Goes, ApplyStep
<1>5. PICK S : S = {n \in 0..Len(ops) : Laid(f[n])}
  OBVIOUS
<1>6. 0 \in S
  BY <1>2, <1>4, <1>5
<1>7. ASSUME NEW n \in 0..Len(ops) - 1, n \in S PROVE n + 1 \in S
  <2>1. n + 1 \in 1..Len(ops) /\ n + 1 \in 0..Len(ops) /\ (n + 1) - 1 = n
    BY <1>2
  <2>2. f[n + 1] = Applied(f[n], ops[n + 1], places)
    BY <1>4, <2>1
  <2>3. PICK op \in ToSet(ops) : op = ops[n + 1]
    BY <1>2, <2>1
  <2>4. OperationIsSound(op) /\ Provides(places, op) /\ Laid(f[n])
    BY <1>5, <1>7 DEF SoundOperations
  <2>5. Laid(Applied(f[n], op, places))
    BY <2>4, AppliedIsLaid
  <2> QED BY <1>5, <2>1, <2>2, <2>3, <2>5
<1>8. Len(ops) \in S
  <2>1. \A i \in 0..Len(ops) : i \in S
    BY <1>2, <1>6, <1>7, UpTo
  <2> QED BY <1>2, <2>1
<1> QED BY <1>1, <1>3, <1>5, <1>8

\* The new shapes come behind the old ones.
LEMMA SettledIsLaid ==
  ASSUME NEW b, Laid(b) PROVE Laid(Settled(b))
<1>1. PICK boxes2 : boxes2 = Joined(b.boxes, b.fresh)
  OBVIOUS
<1>2. /\ DOMAIN boxes2 = (DOMAIN b.boxes) \cup (DOMAIN b.fresh) /\ IsFiniteSet(DOMAIN boxes2)
      /\ boxes2 \in Scene(DOMAIN boxes2)
  BY <1>1, JoinedTyped DEF Laid
<1>3. PICK order2 : order2 = b.order \o b.created
  OBVIOUS
<1>4. order2 \in Seq(DOMAIN boxes2)
  <2>1. b.order \in Seq(DOMAIN boxes2) /\ b.created \in Seq(DOMAIN boxes2)
    BY <1>2 DEF Laid
  <2> QED BY <1>3, <2>1
<1>5. Settled(b) = [b EXCEPT !.boxes = boxes2, !.order = order2]
  BY <1>1, <1>3 DEF Settled
<1>6. Settled(b) =
        [boxes |-> boxes2, order |-> order2, arrows |-> b.arrows, fresh |-> b.fresh,
         created |-> b.created, moved |-> b.moved, placed |-> b.placed, drawn |-> b.drawn]
  BY <1>5 DEF Laid
<1> QED BY <1>2, <1>4, <1>6 DEF Laid

\* An arrow is drawn behind the others, with its label.
LEMMA LabelledAppend ==
  ASSUME NEW lines, Labelled(lines), NEW line, HasLabel(line)
  PROVE  Labelled(Append(lines, line))
<1>1. PICK S : S = ToSet(lines) \cup {line}
  OBVIOUS
<1>2. lines \in Seq(S) /\ line \in S
  BY <1>1 DEF Labelled
<1>3. PICK longer : longer = Append(lines, line)
  OBVIOUS
<1>4. longer \in Seq(S) /\ DOMAIN longer = 1..Len(longer) /\ Len(longer) = Len(lines) + 1 /\ Len(lines) \in Nat
  BY <1>2, <1>3
<1>5. \A n \in DOMAIN longer : longer[n] = IF n <= Len(lines) THEN lines[n] ELSE line
  BY <1>2, <1>3, <1>4
<1>6. \A n \in DOMAIN longer : n <= Len(lines) => n \in DOMAIN lines
  BY <1>2, <1>4
<1>7. \A n \in DOMAIN longer : HasLabel(longer[n])
  BY <1>5, <1>6 DEF Labelled
<1>8. longer \in Seq(ToSet(longer))
  BY <1>4 DEF ToSet
<1> QED BY <1>3, <1>7, <1>8 DEF Labelled

LEMMA DrawnIsLaid ==
  ASSUME NEW b, Laid(b), NEW op, OperationIsSound(op), op.op = "connect_shapes"
  PROVE  Laid(DrawArrow(b, op))
<1>1. CASE DrawArrow(b, op) = b
  BY <1>1
<1>2. CASE DrawArrow(b, op) # b
  <2>1. PICK id, ends : DrawArrow(b, op) =
          [b EXCEPT !.arrows = Append(@, [id |-> id, from |-> op.from, to |-> op.to, label |-> op.label,
                                          focus |-> NoFocus, points |-> ends]),
                    !.drawn = @ \cup {id}]
    BY <1>2 DEF DrawArrow
  <2>2. PICK line : line = [id |-> id, from |-> op.from, to |-> op.to, label |-> op.label,
                            focus |-> NoFocus, points |-> ends]
    OBVIOUS
  <2>3. HasLabel(line)
    BY <2>2 DEF OperationIsSound, HasLabel
  <2>4. PICK arrows2, drawn2 : arrows2 = Append(b.arrows, line) /\ drawn2 = b.drawn \cup {id}
    OBVIOUS
  <2>5. Labelled(arrows2)
    BY <2>3, <2>4, LabelledAppend DEF Laid
  <2>6. DrawArrow(b, op) = [b EXCEPT !.arrows = arrows2, !.drawn = drawn2]
    BY <2>1, <2>2, <2>4 DEF Laid
  <2>7. DrawArrow(b, op) =
          [boxes |-> b.boxes, order |-> b.order, arrows |-> arrows2, fresh |-> b.fresh,
           created |-> b.created, moved |-> b.moved, placed |-> b.placed, drawn |-> drawn2]
    BY <2>6 DEF Laid
  <2> QED BY <2>5, <2>7 DEF Laid
<1> QED BY <1>1, <1>2

DrawStep(a, b, c, acc, x) == DrawArrow(acc, x)
Drawing == INSTANCE Stepwise WITH Step <- DrawStep

LEMMA AllDrawnIsLaid ==
  ASSUME NEW b, Laid(b), NEW ops, SoundOperations(ops)
  PROVE  Laid(AllDrawn(b, ops))
<1>1. PICK places : places = {n \in DOMAIN ops : ops[n].op = "connect_shapes"}
  OBVIOUS
<1>2. PICK joins : joins = Picked(ops, places)
  OBVIOUS
<1>3. /\ joins \in Seq({ops[n] : n \in places})
      /\ \A k \in DOMAIN joins : \E n \in places : joins[k] = ops[n]
  <2>1. places \in SUBSET DOMAIN ops /\ ops \in Seq(ToSet(ops))
    BY <1>1 DEF SoundOperations
  <2> QED BY <1>2, <2>1, PickedIs
<1>4. Len(joins) \in Nat /\ DOMAIN joins = 1..Len(joins)
  BY <1>3
<1>5. \A k \in 1..Len(joins) : joins[k].op = "connect_shapes" /\ OperationIsSound(joins[k])
  <2> SUFFICES ASSUME NEW k \in 1..Len(joins) PROVE joins[k].op = "connect_shapes" /\ OperationIsSound(joins[k])
    OBVIOUS
  <2>1. PICK n \in places : joins[k] = ops[n]
    BY <1>3, <1>4
  <2>2. ops[n] \in ToSet(ops) /\ ops[n].op = "connect_shapes"
    BY <1>1, <2>1 DEF ToSet
  <2> QED BY <2>1, <2>2 DEF SoundOperations
<1>6. AllDrawn(b, ops) = Drawing!Result(0, 0, 0, b, joins)
  BY <1>1, <1>2 DEF AllDrawn, Only, Through, DrawStep, Drawing!Result, Drawing!Walk, Drawing!Once
<1>7. PICK f : /\ Drawing!Goes(f, 0, 0, 0, b, joins, Len(joins))
               /\ Drawing!Result(0, 0, 0, b, joins) = f[Len(joins)]
  BY <1>4, Drawing!ResultIs
<1>8. f[0] = b /\ \A n \in 1..Len(joins) : f[n] = DrawArrow(f[n - 1], joins[n])
  BY <1>7 DEF Drawing!Goes, DrawStep
<1>9. PICK S : S = {n \in 0..Len(joins) : Laid(f[n])}
  OBVIOUS
<1>10. 0 \in S
  BY <1>4, <1>8, <1>9
<1>11. ASSUME NEW n \in 0..Len(joins) - 1, n \in S PROVE n + 1 \in S
  <2>1. n + 1 \in 1..Len(joins) /\ n + 1 \in 0..Len(joins) /\ (n + 1) - 1 = n
    BY <1>4
  <2>2. f[n + 1] = DrawArrow(f[n], joins[n + 1])
    BY <1>8, <2>1
  <2>3. joins[n + 1].op = "connect_shapes" /\ OperationIsSound(joins[n + 1]) /\ Laid(f[n])
    BY <1>5, <1>9, <1>11, <2>1
  <2>4. Laid(DrawArrow(f[n], joins[n + 1]))
    BY <2>3, DrawnIsLaid
  <2> QED BY <1>9, <2>1, <2>2, <2>4
<1>12. Len(joins) \in S
  <2>1. \A i \in 0..Len(joins) : i \in S
    BY <1>4, <1>10, <1>11, UpTo
  <2> QED BY <1>4, <2>1
<1> QED BY <1>6, <1>7, <1>9, <1>12

\* From a scene of shapes, the operations of a batch lead to one.
LEMMA OperateIsLaid ==
  ASSUME NEW ops, SoundOperations(ops), IsFiniteSet(DOMAIN boxes), boxes \in Scene(DOMAIN boxes),
         order \in Seq(DOMAIN boxes), Labelled(arrows)
  PROVE  Laid(Operate(ops))
<1>1. PICK start : start = [boxes |-> boxes, order |-> order, arrows |-> arrows, fresh |-> <<>>,
                            created |-> <<>>, moved |-> {}, placed |-> NoRegion, drawn |-> {}]
  OBVIOUS
<1>2. PICK none : none = <<>>
  OBVIOUS
<1>3. IsFiniteSet(DOMAIN none) /\ none \in Scene(DOMAIN none) /\ none \in Seq(DOMAIN none)
  <2>1. none \in Seq({}) /\ Len(none) = 0 /\ DOMAIN none = 1..0
    BY <1>2
  <2>2. DOMAIN none = {}
    BY <2>1
  <2>3. none = [i \in {} |-> none[i]]
    BY <2>1, <2>2
  <2> QED BY <2>1, <2>2, <2>3, FS_EmptySet DEF Scene
<1>4. Laid(start)
  BY <1>1, <1>2, <1>3 DEF Laid
<1>5. PICK around : around = {boxes[i] : i \in DOMAIN boxes}
  OBVIOUS
<1>6. around \in SUBSET ShapeBox /\ IsFiniteSet(around)
  <2>1. [i \in DOMAIN boxes |-> boxes[i]] \in Surjection(DOMAIN boxes, around)
    BY <1>5 DEF Surjection
  <2>2. IsFiniteSet(around)
    BY <2>1, FS_Surjection
  <2> QED BY <1>5, <2>2 DEF Scene
<1>7. PICK places : places = AutoPlaced(ops, around)
  OBVIOUS
<1>8. \A op \in ToSet(ops) : Provides(places, op)
  BY <1>6, <1>7, AutoPlacedTyped DEF Provides
<1>9. Operate(ops) = AllDrawn(Settled(AllApplied(start, ops, places)), ops)
  BY <1>1, <1>5, <1>7 DEF Operate
<1>10. Laid(AllApplied(start, ops, places))
  BY <1>4, <1>8, AllAppliedIsLaid
<1>11. Laid(Settled(AllApplied(start, ops, places)))
  BY <1>10, SettledIsLaid
<1> QED BY <1>9, <1>11, AllDrawnIsLaid

-----------------------------------------------------------------------------
(* The routes.                                                             *)

\* A route changes the points and the focus of an arrow, and not its label.
LEMMA RelabelledIs ==
  ASSUME NEW lines, Labelled(lines), NEW id, NEW points, NEW focus
  PROVE  Labelled([lines EXCEPT ![id].points = points, ![id].focus = focus])
<1>1. PICK line : line = [lines[id] EXCEPT !.points = points, !.focus = focus]
  OBVIOUS
<1>2. PICK next : next = [lines EXCEPT ![id] = line]
  OBVIOUS
<1>3. DOMAIN next = DOMAIN lines /\ \A n \in DOMAIN lines : next[n] = IF n = id THEN line ELSE lines[n]
  BY <1>2
<1>4. id \in DOMAIN lines => HasLabel(line)
  BY <1>1 DEF HasLabel, Labelled
<1>5. \A n \in DOMAIN next : HasLabel(next[n])
  BY <1>3, <1>4 DEF Labelled
<1>6. DOMAIN lines = 1..Len(lines) /\ Len(lines) \in Nat
  BY DEF Labelled
<1>7. next \in Seq(ToSet(next))
  <2>1. next = [n \in 1..Len(lines) |-> next[n]]
    BY <1>2, <1>6
  <2>2. \A n \in 1..Len(lines) : next[n] \in ToSet(next)
    BY <1>3, <1>6 DEF ToSet
  <2> QED BY <1>6, <2>1, <2>2
<1>8. [lines EXCEPT ![id].points = points, ![id].focus = focus] = next
  BY <1>1, <1>2
<1> QED BY <1>5, <1>7, <1>8 DEF Labelled

LEMMA RoutedLabels ==
  ASSUME NEW acc, Labelled(acc.arrows), NEW arrow, NEW offset
  PROVE  Labelled(RouteArrow(acc, arrow, offset).arrows)
<1>1. PICK route : RouteArrow(acc, arrow, offset) = Routed(acc, arrow, route)
  BY DEF RouteArrow
<1>2. Routed(acc, arrow, route).arrows = [acc.arrows EXCEPT ![arrow.id].points = route.points, ![arrow.id].focus = arrow.focus]
  BY DEF Routed
<1>3. PICK lines, id, points, focus :
        /\ lines = acc.arrows /\ id = arrow.id /\ points = route.points /\ focus = arrow.focus
  OBVIOUS
<1>4. Labelled([lines EXCEPT ![id].points = points, ![id].focus = focus])
  BY <1>3, RelabelledIs
<1>5. RouteArrow(acc, arrow, offset).arrows = [lines EXCEPT ![id].points = points, ![id].focus = focus]
  BY <1>1, <1>2, <1>3
<1> QED BY <1>4, <1>5

LEMMA ReroutedLabels ==
  ASSUME NEW acc, Labelled(acc.arrows), NEW e, NEW edges, NEW focus
  PROVE  Labelled(Rerouted(acc, e, edges, focus).arrows)
<1>1. PICK arrow, offset : Rerouted(acc, e, edges, focus) = RouteArrow(acc, arrow, offset)
  BY DEF Rerouted
<1> QED BY <1>1, RoutedLabels

RerouteStep(a, b, c, acc, x) == Rerouted(acc, x, a, b)
Rerouting == INSTANCE Stepwise WITH Step <- RerouteStep

LEMMA AllRoutedLabels ==
  ASSUME NEW acc, Labelled(acc.arrows), NEW queue, Len(queue) \in Nat, NEW edges, NEW focus
  PROVE  Labelled(AllRouted(acc, queue, edges, focus).arrows)
<1>1. AllRouted(acc, queue, edges, focus) = Rerouting!Result(edges, focus, 0, acc, queue)
  BY DEF AllRouted, Through, RerouteStep, Rerouting!Result, Rerouting!Walk, Rerouting!Once
<1>2. PICK f : /\ Rerouting!Goes(f, edges, focus, 0, acc, queue, Len(queue))
               /\ Rerouting!Result(edges, focus, 0, acc, queue) = f[Len(queue)]
  BY Rerouting!ResultIs
<1>3. f[0] = acc /\ \A n \in 1..Len(queue) : f[n] = Rerouted(f[n - 1], queue[n], edges, focus)
  BY <1>2 DEF Rerouting!Goes, RerouteStep
<1>4. PICK S : S = {n \in 0..Len(queue) : Labelled(f[n].arrows)}
  OBVIOUS
<1>5. 0 \in S
  BY <1>3, <1>4
<1>6. ASSUME NEW n \in 0..Len(queue) - 1, n \in S PROVE n + 1 \in S
  <2>1. n + 1 \in 1..Len(queue) /\ n + 1 \in 0..Len(queue) /\ (n + 1) - 1 = n
    OBVIOUS
  <2>2. f[n + 1] = Rerouted(f[n], queue[n + 1], edges, focus)
    BY <1>3, <2>1
  <2>3. Labelled(f[n].arrows)
    BY <1>4, <1>6
  <2>4. Labelled(f[n + 1].arrows)
    BY <2>2, <2>3, ReroutedLabels
  <2> QED BY <1>4, <2>1, <2>4
<1>7. Len(queue) \in S
  <2>1. \A i \in 0..Len(queue) : i \in S
    BY <1>5, <1>6, UpTo
  <2> QED BY <2>1
<1> QED BY <1>1, <1>2, <1>4, <1>7

LEMMA RouteAllLabels ==
  ASSUME Labelled(arrows), Len(Edges) \in Nat, DOMAIN Edges = 1..Len(Edges)
  PROVE  Labelled(RouteAll.done.arrows)
<1>1. PICK edges, stay : edges = Edges /\ stay = {e \in DOMAIN edges : ~routeNeedsUpdate(edges[e])}
  OBVIOUS
<1>2. PICK places : places = [e \in DOMAIN edges |-> e]
  OBVIOUS
<1>3. places \in Seq(Nat)
  BY <1>1, <1>2
<1>4. PICK affected : affected = Picked(places, {n \in DOMAIN places : places[n] \notin stay})
  OBVIOUS
<1>5. affected \in Seq(Nat)
  <2>1. PICK N : N = {n \in DOMAIN places : places[n] \notin stay}
    OBVIOUS
  <2>2. N \in SUBSET DOMAIN places
    BY <2>1
  <2> QED BY <1>3, <1>4, <2>1, <2>2, PickedWithin
<1>6. PICK first, second :
        /\ first = Picked(affected, {n \in DOMAIN affected : edges[affected[n]].label # NoLabel})
        /\ second = Picked(affected, {n \in DOMAIN affected : ~(edges[affected[n]].label # NoLabel)})
  OBVIOUS
<1>7. Len(first \o second) \in Nat
  <2>1. PICK P, Q : /\ P = {n \in DOMAIN affected : edges[affected[n]].label # NoLabel}
                    /\ Q = {n \in DOMAIN affected : ~(edges[affected[n]].label # NoLabel)}
    OBVIOUS
  <2>2. P \in SUBSET DOMAIN affected /\ Q \in SUBSET DOMAIN affected
    BY <2>1
  <2>3. first \in Seq(Nat) /\ second \in Seq(Nat)
    BY <1>5, <1>6, <2>1, <2>2, PickedWithin
  <2> QED BY <2>3
<1>8. PICK start : start = [arrows |-> arrows, warned |-> {},
                occupied |-> UNION {Segments(edges[e].points) : e \in stay},
                labels |-> {LabelBox(edges[e].points, edges[e].label) : e \in {f \in stay : edges[f].label # NoLabel}}]
  OBVIOUS
<1>9. Labelled(start.arrows)
  BY <1>8
<1>10. RouteAll.done = AllRouted(start, first \o second, edges, assignPortFocus(boxes, edges))
  BY <1>1, <1>2, <1>4, <1>6, <1>8 DEF RouteAll, Only
<1> QED BY <1>7, <1>9, <1>10, AllRoutedLabels

-----------------------------------------------------------------------------
(* The invariant.                                                          *)

\* The scene is one of shapes, with what captureLayoutPreservation saw before the passes.
SceneIsShaped ==
  /\ IsFiniteSet(DOMAIN boxes) /\ boxes \in Scene(DOMAIN boxes) /\ order \in Seq(DOMAIN boxes)
  /\ Labelled(arrows)
CompositionIsKept ==
  /\ batch.made \in Scene(DOMAIN batch.made)
  /\ \E seq \in Seq(DOMAIN batch.made) : batch.kept = captureLayoutPreservation(seq, batch.made, batch.declared)
  /\ KeepsComposition(boxes, batch.made, batch.kept, MaySpread(batch.declared))
  /\ batch.kept.containers = <<>> \/ batch.settled => Together(boxes, batch.made, batch.kept)
BatchType ==
  /\ {"moved", "made", "kept", "declared", "settled"} \subseteq DOMAIN batch
  /\ SoundRelations(batch.declared)
  /\ stage \in {"idle", "spacing", "overlap", "routing"}
  /\ stage # "idle" => DOMAIN batch.made = DOMAIN boxes
LayoutInvariant == SceneIsShaped /\ CompositionIsKept /\ BatchType

\* The invariant says of the repair what RepairKeepsComposition says.
LEMMA KeepsOfRepair == LayoutInvariant => RepairKeepsComposition
<1> SUFFICES ASSUME LayoutInvariant PROVE RepairKeepsComposition
  OBVIOUS
<1>1. /\ KeepsComposition(boxes, batch.made, batch.kept, MaySpread(batch.declared))
      /\ batch.kept.containers = <<>> \/ batch.settled => Together(boxes, batch.made, batch.kept)
  BY DEF LayoutInvariant, CompositionIsKept
<1>2. LinesHold <=> Together(boxes, batch.made, batch.kept)
  BY DEF LinesHold, Together
<1> QED BY <1>1, <1>2 DEF KeepsComposition, RepairKeepsComposition

\* Before the first batch nothing is kept.
LEMMA StartsKept == LayoutInit => LayoutInvariant
<1> SUFFICES ASSUME LayoutInit PROVE LayoutInvariant
  OBVIOUS
<1>1. PICK page \in Pages : order = page.order /\ boxes = page.boxes
  BY DEF LayoutInit
<1>2. arrows = <<>> /\ stage = "idle" /\ batch = Idle
  BY DEF LayoutInit
<1>3. Labelled(<<>>)
  BY DEF Labelled
<1>4. SceneIsShaped
  BY <1>1, <1>2, <1>3, LayoutAssumption DEF SceneIsShaped, Scene
<1>5. PICK none : none = [i \in {} |-> 0]
  OBVIOUS
<1>6. none \in Scene({}) /\ DOMAIN none = {}
  BY <1>5 DEF Scene
<1>7. PICK kept : kept = captureLayoutPreservation(<<>>, none, <<>>)
  OBVIOUS
<1>8. batch.made = none /\ batch.declared = <<>> /\ batch.kept = kept
  BY <1>2, <1>5, <1>7 DEF Idle, NoKept
<1>9. SoundRelations(<<>>) /\ <<>> \in Seq({})
  BY DEF SoundRelations, ToSet
<1>10. Remembers({}, kept)
  BY <1>6, <1>7, <1>9, CaptureIsKept
<1>11. KeepsComposition(boxes, none, kept, MaySpread(<<>>)) /\ Together(boxes, none, kept)
  <2>1. /\ kept.containers \in Seq({} \X {})
        /\ \A axis \in Axes : kept.order[axis] \in SUBSET ({} \X {}) /\ kept.groups[axis] \in Seq(SUBSET {})
    BY <1>10 DEF Remembers, Composed, Axes
  <2>2. ToSet(kept.containers) = {}
    BY <2>1 DEF ToSet
  <2>3. ASSUME NEW axis \in Axes PROVE kept.order[axis] = {} /\ \A g \in ToSet(kept.groups[axis]) : g = {}
    <3>1. PICK groups \in Seq(SUBSET {}) : groups = kept.groups[axis]
      BY <2>1
    <3>2. \A n \in DOMAIN groups : groups[n] \in SUBSET {}
      OBVIOUS
    <3> QED BY <2>1, <3>1, <3>2 DEF ToSet
  <2> QED BY <1>6, <2>2, <2>3 DEF KeepsComposition, Together
<1>12. BatchType
  BY <1>2, <1>8, <1>9 DEF BatchType, Idle
<1>13. CompositionIsKept
  BY <1>6, <1>7, <1>8, <1>9, <1>11 DEF CompositionIsKept
<1> QED BY <1>4, <1>12, <1>13 DEF LayoutInvariant

\* A batch leaves a scene of shapes, whose composition is captured before the passes.
LEMMA MaterializeKeeps ==
  ASSUME LayoutInvariant, NEW ops, NEW declared, SoundOperations(ops), SoundRelations(declared), Materialize(ops, declared)
  PROVE  LayoutInvariant'
<1>1. PICK b : /\ b = Operate(ops) /\ boxes' = b.boxes /\ order' = b.order /\ arrows' = b.arrows
               /\ batch' = [number |-> batch.number + 1, declared |-> declared, created |-> ToSet(b.created),
                    moved |-> b.moved, drawn |-> b.drawn, placed |-> b.placed,
                    auto |-> {ops[i].id : i \in {j \in DOMAIN ops : ops[j].op = "create_geo" /\ ops[j].at = NoPlace}},
                    before |-> boxes, made |-> b.boxes,
                    kept |-> captureLayoutPreservation(b.order, b.boxes, declared), settled |-> TRUE]
  BY DEF Materialize
<1>2. Laid(b)
  BY <1>1, OperateIsLaid DEF LayoutInvariant, SceneIsShaped
<1>3. SceneIsShaped'
  BY <1>1, <1>2 DEF SceneIsShaped, Laid
<1>4. PICK kept : kept = captureLayoutPreservation(b.order, b.boxes, declared)
  OBVIOUS
<1>5. /\ batch'.made = b.boxes /\ batch'.declared = declared /\ batch'.kept = kept
      /\ {"moved", "made", "kept", "declared", "settled"} \subseteq DOMAIN batch'
  BY <1>1, <1>4
<1>6. b.boxes \in Scene(DOMAIN b.boxes) /\ b.order \in Seq(DOMAIN b.boxes)
  BY <1>2 DEF Laid
<1>7. KeepsComposition(b.boxes, b.boxes, kept, MaySpread(declared)) /\ Together(b.boxes, b.boxes, kept)
  BY <1>4, <1>6, CaptureIsKept
<1>8. CompositionIsKept'
  BY <1>1, <1>4, <1>5, <1>6, <1>7 DEF CompositionIsKept
<1>9. BatchType'
  BY <1>1, <1>5 DEF BatchType, Materialize
<1> QED BY <1>3, <1>8, <1>9 DEF LayoutInvariant

\* The edges of the plan join shapes.
LEMMA EdgesTyped ==
  ASSUME LayoutInvariant
  PROVE  \E S : Edges \in Seq(S) /\ \A e \in S : Joins(e, DOMAIN boxes)
<1>1. PICK places : places = {n \in DOMAIN arrows : {arrows[n].from, arrows[n].to} \subseteq DOMAIN boxes}
  OBVIOUS
<1>2. PICK S : S = {arrows[n] : n \in places}
  OBVIOUS
<1>3. Labelled(arrows) /\ arrows \in Seq(ToSet(arrows)) /\ places \in SUBSET DOMAIN arrows
  BY <1>1 DEF LayoutInvariant, SceneIsShaped, Labelled
<1>4. Edges = Picked(arrows, places)
  BY <1>1 DEF Edges, Only
<1>5. Edges \in Seq(S)
  BY <1>2, <1>3, <1>4, PickedIs
<1>6. \A e \in S : Joins(e, DOMAIN boxes)
  <2> SUFFICES ASSUME NEW n \in places PROVE Joins(arrows[n], DOMAIN boxes)
    BY <1>2
  <2>1. arrows[n].label \in [w: Nat, h: Nat]
    BY <1>3 DEF Labelled, HasLabel
  <2>2. arrows[n].label.w \in Int /\ arrows[n].label.h \in Int
    BY <2>1
  <2> QED BY <1>1, <2>2 DEF Joins
<1> QED BY <1>5, <1>6

\* A pass takes what protectLayoutMoves answers, if it proposes anything.
Answers(guarded, proposed, allowed, corridors) ==
  /\ guarded = IF proposed = boxes THEN [boxes |-> boxes, issues |-> {}, settled |-> TRUE]
               ELSE protectLayoutMoves(boxes, proposed, allowed, batch.kept, corridors)
  /\ boxes' = guarded.boxes
  /\ batch' = [batch EXCEPT !.moved = @ \cup {i \in DOMAIN boxes : guarded.boxes[i] # boxes[i]},
                            !.settled = @ /\ guarded.settled]
LEMMA MovesMade ==
  ASSUME NEW proposed, NEW allowed, NEW corridors, ApplyMoves(proposed, allowed, corridors)
  PROVE  \E guarded : Answers(guarded, proposed, allowed, corridors)
BY DEF ApplyMoves, Answers

\* What protectLayoutMoves lets through keeps the composition, whatever a pass proposes.
LEMMA ApplyMovesKeeps ==
  ASSUME LayoutInvariant, stage # "idle", NEW proposed \in Scene(DOMAIN boxes),
         NEW allowed, allowed \subseteq MaySpread(batch.declared), NEW corridors,
         ApplyMoves(proposed, allowed, corridors), UNCHANGED <<order, arrows>>,
         stage' \in {"overlap", "routing"}
  PROVE  LayoutInvariant'
<1>1. PICK ids, made, kept, free, declared :
        /\ ids = DOMAIN boxes /\ made = batch.made /\ kept = batch.kept /\ free = MaySpread(batch.declared)
        /\ declared = batch.declared
  OBVIOUS
<1>2. /\ boxes \in Scene(ids) /\ IsFiniteSet(ids) /\ made \in Scene(ids) /\ DOMAIN made = ids
      /\ KeepsComposition(boxes, made, kept, free)
      /\ kept.containers = <<>> \/ batch.settled => Together(boxes, made, kept)
  BY <1>1 DEF LayoutInvariant, SceneIsShaped, CompositionIsKept, BatchType
<1>3. PICK seq \in Seq(ids) : kept = captureLayoutPreservation(seq, made, declared)
  BY <1>1, <1>2 DEF LayoutInvariant, CompositionIsKept
<1>4. SoundRelations(declared)
  BY <1>1 DEF LayoutInvariant, BatchType
<1>5. Remembers(ids, kept)
  BY <1>2, <1>3, <1>4, CaptureIsKept
<1>6. PICK guarded : Answers(guarded, proposed, allowed, corridors)
  BY MovesMade
<1>7. /\ boxes' \in Scene(ids) /\ KeepsComposition(boxes', made, kept, free)
      /\ (kept.containers = <<>> \/ guarded.settled) /\ Together(boxes, made, kept) => Together(boxes', made, kept)
  <2>1. CASE proposed = boxes
    <3>1. boxes' = boxes
      BY <1>6, <2>1 DEF Answers
    <3> QED BY <1>2, <3>1
  <2>2. CASE proposed # boxes
    <3>1. guarded = protectLayoutMoves(boxes, proposed, allowed, kept, corridors)
      BY <1>1, <1>6, <2>2 DEF Answers
    <3>2. proposed \in Scene(ids) /\ allowed \subseteq free
      BY <1>1
    <3>3. /\ guarded.boxes \in Scene(ids) /\ KeepsComposition(guarded.boxes, made, kept, free)
          /\ (kept.containers = <<>> \/ guarded.settled) /\ Together(boxes, made, kept) =>
               Together(guarded.boxes, made, kept)
      BY <1>2, <1>5, <3>1, <3>2, ProtectedKeeps
    <3> QED BY <1>6, <3>3 DEF Answers
  <2> QED BY <2>1, <2>2
<1>8. DOMAIN boxes' = ids
  BY <1>7 DEF Scene
<1>9. /\ batch'.made = made /\ batch'.kept = kept /\ batch'.declared = declared
      /\ batch'.settled = (batch.settled /\ guarded.settled)
      /\ {"moved", "made", "kept", "declared", "settled"} \subseteq DOMAIN batch'
  BY <1>1, <1>6 DEF Answers, LayoutInvariant, BatchType
<1>10. SceneIsShaped'
  <2>1. order \in Seq(ids) /\ Labelled(arrows)
    BY <1>1 DEF LayoutInvariant, SceneIsShaped
  <2> QED BY <1>2, <1>7, <1>8, <2>1 DEF SceneIsShaped
<1>11. CompositionIsKept'
  <2>1. kept.containers = <<>> \/ batch'.settled => Together(boxes', made, kept)
    BY <1>2, <1>7, <1>9
  <2>2. KeepsComposition(boxes', made, kept, MaySpread(declared))
    BY <1>1, <1>7
  <2> QED BY <1>2, <1>3, <1>9, <2>1, <2>2 DEF CompositionIsKept
<1>12. BatchType'
  BY <1>2, <1>4, <1>8, <1>9 DEF BatchType
<1> QED BY <1>10, <1>11, <1>12 DEF LayoutInvariant

\* The two passes propose scenes of the same shapes, and move none they may not.
LEMMA SpacingKeeps == ASSUME LayoutInvariant, spacingPass PROVE LayoutInvariant'
<1>1. PICK S : Edges \in Seq(S) /\ \A e \in S : Joins(e, DOMAIN boxes)
  BY EdgesTyped
<1>2. PICK edges, ids, at : edges = Edges /\ ids = DOMAIN boxes /\ at = boxes
  OBVIOUS
<1>3. PICK corridors : corridors = Corridors(boxes, Edges, batch.declared)
  OBVIOUS
<1>4. corridors \in Seq(Corridor(ids))
  <2>1. edges \in Seq(S) /\ \A e \in S : Joins(e, ids)
    BY <1>1, <1>2
  <2>2. PICK relations : relations = batch.declared
    OBVIOUS
  <2>3. Corridors(at, edges, relations) \in Seq(Corridor(ids))
    BY <2>1, CorridorsTyped
  <2> QED BY <1>2, <1>3, <2>2, <2>3
<1>5. PICK flowNodes, movable : /\ flowNodes = Named(Of(batch.declared, "flow")) \cap DOMAIN boxes
                                /\ movable = MaySpace(batch.declared)
  OBVIOUS
<1>6. at \in Scene(ids) /\ IsFiniteSet(ids) /\ IsFiniteSet(flowNodes)
  BY <1>2, <1>5, FS_Subset DEF LayoutInvariant, SceneIsShaped
<1>7. PICK proposed : proposed = expandFlowSpacing(at, corridors, flowNodes, movable)
  OBVIOUS
<1>8. proposed \in Scene(ids)
  BY <1>4, <1>6, <1>7, SpacingTyped
<1>9. movable \subseteq MaySpread(batch.declared)
  BY <1>5 DEF MaySpace, MaySpread, Named
<1>10. ApplyMoves(proposed, movable, corridors)
  BY <1>2, <1>3, <1>5, <1>7 DEF spacingPass
<1>11. stage # "idle" /\ UNCHANGED <<order, arrows>> /\ stage' \in {"overlap", "routing"}
  BY DEF spacingPass
<1> QED BY <1>2, <1>8, <1>9, <1>10, <1>11, ApplyMovesKeeps

LEMMA AvoidKeeps == ASSUME LayoutInvariant, avoidPass PROVE LayoutInvariant'
<1>1. PICK ids, at, seq, movable, ignored :
        /\ ids = DOMAIN boxes /\ at = boxes /\ seq = order
        /\ movable = MaySpread(batch.declared) /\ ignored = batch.kept.ignored
  OBVIOUS
<1>2. at \in Scene(ids) /\ seq \in Seq(ids)
  BY <1>1 DEF LayoutInvariant, SceneIsShaped
<1>3. PICK proposed : proposed = ResolveOverlaps(seq, at, movable, ignored)
  OBVIOUS
<1>4. proposed \in Scene(ids)
  BY <1>2, <1>3, OverlapsTyped
<1>5. PICK corridors : corridors = Corridors(boxes, Edges, batch.declared)
  OBVIOUS
<1>6. ApplyMoves(proposed, movable, corridors)
  BY <1>1, <1>3, <1>5 DEF avoidPass
<1>7. stage # "idle" /\ UNCHANGED <<order, arrows>> /\ stage' \in {"overlap", "routing"}
  BY DEF avoidPass
<1> QED BY <1>1, <1>4, <1>6, <1>7, ApplyMovesKeeps

\* The routes leave the shapes alone.
LEMMA RoutingKeeps == ASSUME LayoutInvariant, arrowPass PROVE LayoutInvariant'
<1>1. arrows' = RouteAll.done.arrows /\ UNCHANGED <<order, boxes, batch>> /\ stage' = "idle"
  BY DEF arrowPass
<1>2. Labelled(RouteAll.done.arrows)
  <2>1. PICK S : Edges \in Seq(S)
    BY EdgesTyped
  <2>2. Len(Edges) \in Nat /\ DOMAIN Edges = 1..Len(Edges)
    BY <2>1
  <2> QED BY <2>2, RouteAllLabels DEF LayoutInvariant, SceneIsShaped
<1>3. SceneIsShaped'
  BY <1>1, <1>2 DEF LayoutInvariant, SceneIsShaped
<1>4. CompositionIsKept'
  BY <1>1 DEF LayoutInvariant, CompositionIsKept
<1>5. BatchType'
  BY <1>1 DEF LayoutInvariant, BatchType
<1> QED BY <1>3, <1>4, <1>5 DEF LayoutInvariant

\* Every step keeps the invariant.
LEMMA StepKeeps == ASSUME LayoutInvariant, [LayoutNext]_layoutVars PROVE LayoutInvariant'
<1>1. ASSUME NEW b \in IF batch.number = 0 THEN Openings ELSE Batches, Materialize(b.ops, b.declared)
      PROVE  LayoutInvariant'
  <2>1. b \in Openings \cup Batches
    OBVIOUS
  <2>2. SoundOperations(b.ops) /\ SoundRelations(b.declared)
    BY <2>1, LayoutAssumption DEF SoundOperations, SoundRelations
  <2> QED BY <1>1, <2>2, MaterializeKeeps
<1>2. CASE UNCHANGED layoutVars
  BY <1>2 DEF layoutVars, LayoutInvariant, SceneIsShaped, CompositionIsKept, BatchType
<1> QED BY <1>1, <1>2, SpacingKeeps, AvoidKeeps, RoutingKeeps DEF LayoutNext

\* The scene stays one of shapes, and the passes keep the composition that
\* captureLayoutPreservation saw before the first of them; its rows and columns as wholes only
\* when there are no containers or the shifts settled in the passes they get.
THEOREM LayoutInvariantHolds == LayoutSpec => []LayoutInvariant
<1>1. LayoutInit => LayoutInvariant
  BY StartsKept
<1>2. LayoutInvariant /\ [LayoutNext]_layoutVars => LayoutInvariant'
  BY StepKeeps
<1> QED BY <1>1, <1>2, PTL DEF LayoutSpec

\* The repair passes never move a shape the declared structure does not free, turn two shapes
\* around, empty a container or push shapes into each other (protectLayoutMoves,
\* src/canvas/layoutPreservation.ts), whatever is proposed.  They pull no row or column apart
\* when there are no containers, or when the last pass of either repair changed nothing; in
\* general they may (RowsStayWhole).
THEOREM RepairsKeepComposition == LayoutSpec => []RepairKeepsComposition
<1>1. LayoutInvariant => RepairKeepsComposition
  BY KeepsOfRepair
<1> QED BY <1>1, LayoutInvariantHolds, PTL

-----------------------------------------------------------------------------
(* Where an arrow meets a shape.                                           *)

\* Division leaves less than the divisor.
LEMMA DivisionIs ==
  ASSUME NEW n \in Nat, NEW d \in Nat \ {0}
  PROVE  n \div d \in Nat /\ d * (n \div d) <= n /\ n < d * (n \div d) + d
  OBVIOUS

\* Multiplying keeps the order.
LEMMA ProductGrows ==
  ASSUME NEW a \in Nat, NEW b \in Nat, NEW c \in Nat, a <= b
  PROVE  a * c \in Nat /\ b * c \in Nat /\ a * c <= b * c
  OBVIOUS

\* A quotient is at most m when the product is, and at least m when the product is.
LEMMA DivisionBounds ==
  ASSUME NEW n \in Nat, NEW d \in Nat \ {0}, NEW m \in Nat
  PROVE  (n <= m * d => n \div d <= m) /\ (m * d <= n => m <= n \div d)
<1>1. PICK q \in Nat : q = n \div d /\ d * q <= n /\ n < d * q + d
  BY DivisionIs
<1>2. ASSUME n <= m * d PROVE q <= m
  <2>1. SUFFICES ASSUME m + 1 <= q PROVE FALSE
    OBVIOUS
  <2>2. (m + 1) * d <= q * d
    BY <2>1, ProductGrows
  <2>3. (m + 1) * d = m * d + d /\ q * d = d * q
    OBVIOUS
  <2>4. m * d \in Nat /\ d * q \in Nat
    OBVIOUS
  <2> QED BY <1>1, <1>2, <2>2, <2>3, <2>4
<1>3. ASSUME m * d <= n PROVE m <= q
  <2>1. SUFFICES ASSUME q + 1 <= m PROVE FALSE
    OBVIOUS
  <2>2. (q + 1) * d <= m * d
    BY <2>1, ProductGrows
  <2>3. (q + 1) * d = d * q + d
    OBVIOUS
  <2>4. m * d \in Nat /\ d * q \in Nat
    OBVIOUS
  <2> QED BY <1>1, <1>3, <2>2, <2>3, <2>4
<1> QED BY <1>1, <1>2, <1>3

LEMMA QuotientTyped ==
  ASSUME NEW n \in Int, NEW d \in Nat \ {0}
  PROVE  Quotient(n, d) \in Int
<1>1. CASE n < 0
  <2>1. PICK m \in Nat : m = -n
    BY <1>1
  <2>2. m \div d \in Nat
    BY DivisionIs
  <2> QED BY <1>1, <2>1, <2>2 DEF Quotient
<1>2. CASE ~(n < 0)
  <2>1. n \in Nat
    BY <1>2
  <2>2. n \div d \in Nat
    BY <2>1, DivisionIs
  <2> QED BY <1>2, <2>2 DEF Quotient
<1> QED BY <1>1, <1>2

\* A number scaled by x/d, at most 1, stays on its side of zero and is not longer than it was.
LEMMA ScaledIs ==
  ASSUME NEW u \in Int, NEW x \in Nat, NEW d \in Nat \ {0}, x <= d
  PROVE  LET q == Quotient(u * x, d)
         IN /\ q \in Int
            /\ u >= 0 => 0 <= q /\ q <= u
            /\ u <= 0 => u <= q /\ q <= 0
            /\ \A y \in Nat : y * d <= x * Distance(0, u) => y <= Distance(0, q)
<1>1. PICK q : q = Quotient(u * x, d)
  OBVIOUS
<1>2. u * x \in Int
  OBVIOUS
<1>3. q \in Int
  BY <1>1, <1>2, QuotientTyped
<1>4. CASE u >= 0
  <2>1. u \in Nat
    BY <1>4
  <2>2. u * x \in Nat /\ u * x <= u * d
    BY <2>1, ProductGrows
  <2>3. q = (u * x) \div d
    BY <1>1, <2>2 DEF Quotient
  <2>4. q \in Nat /\ q <= u
    BY <2>1, <2>2, <2>3, DivisionIs, DivisionBounds
  <2>5. ASSUME NEW y \in Nat, y * d <= x * Distance(0, u) PROVE y <= Distance(0, q)
    <3>1. Distance(0, u) = u /\ Distance(0, q) = q
      BY <1>4, <2>4 DEF Distance
    <3>2. x * u = u * x
      BY <2>1
    <3>3. y * d <= u * x
      BY <2>5, <3>1, <3>2
    <3> QED BY <2>2, <2>3, <3>1, <3>3, DivisionBounds
  <2>6. u <= 0 => u <= q /\ q <= 0
    BY <1>4, <2>4
  <2> QED BY <1>1, <1>3, <2>4, <2>5, <2>6
<1>5. CASE u < 0
  <2>1. PICK v \in Nat : v = -u /\ u = -v /\ v # 0
    BY <1>5
  <2>2. v * x \in Nat /\ v * x <= v * d
    BY <2>1, ProductGrows
  <2>3. u * x = -(v * x)
    BY <2>1
  <2>4. PICK m \in Nat : m = v * x
    BY <2>2
  <2>5. q = -(m \div d)
    <3>1. CASE m = 0
      <4>1. u * x = 0 /\ 0 \div d = 0
        <5>1. 0 \div d = 0
          <6>1. 0 \div d \in Nat /\ 0 \div d <= 0
            <7>1. 0 <= 0 * d
              OBVIOUS
            <7> QED BY <7>1, DivisionIs, DivisionBounds
          <6> QED BY <6>1
        <5> QED BY <2>3, <2>4, <3>1, <5>1
      <4> QED BY <1>1, <3>1, <4>1 DEF Quotient
    <3>2. CASE m # 0
      <4>1. u * x = -m /\ -m < 0 /\ -(-m) = m
        BY <2>3, <2>4, <3>2
      <4> QED BY <1>1, <4>1 DEF Quotient
    <3> QED BY <3>1, <3>2
  <2>6. PICK k \in Nat : k = m \div d /\ k <= v
    BY <2>2, <2>4, DivisionIs, DivisionBounds
  <2>7. ASSUME NEW y \in Nat, y * d <= x * Distance(0, u) PROVE y <= Distance(0, q)
    <3>1. Distance(0, u) = v /\ Distance(0, q) = k
      BY <1>5, <2>1, <2>5, <2>6 DEF Distance
    <3>2. x * v = v * x
      OBVIOUS
    <3>3. y * d <= m
      BY <2>4, <2>7, <3>1, <3>2
    <3> QED BY <2>6, <3>1, <3>3, DivisionBounds
  <2>8. u <= q /\ q <= 0 /\ ~(u >= 0)
    BY <2>1, <2>5, <2>6, <1>5
  <2> QED BY <1>1, <1>3, <2>7, <2>8
<1> QED BY <1>4, <1>5

Point == [x: Int, y: Int]
Focus == -60..60
\* A point of a box, its sides included, and strictly within them.
Within(box, p) == /\ box.x <= p.x /\ p.x <= box.x + box.w
                  /\ box.y <= p.y /\ p.y <= box.y + box.h
Inside(box, p) == /\ box.x < p.x /\ p.x < box.x + box.w
                  /\ box.y < p.y /\ p.y < box.y + box.h

\* Along one axis: from a, outside of left..right or on its sides, to a point c inside,
\* the side that is met lies at most as far as c.
Side(a, left, right) == IF a <= left THEN left ELSE right
LEMMA SideIs ==
  ASSUME NEW a \in Int, NEW left \in Int, NEW right \in Int, NEW c \in Int, left < c, c < right
  PROVE  /\ Side(a, left, right) \in Int /\ left <= Side(a, left, right) /\ Side(a, left, right) <= right
         /\ Distance(a, Side(a, left, right)) \in Nat
         /\ a <= left \/ a >= right =>
              /\ Distance(0, c - a) \in Nat \ {0}
              /\ Distance(a, Side(a, left, right)) <= Distance(0, c - a)
  BY DEF Side, Distance

\* A step from a towards c, not longer than the way and, from outside, as long as to the side,
\* ends in left..right.
LEMMA StepIs ==
  ASSUME NEW a \in Int, NEW left \in Int, NEW right \in Int, NEW c \in Int, left < c, c < right, NEW q \in Int,
         c - a >= 0 => 0 <= q /\ q <= c - a, c - a <= 0 => c - a <= q /\ q <= 0,
         a <= left \/ a >= right => Distance(a, Side(a, left, right)) <= Distance(0, q)
  PROVE  a + q \in Int /\ left <= a + q /\ a + q <= right
  BY DEF Side, Distance

\* Both axes: a goes to the side of the first axis, and b along by the same part of its way.
LEMMA CrossingIs ==
  ASSUME NEW a \in Int, NEW left \in Int, NEW right \in Int, NEW c \in Int, left < c, c < right,
         NEW b \in Int, NEW top \in Int, NEW bottom \in Int, NEW d \in Int, top < d, d < bottom,
         a <= left \/ a >= right,
         b <= top \/ b >= bottom =>
           Distance(b, Side(b, top, bottom)) * Distance(0, c - a) <= Distance(a, Side(a, left, right)) * Distance(0, d - b)
  PROVE  LET q == Quotient((d - b) * Distance(a, Side(a, left, right)), Distance(0, c - a))
         IN b + q \in Int /\ top <= b + q /\ b + q <= bottom
<1>1. PICK u \in Int, x \in Nat, e \in Nat \ {0} :
        u = d - b /\ x = Distance(a, Side(a, left, right)) /\ e = Distance(0, c - a) /\ x <= e
  <2>1. /\ Distance(a, Side(a, left, right)) \in Nat /\ Distance(0, c - a) \in Nat \ {0}
        /\ Distance(a, Side(a, left, right)) <= Distance(0, c - a)
    BY SideIs
  <2>2. d - b \in Int
    OBVIOUS
  <2> QED BY <2>1, <2>2
<1>2. PICK q : q = Quotient(u * x, e)
  OBVIOUS
<1>3. /\ q \in Int /\ (u >= 0 => 0 <= q /\ q <= u) /\ (u <= 0 => u <= q /\ q <= 0)
      /\ \A y \in Nat : y * e <= x * Distance(0, u) => y <= Distance(0, q)
  BY <1>1, <1>2, ScaledIs
<1>4. Distance(b, Side(b, top, bottom)) \in Nat
  BY SideIs
<1>5. b <= top \/ b >= bottom => Distance(b, Side(b, top, bottom)) <= Distance(0, q)
  BY <1>1, <1>3, <1>4
<1>6. b + q \in Int /\ top <= b + q /\ b + q <= bottom
  BY <1>1, <1>3, <1>5, StepIs
<1> QED BY <1>1, <1>2, <1>6

LEMMA PointIs == ASSUME NEW x \in Int, NEW y \in Int
                 PROVE  Place(x, y) \in Point /\ Place(x, y).x = x /\ Place(x, y).y = y
  BY DEF Place, Point

\* The crossing is on the outline, or the aim itself.
LEMMA FirstCrossingIs ==
  ASSUME NEW outline, Measured(outline), NEW aim \in Point, Inside(outline, aim), NEW adjacent \in Point
  PROVE  FirstCrossing(outline, aim, adjacent) \in Point /\ Within(outline, FirstCrossing(outline, aim, adjacent))
<1>1. PICK a \in Int, b \in Int, c \in Int, d \in Int :
        adjacent.x = a /\ adjacent.y = b /\ aim.x = c /\ aim.y = d
  BY DEF Point
<1>2. PICK left \in Int, right \in Int, top \in Int, bottom \in Int :
        /\ left = outline.x /\ right = outline.x + outline.w /\ top = outline.y /\ bottom = outline.y + outline.h
        /\ left < c /\ c < right /\ top < d /\ d < bottom
  BY <1>1 DEF Measured, Inside
<1>3. PICK sideX \in Int, sideY \in Int, x \in Nat, y \in Nat :
        /\ sideX = Side(a, left, right) /\ sideY = Side(b, top, bottom)
        /\ x = Distance(a, sideX) /\ y = Distance(b, sideY)
        /\ left <= sideX /\ sideX <= right /\ top <= sideY /\ sideY <= bottom
  <2>1. /\ Side(a, left, right) \in Int /\ Distance(a, Side(a, left, right)) \in Nat
        /\ left <= Side(a, left, right) /\ Side(a, left, right) <= right
    BY <1>2, SideIs
  <2>2. /\ Side(b, top, bottom) \in Int /\ Distance(b, Side(b, top, bottom)) \in Nat
        /\ top <= Side(b, top, bottom) /\ Side(b, top, bottom) <= bottom
    BY <1>2, SideIs
  <2> QED BY <2>1, <2>2
<1>4. PICK outX \in BOOLEAN, outY \in BOOLEAN : /\ outX <=> a <= left \/ a >= right
                                                /\ outY <=> b <= top \/ b >= bottom
  OBVIOUS
<1>5. Minus(aim, adjacent).x = c - a /\ Minus(aim, adjacent).y = d - b
  BY <1>1 DEF Minus, Place
<1>6. PICK p : p = FirstCrossing(outline, aim, adjacent)
  OBVIOUS
<1>7. p = CASE ~outX /\ ~outY -> aim
            [] outX /\ (outY => x * Distance(0, d - b) >= y * Distance(0, c - a)) ->
                 Place(sideX, b + Quotient((d - b) * x, Distance(0, c - a)))
            [] OTHER -> Place(a + Quotient((c - a) * y, Distance(0, d - b)), sideY)
  BY <1>1, <1>2, <1>3, <1>4, <1>5, <1>6 DEF FirstCrossing, Side
<1>8. PICK first \in BOOLEAN : first <=> (outY => x * Distance(0, d - b) >= y * Distance(0, c - a))
  OBVIOUS
<1>9. PICK u : u = b + Quotient((d - b) * x, Distance(0, c - a))
  OBVIOUS
<1>10. PICK v : v = a + Quotient((c - a) * y, Distance(0, d - b))
  OBVIOUS
<1>11. p = CASE ~outX /\ ~outY -> aim [] outX /\ first -> Place(sideX, u) [] OTHER -> Place(v, sideY)
  BY <1>7, <1>8, <1>9, <1>10
<1>12. Distance(0, d - b) \in Nat /\ Distance(0, c - a) \in Nat
  BY DEF Distance
<1>13. CASE ~outX /\ ~outY
  BY <1>1, <1>2, <1>6, <1>11, <1>13 DEF Within
<1>14. CASE outX /\ first
  <2>1. PICK m \in Int, n \in Int : m = x * Distance(0, d - b) /\ n = y * Distance(0, c - a)
    BY <1>12
  <2>2. outY => n <= m
    BY <1>8, <1>14, <2>1
  <2>3. u \in Int /\ top <= u /\ u <= bottom
    <3>1. b <= top \/ b >= bottom =>
            Distance(b, Side(b, top, bottom)) * Distance(0, c - a) <= Distance(a, Side(a, left, right)) * Distance(0, d - b)
      BY <1>3, <1>4, <2>1, <2>2
    <3>2. a <= left \/ a >= right
      BY <1>4, <1>14
    <3>3. PICK q : q = Quotient((d - b) * Distance(a, Side(a, left, right)), Distance(0, c - a))
      OBVIOUS
    <3>4. b + q \in Int /\ top <= b + q /\ b + q <= bottom
      BY <1>2, <3>1, <3>2, <3>3, CrossingIs
    <3>5. u = b + q
      BY <1>3, <1>9, <3>3
    <3> QED BY <3>4, <3>5
  <2>4. p = Place(sideX, u)
    BY <1>11, <1>14
  <2> QED BY <1>2, <1>3, <1>6, <2>3, <2>4, PointIs DEF Within
<1>15. CASE ~(~outX /\ ~outY) /\ ~(outX /\ first)
  <2>1. PICK m \in Int, n \in Int : m = x * Distance(0, d - b) /\ n = y * Distance(0, c - a)
    BY <1>12
  <2>2. outY /\ (outX => m <= n)
    BY <1>8, <1>15, <2>1
  <2>3. v \in Int /\ left <= v /\ v <= right
    <3>1. a <= left \/ a >= right =>
            Distance(a, Side(a, left, right)) * Distance(0, d - b) <= Distance(b, Side(b, top, bottom)) * Distance(0, c - a)
      BY <1>3, <1>4, <2>1, <2>2
    <3>2. b <= top \/ b >= bottom
      BY <1>4, <2>2
    <3>3. PICK q : q = Quotient((c - a) * Distance(b, Side(b, top, bottom)), Distance(0, d - b))
      OBVIOUS
    <3>4. a + q \in Int /\ left <= a + q /\ a + q <= right
      BY <1>2, <3>1, <3>2, <3>3, CrossingIs
    <3>5. v = a + q
      BY <1>3, <1>10, <3>3
    <3> QED BY <3>4, <3>5
  <2>4. p = Place(v, sideY)
    BY <1>11, <1>15
  <2> QED BY <1>2, <1>3, <1>6, <2>3, <2>4, PointIs DEF Within
<1> QED BY <1>13, <1>14, <1>15

\* Part of the way from the middle of a side to one of its ends stays on it.
LEMMA PartIs ==
  ASSUME NEW from \in Int, NEW length \in Nat, NEW end \in Int, end = from \/ end = from + length, NEW f \in 0..60,
         NEW part, part = Quotient(f * (end - (from + Half(length))), 100)
  PROVE  LET at == from + Half(length) + part IN at \in Int /\ from <= at /\ at <= from + length
<1>1. PICK middle \in Int : middle = from + Half(length) /\ from <= middle /\ middle <= from + length
  BY DEF Half
<1>2. PICK u \in Int : u = end - middle
  BY <1>1
<1>3. PICK q : q = Quotient(u * f, 100)
  OBVIOUS
<1>6. q = part
  <2>1. f * u = u * f
    OBVIOUS
  <2> QED BY <1>1, <1>2, <1>3, <2>1
<1>4. q \in Int /\ (u >= 0 => 0 <= q /\ q <= u) /\ (u <= 0 => u <= q /\ q <= 0)
  <2>1. PICK d : d = 100
    OBVIOUS
  <2>2. f \in Nat /\ d \in Nat \ {0} /\ f <= d
    BY <2>1
  <2>3. q = Quotient(u * f, d)
    BY <1>3, <2>1
  <2> QED BY <2>2, <2>3, ScaledIs
<1>5. middle + q \in Int /\ from <= middle + q /\ middle + q <= from + length
  BY <1>1, <1>2, <1>4
<1> QED BY <1>1, <1>6, <1>5

\* An arrow aims at a point of the shape.
LEMMA TowardsIs ==
  ASSUME NEW box \in ShapeBox, NEW focus \in Focus, NEW k
  PROVE  Towards(box, focus, k) \in Point /\ Within(box, Towards(box, focus, k))
<1>1. PICK left \in Int, top \in Int, w \in Nat, h \in Nat : box.x = left /\ box.y = top /\ box.w = w /\ box.h = h
  BY DEF ShapeBox
<1>2. PICK x, y : x = Corner(box, k).x /\ y = Corner(box, k).y
  OBVIOUS
<1>3. x \in Int /\ (x = left \/ x = left + w) /\ y \in Int /\ (y = top \/ y = top + h)
  BY <1>1, <1>2 DEF Corner, Place
<1>4. Distance(0, focus) \in 0..60
  BY DEF Distance, Focus
<1>5. PICK f : f = Distance(0, focus) /\ f \in 0..60
  BY <1>4
<1>10. PICK partX, partY : /\ partX = Quotient(f * (x - (left + Half(w))), 100)
                           /\ partY = Quotient(f * (y - (top + Half(h))), 100)
  OBVIOUS
<1>6. PICK atX, atY : atX = left + Half(w) + partX /\ atY = top + Half(h) + partY
  OBVIOUS
<1>7. Towards(box, focus, k) = Place(atX, atY)
  BY <1>1, <1>2, <1>5, <1>6, <1>10 DEF Towards, Plus, Minus, Centre, Place
<1>8. atX \in Int /\ left <= atX /\ atX <= left + w
  BY <1>3, <1>5, <1>6, <1>10, PartIs
<1>9. atY \in Int /\ top <= atY /\ atY <= top + h
  BY <1>3, <1>5, <1>6, <1>10, PartIs
<1> QED BY <1>1, <1>7, <1>8, <1>9, PointIs DEF Within

LEMMA FocusPointIs ==
  ASSUME NEW box \in ShapeBox, NEW focus \in Focus, NEW adjacent
  PROVE  /\ determineFocusPoint(box, focus, adjacent) \in Point
         /\ Inside(Grown(box, GAP), determineFocusPoint(box, focus, adjacent))
<1>1. PICK p : p = determineFocusPoint(box, focus, adjacent)
  OBVIOUS
<1>2. p \in Point /\ Within(box, p)
  <2>1. CASE focus = 0
    <3>1. p = Centre(box)
      BY <1>1, <2>1 DEF determineFocusPoint
    <3> QED BY <3>1 DEF Centre, Place, Half, Point, Within, ShapeBox
  <2>2. CASE focus # 0
    <3>1. PICK k : p = Towards(box, focus, k)
      BY <1>1, <2>2 DEF determineFocusPoint
    <3> QED BY <3>1, TowardsIs
  <2> QED BY <2>1, <2>2
<1>3. Inside(Grown(box, GAP), p)
  BY <1>2 DEF Inside, Within, Grown, GAP, ShapeBox, Point
<1> QED BY <1>1, <1>2, <1>3

\* An end of an arrow lies on the shape or within GAP of it.
Reaches(box, p) == p \in Point /\ Within(Grown(box, GAP), p)
LEMMA EndpointIs ==
  ASSUME NEW box \in ShapeBox, NEW focus \in Focus, NEW adjacent \in Point
  PROVE  Reaches(box, solveEndpoint(box, focus, adjacent))
<1>1. Measured(Grown(box, GAP))
  BY DEF Measured, Grown, GAP, ShapeBox
<1> QED BY <1>1, FocusPointIs, FirstCrossingIs DEF solveEndpoint, Reaches

Foci == [start: Focus, end: Focus]
EndsStep(a, b, c, acc, x) == EndsRound(a, b, c, acc)
Solving == INSTANCE Stepwise WITH Step <- EndsStep

\* So do both, wherever the search for them starts.
LEMMA EndpointsAre ==
  ASSUME NEW from \in ShapeBox, NEW to \in ShapeBox, NEW focus \in Foci, NEW start \in Point, NEW end \in Point
  PROVE  LET ends == solveArrowEndpoints(from, to, focus, start, end)
         IN ends = <<ends[1], ends[2]>> /\ Reaches(from, ends[1]) /\ Reaches(to, ends[2])
<1>1. PICK rounds : rounds = <<1, 2, 3>>
  OBVIOUS
<1>2. Len(rounds) = 3
  BY <1>1
<1>3. solveArrowEndpoints(from, to, focus, start, end) = Solving!Result(from, to, focus, <<start, end>>, rounds)
  BY <1>1 DEF solveArrowEndpoints, Through, EndsStep, Solving!Result, Solving!Walk, Solving!Once
<1>12. Len(rounds) \in Nat
  BY <1>2
<1>4. PICK f : /\ Solving!Goes(f, from, to, focus, <<start, end>>, rounds, Len(rounds))
               /\ Solving!Result(from, to, focus, <<start, end>>, rounds) = f[Len(rounds)]
  BY <1>12, Solving!ResultIs
<1>5. f[0] = <<start, end>> /\ \A n \in 1..3 : f[n] = EndsRound(from, to, focus, f[n - 1])
  BY <1>2, <1>4 DEF Solving!Goes, EndsStep
<1>6. ASSUME NEW ends, ends[2] \in Point
      PROVE  LET next == EndsRound(from, to, focus, ends)
             IN next = <<next[1], next[2]>> /\ Reaches(from, next[1]) /\ Reaches(to, next[2])
  <2>1. focus.start \in Focus /\ focus.end \in Focus
    BY DEF Foci
  <2>2. PICK s : s = solveEndpoint(from, focus.start, ends[2])
    OBVIOUS
  <2>3. Reaches(from, s)
    BY <1>6, <2>1, <2>2, EndpointIs
  <2>4. PICK e : e = solveEndpoint(to, focus.end, s)
    OBVIOUS
  <2>5. Reaches(to, e)
    BY <2>1, <2>3, <2>4, EndpointIs DEF Reaches
  <2>6. EndsRound(from, to, focus, ends) = <<s, e>>
    BY <2>2, <2>4 DEF EndsRound
  <2> QED BY <2>3, <2>5, <2>6
<1>7. f[1] = EndsRound(from, to, focus, f[0]) /\ f[2] = EndsRound(from, to, focus, f[1]) /\ f[3] = EndsRound(from, to, focus, f[2])
  BY <1>5
<1>8. f[0][2] \in Point
  BY <1>5
<1>9. f[1][2] \in Point
  BY <1>6, <1>7, <1>8 DEF Reaches
<1>10. f[2][2] \in Point
  BY <1>6, <1>7, <1>9 DEF Reaches
<1>11. f[3] = <<f[3][1], f[3][2]>> /\ Reaches(from, f[3][1]) /\ Reaches(to, f[3][2])
  BY <1>6, <1>7, <1>10
<1> QED BY <1>2, <1>3, <1>4, <1>11

-----------------------------------------------------------------------------
(* Paths: what is done to the points between them keeps both ends.         *)

Path == {points \in Seq(Point) : Len(points) >= 2}
Leads(points, first, last) ==
  points \in Seq(Point) /\ Len(points) >= 1 /\ points[1] = first /\ points[Len(points)] = last

LEMMA LongerLeads ==
  ASSUME NEW out, NEW first, NEW last, Leads(out, first, last), NEW p \in Point
  PROVE  Leads(Append(out, p), first, p)
<1>1. PICK longer : longer = Append(out, p)
  OBVIOUS
<1>2. out \in Seq(Point) /\ Len(out) \in Nat /\ Len(out) >= 1 /\ out[1] = first
  BY DEF Leads
<1>3. longer \in Seq(Point) /\ Len(longer) = Len(out) + 1 /\ longer[Len(out) + 1] = p /\ longer[1] = out[1]
  BY <1>1, <1>2
<1> QED BY <1>1, <1>2, <1>3 DEF Leads

LEMMA FirstLeads == ASSUME NEW p \in Point PROVE Leads(Append(<<>>, p), p, p)
<1>1. Append(<<>>, p) = <<p>>
  OBVIOUS
<1>2. <<p>> \in Seq(Point) /\ Len(<<p>>) = 1 /\ <<p>>[1] = p
  OBVIOUS
<1> QED BY <1>1, <1>2 DEF Leads

LEMMA UndoubledLeads ==
  ASSUME NEW out, NEW p \in Point
  PROVE  /\ Leads(Undoubled(<<>>, p), p, p)
         /\ \A first, last : Leads(out, first, last) => Leads(Undoubled(out, p), first, p)
<1>1. Undoubled(<<>>, p) = Append(<<>>, p)
  BY DEF Undoubled
<1>2. ASSUME NEW first, NEW last, Leads(out, first, last) PROVE Leads(Undoubled(out, p), first, p)
  <2>1. out \in Seq(Point) /\ Len(out) >= 1 /\ out[Len(out)] = last
    BY <1>2 DEF Leads
  <2>2. out # <<>> /\ Last(out) = last
    BY <2>1 DEF Last
  <2>3. CASE last = p
    <3>1. Undoubled(out, p) = out
      BY <2>2, <2>3 DEF Undoubled
    <3> QED BY <1>2, <2>3, <3>1
  <2>4. CASE last # p
    <3>1. Undoubled(out, p) = Append(out, p)
      BY <2>2, <2>4 DEF Undoubled
    <3> QED BY <1>2, <3>1, LongerLeads
  <2> QED BY <2>3, <2>4
<1> QED BY <1>1, <1>2, FirstLeads

LEMMA StraightenedLeads ==
  ASSUME NEW out, NEW p \in Point
  PROVE  /\ Leads(Straightened(<<>>, p), p, p)
         /\ \A first, last : Leads(out, first, last) => Leads(Straightened(out, p), first, p)
<1>1. ASSUME NEW points, points \in Seq(Point)
      PROVE  \E m \in 0..Len(points) : /\ Straightened(points, p) = Append(SubSeq(points, 1, m), p)
                                       /\ Len(points) >= 1 => m >= 1
  <2>1. PICK K : K = {k \in 0..Len(points) : Turns(points, p, k)}
    OBVIOUS
  <2>2. Len(points) \in Nat
    BY <1>1
  <2>3. K \in SUBSET Int /\ IsFiniteSet(K) /\ K \subseteq 0..Len(points)
    <3>1. IsFiniteSet(0..Len(points))
      BY <2>2, FS_Interval
    <3> QED BY <2>1, <2>2, <3>1, FS_Subset
  <2>4. 0 \in K /\ (Len(points) >= 1 => 1 \in K)
    BY <2>1, <2>2 DEF Turns
  <2>5. PICK m : m = Max(K)
    OBVIOUS
  <2>6. m \in K /\ \A n \in K : n <= m
    BY <2>3, <2>4, <2>5, MaxIs
  <2>7. Straightened(points, p) = Append(SubSeq(points, 1, m), p)
    BY <2>1, <2>5 DEF Straightened
  <2> QED BY <2>3, <2>4, <2>6, <2>7
<1>2. Leads(Straightened(<<>>, p), p, p)
  <2>0. <<>> \in Seq(Point) /\ Len(<<>>) = 0
    BY EmptySeq
  <2>1. PICK none : none = <<>> /\ none \in Seq(Point) /\ Len(none) = 0
    BY <2>0
  <2>2. PICK m \in 0..0 : Straightened(none, p) = Append(SubSeq(none, 1, m), p)
    BY <1>1, <2>1
  <2>3. SubSeq(none, 1, 0) = <<>>
    BY <2>1
  <2>4. m = 0
    BY <2>2
  <2> QED BY <2>1, <2>2, <2>3, <2>4, FirstLeads
<1>3. ASSUME NEW first, NEW last, Leads(out, first, last) PROVE Leads(Straightened(out, p), first, p)
  <2>1. out \in Seq(Point) /\ Len(out) \in Nat /\ Len(out) >= 1 /\ out[1] = first
    BY <1>3 DEF Leads
  <2>2. PICK m \in 1..Len(out) : Straightened(out, p) = Append(SubSeq(out, 1, m), p)
    BY <1>1, <2>1
  <2>3. PICK front : front = SubSeq(out, 1, m)
    OBVIOUS
  <2>4. front \in Seq(Point) /\ Len(front) = m /\ front[1] = out[1] /\ front[m] = out[m]
    BY <2>1, <2>2, <2>3
  <2>5. Leads(front, first, out[m])
    BY <2>1, <2>2, <2>4 DEF Leads
  <2> QED BY <2>2, <2>3, <2>5, LongerLeads
<1> QED BY <1>2, <1>3

UndoubleStep(a, b, c, acc, x) == Undoubled(acc, x)
Undoubling == INSTANCE Stepwise WITH Step <- UndoubleStep
StraightenStep(a, b, c, acc, x) == Straightened(acc, x)
Straightening == INSTANCE Stepwise WITH Step <- StraightenStep

LEMMA DistinctLeads ==
  ASSUME NEW points \in Seq(Point), Len(points) >= 1
  PROVE  Leads(Distinct(points), points[1], points[Len(points)])
<1>1. Distinct(points) = Undoubling!Result(0, 0, 0, <<>>, points)
  BY DEF Distinct, Through, UndoubleStep, Undoubling!Result, Undoubling!Walk, Undoubling!Once
<1>2. Len(points) \in Nat /\ \A n \in 1..Len(points) : points[n] \in Point
  OBVIOUS
<1>3. PICK f : /\ Undoubling!Goes(f, 0, 0, 0, <<>>, points, Len(points))
               /\ Undoubling!Result(0, 0, 0, <<>>, points) = f[Len(points)]
  BY <1>2, Undoubling!ResultIs
<1>4. f[0] = <<>> /\ \A n \in 1..Len(points) : f[n] = Undoubled(f[n - 1], points[n])
  BY <1>3 DEF Undoubling!Goes, UndoubleStep
<1>5. PICK S : S = {n \in 0..Len(points) - 1 : Leads(f[n + 1], points[1], points[n + 1])}
  OBVIOUS
<1>6. 0 \in S
  <2>1. 1 \in 1..Len(points) /\ 1 - 1 = 0
    BY <1>2
  <2>2. f[1] = Undoubled(<<>>, points[1]) /\ points[1] \in Point
    BY <1>2, <1>4, <2>1
  <2>3. Leads(f[1], points[1], points[1])
    BY <2>2, UndoubledLeads
  <2> QED BY <1>2, <1>5, <2>3
<1>7. ASSUME NEW n \in 0..(Len(points) - 1) - 1, n \in S PROVE n + 1 \in S
  <2>1. n + 2 \in 1..Len(points) /\ n + 2 - 1 = n + 1 /\ (n + 1) + 1 = n + 2 /\ n + 1 \in 0..Len(points) - 1
    BY <1>2
  <2>2. f[n + 2] = Undoubled(f[n + 1], points[n + 2]) /\ points[n + 2] \in Point
    BY <1>2, <1>4, <2>1
  <2>3. Leads(f[n + 1], points[1], points[n + 1])
    BY <1>5, <1>7
  <2>4. Leads(f[n + 2], points[1], points[n + 2])
    BY <2>2, <2>3, UndoubledLeads
  <2> QED BY <1>5, <2>1, <2>4
<1>8. Len(points) - 1 \in S
  <2>1. Len(points) - 1 \in Nat
    BY <1>2
  <2>2. \A i \in 0..Len(points) - 1 : i \in S
    BY <1>6, <1>7, <2>1, UpTo
  <2> QED BY <2>1, <2>2
<1>9. (Len(points) - 1) + 1 = Len(points)
  BY <1>2
<1> QED BY <1>1, <1>3, <1>5, <1>8, <1>9

LEMMA StraightLeads ==
  ASSUME NEW points \in Seq(Point), Len(points) >= 1
  PROVE  Leads(removeCollinear(points), points[1], points[Len(points)])
<1>1. PICK clean, first, last : clean = Distinct(points) /\ first = points[1] /\ last = points[Len(points)]
  OBVIOUS
<1>2. Leads(clean, first, last)
  BY <1>1, DistinctLeads
<1>3. /\ clean \in Seq(Point) /\ Len(clean) \in Nat /\ Len(clean) >= 1 /\ clean[1] = first /\ clean[Len(clean)] = last
      /\ \A n \in 1..Len(clean) : clean[n] \in Point
  BY <1>2 DEF Leads
<1>4. removeCollinear(points) = Straightening!Result(0, 0, 0, <<>>, clean)
  BY <1>1 DEF removeCollinear, Through, StraightenStep, Straightening!Result, Straightening!Walk, Straightening!Once
<1>5. PICK f : /\ Straightening!Goes(f, 0, 0, 0, <<>>, clean, Len(clean))
               /\ Straightening!Result(0, 0, 0, <<>>, clean) = f[Len(clean)]
  BY <1>3, Straightening!ResultIs
<1>6. f[0] = <<>> /\ \A n \in 1..Len(clean) : f[n] = Straightened(f[n - 1], clean[n])
  BY <1>5 DEF Straightening!Goes, StraightenStep
<1>7. PICK S : S = {n \in 0..Len(clean) - 1 : Leads(f[n + 1], first, clean[n + 1])}
  OBVIOUS
<1>8. 0 \in S
  <2>1. 1 \in 1..Len(clean) /\ 1 - 1 = 0
    BY <1>3
  <2>2. f[1] = Straightened(<<>>, clean[1]) /\ clean[1] \in Point
    BY <1>3, <1>6, <2>1
  <2>3. Leads(f[1], first, clean[1])
    BY <1>3, <2>2, StraightenedLeads
  <2> QED BY <1>3, <1>7, <2>3
<1>9. ASSUME NEW n \in 0..(Len(clean) - 1) - 1, n \in S PROVE n + 1 \in S
  <2>1. n + 2 \in 1..Len(clean) /\ n + 2 - 1 = n + 1 /\ (n + 1) + 1 = n + 2 /\ n + 1 \in 0..Len(clean) - 1
    BY <1>3
  <2>2. f[n + 2] = Straightened(f[n + 1], clean[n + 2]) /\ clean[n + 2] \in Point
    BY <1>3, <1>6, <2>1
  <2>3. Leads(f[n + 1], first, clean[n + 1])
    BY <1>7, <1>9
  <2>4. Leads(f[n + 2], first, clean[n + 2])
    BY <2>2, <2>3, StraightenedLeads
  <2> QED BY <1>7, <2>1, <2>4
<1>10. Len(clean) - 1 \in S
  <2>1. Len(clean) - 1 \in Nat
    BY <1>3
  <2>2. \A i \in 0..Len(clean) - 1 : i \in S
    BY <1>8, <1>9, <2>1, UpTo
  <2> QED BY <2>1, <2>2
<1>11. (Len(clean) - 1) + 1 = Len(clean)
  BY <1>3
<1> QED BY <1>1, <1>3, <1>4, <1>5, <1>7, <1>10, <1>11

LEMMA HalfwayTyped == ASSUME NEW p \in Point, NEW q \in Point PROVE Between(p, q) \in Point
  BY DEF Between, Place, Half, Point

\* A segment that is split has its middle between its ends.
LEMMA SplitLeads ==
  ASSUME NEW points \in Seq(Point), Len(points) >= 2, NEW cut \in 1..Len(points) - 1
  PROVE  Leads(SubSeq(points, 1, cut) \o <<Between(points[cut], points[cut + 1])>> \o SubSeq(points, cut + 1, Len(points)),
               points[1], points[Len(points)])
<1>1. PICK n \in Nat : n = Len(points) /\ cut \in Nat /\ cut >= 1 /\ cut + 1 <= n
  OBVIOUS
<1>2. PICK front, rest : front = SubSeq(points, 1, cut) /\ rest = SubSeq(points, cut + 1, n)
  OBVIOUS
<1>3. front \in Seq(Point) /\ Len(front) = cut /\ front[1] = points[1]
  BY <1>1, <1>2
<1>4. rest \in Seq(Point) /\ Len(rest) = n - cut /\ rest[n - cut] = points[n]
  BY <1>1, <1>2
<1>5. PICK middle \in Point : middle = Between(points[cut], points[cut + 1])
  <2>1. points[cut] \in Point /\ points[cut + 1] \in Point
    BY <1>1
  <2> QED BY <2>1, HalfwayTyped
<1>6. PICK left : left = front \o <<middle>>
  OBVIOUS
<1>7. left \in Seq(Point) /\ Len(left) = cut + 1 /\ left[1] = points[1]
  BY <1>1, <1>3, <1>6
<1>8. PICK whole : whole = left \o rest
  OBVIOUS
<1>9. whole \in Seq(Point) /\ Len(whole) = n + 1 /\ whole[1] = points[1] /\ whole[n + 1] = points[n]
  <2>1. /\ whole \in Seq(Point) /\ Len(whole) = Len(left) + Len(rest)
        /\ \A i \in 1..Len(left) + Len(rest) : whole[i] = IF i <= Len(left) THEN left[i] ELSE rest[i - Len(left)]
    BY <1>4, <1>7, <1>8, ConcatProperties
  <2>2. Len(left) = cut + 1 /\ Len(rest) = n - cut /\ Len(left) + Len(rest) = n + 1
    BY <1>1, <1>4, <1>7
  <2>3. n + 1 \in 1..n + 1 /\ 1 \in 1..n + 1 /\ ~(n + 1 <= cut + 1) /\ (n + 1) - (cut + 1) = n - cut /\ 1 <= cut + 1
    BY <1>1
  <2>4. whole[1] = left[1] /\ whole[n + 1] = rest[n - cut]
    BY <2>1, <2>2, <2>3
  <2> QED BY <1>4, <1>7, <2>1, <2>2, <2>4
<1>10. Leads(whole, points[1], points[n])
  BY <1>1, <1>9 DEF Leads
<1> QED BY <1>1, <1>2, <1>5, <1>6, <1>8, <1>10

LEMMA LabelSegmentLeads ==
  ASSUME NEW points \in Seq(Point), Len(points) >= 1
  PROVE  Leads(ensureLabelSegment(points), points[1], points[Len(points)])
<1>1. PICK clean, first, last : clean = Distinct(points) /\ first = points[1] /\ last = points[Len(points)]
  OBVIOUS
<1>2. Leads(clean, first, last)
  BY <1>1, DistinctLeads
<1>3. ensureLabelSegment(points) = SplitMiddle(clean)
  BY <1>1 DEF ensureLabelSegment
<1>4. PICK n \in Nat : n = Len(clean) /\ clean \in Seq(Point) /\ n >= 1
  BY <1>2 DEF Leads
<1>5. CASE n % 2 = 0 \/ n < 3
  <2>1. SplitMiddle(clean) = clean
    BY <1>4, <1>5 DEF SplitMiddle
  <2> QED BY <1>1, <1>2, <1>3, <2>1
<1>6. CASE ~(n % 2 = 0 \/ n < 3)
  <2>1. PICK middle : middle = n \div 2 + 1
    OBVIOUS
  <2>2. middle \in 1..n - 1 /\ middle - 1 \in 1..n - 1
    BY <1>4, <1>6, <2>1
  <2>3. PICK cut \in {middle - 1, middle} :
          SplitMiddle(clean) = SubSeq(clean, 1, cut) \o <<Between(clean[cut], clean[cut + 1])>> \o SubSeq(clean, cut + 1, Len(clean))
    BY <1>4, <1>6, <2>1 DEF SplitMiddle
  <2>4. cut \in 1..n - 1 /\ n >= 2
    BY <1>6, <2>2, <2>3
  <2>5. Leads(SplitMiddle(clean), clean[1], clean[Len(clean)])
    BY <1>4, <2>3, <2>4, SplitLeads
  <2>6. clean[1] = first /\ clean[Len(clean)] = last
    BY <1>2 DEF Leads
  <2> QED BY <1>1, <1>3, <2>5, <2>6
<1> QED BY <1>5, <1>6

-----------------------------------------------------------------------------
(* What a path costs is a number, so that there is a cheapest.             *)

RootStep(a, b, c, acc, x) == Half(acc + a \div acc)
Rooting == INSTANCE Stepwise WITH Step <- RootStep

LEMMA RootTyped == ASSUME NEW n \in Nat PROVE Root(n) \in Nat
<1>1. CASE n = 0
  BY <1>1 DEF Root
<1>2. CASE n # 0
  <2>1. PICK rounds : rounds = [i \in 1..20 |-> i]
    OBVIOUS
  <2>2. Len(rounds) = 20 /\ Len(rounds) \in Nat
    BY <2>1
  <2>3. PICK base : base = 1 + Half(n)
    OBVIOUS
  <2>4. base \in Nat \ {0}
    BY <2>3 DEF Half
  <2>5. Root(n) = Rooting!Result(n, 0, 0, base, rounds)
    BY <1>2, <2>1, <2>3 DEF Root, Through, RootStep, Rooting!Result, Rooting!Walk, Rooting!Once
  <2>6. ASSUME NEW r \in Nat \ {0} PROVE Half(r + n \div r) \in Nat \ {0}
    <3>1. PICK q \in Nat : q = n \div r /\ n < r * q + r
      BY DivisionIs
    <3>2. r + q >= 2
      <4>1. CASE r = 1
        <5>1. r * q + r = q + 1
          BY <4>1
        <5> QED BY <1>2, <3>1, <4>1, <5>1
      <4>2. CASE r # 1
        BY <4>2
      <4> QED BY <4>1, <4>2
    <3>3. (r + q) \div 2 \in Nat \ {0}
      BY <3>2
    <3> QED BY <3>1, <3>3 DEF Half
  <2>7. \A i \in 1..Len(rounds) : \A r \in Nat \ {0} : RootStep(n, 0, 0, r, rounds[i]) \in Nat \ {0}
    BY <2>6 DEF RootStep
  <2>8. PICK Good : Good = Nat \ {0}
    OBVIOUS
  <2>9. Rooting!Result(n, 0, 0, base, rounds) \in Good
    BY <2>2, <2>4, <2>7, <2>8, Rooting!ResultKeeps
  <2> QED BY <2>5, <2>8, <2>9
<1> QED BY <1>1, <1>2

LEMMA LengthTyped == ASSUME NEW p \in Point, NEW q \in Point PROVE SegmentLength(p, q) \in Nat
<1>1. p.x \in Int /\ p.y \in Int /\ q.x \in Int /\ q.y \in Int
  BY DEF Point
<1>2. Square(p, q) \in Nat
  BY <1>1, SquareType
<1>3. Root(Square(p, q)) \in Nat
  BY <1>2, RootTyped
<1>4. Distance(p.x, q.x) + Distance(p.y, q.y) \in Nat
  BY <1>1 DEF Distance
<1> QED BY <1>3, <1>4 DEF SegmentLength

LengthStep(a, b, c, acc, x) == acc + SegmentLength(a[x], a[x + 1])
Measuring == INSTANCE Stepwise WITH Step <- LengthStep

LEMMA PathLengthTyped == ASSUME NEW points \in Path PROVE PathLength(points) \in Nat
<1>1. PICK places : places = [n \in 1..Len(points) - 1 |-> n]
  OBVIOUS
<1>2. points \in Seq(Point) /\ Len(points) \in Nat /\ Len(points) >= 2
  BY DEF Path
<1>3. places \in Seq(Nat) /\ Len(places) = Len(points) - 1 /\ Len(places) \in Nat
  BY <1>1, <1>2
<1>4. PathLength(points) = Measuring!Result(points, 0, 0, 0, places)
  BY <1>1 DEF PathLength, Through, LengthStep, Measuring!Result, Measuring!Walk, Measuring!Once
<1>5. ASSUME NEW n \in 1..Len(places), NEW sum \in Nat PROVE LengthStep(points, 0, 0, sum, places[n]) \in Nat
  <2>1. places[n] = n /\ n \in 1..Len(points) /\ n + 1 \in 1..Len(points)
    BY <1>1, <1>2, <1>3
  <2>2. points[n] \in Point /\ points[n + 1] \in Point
    BY <1>2, <2>1
  <2>3. SegmentLength(points[n], points[n + 1]) \in Nat
    BY <2>2, LengthTyped
  <2> QED BY <2>1, <2>3 DEF LengthStep
<1>6. PICK Good : Good = Nat
  OBVIOUS
<1>8. 0 \in Good /\ \A n \in 1..Len(places) : \A sum \in Good : LengthStep(points, 0, 0, sum, places[n]) \in Good
  BY <1>5, <1>6
<1>7. Measuring!Result(points, 0, 0, 0, places) \in Good
  BY <1>3, <1>8, Measuring!ResultKeeps
<1> QED BY <1>4, <1>6, <1>7

\* The segments of paths, and of what was drawn so far.
Drawable(segments) == IsFiniteSet(segments) /\ \A s \in segments : s[1] \in Point /\ s[2] \in Point

LEMMA SegmentsAre == ASSUME NEW points \in Path PROVE Drawable(Segments(points))
<1>1. points \in Seq(Point) /\ Len(points) \in Nat
  BY DEF Path
<1>2. PICK J : J = {j \in 1..Len(points) - 1 : points[j] # points[j + 1]}
  OBVIOUS
<1>3. IsFiniteSet(J)
  <2>1. IsFiniteSet(1..Len(points) - 1)
    BY <1>1, FS_Interval
  <2> QED BY <1>2, <2>1, FS_Subset
<1>4. PICK f : f = [i \in J |-> <<points[i], points[i + 1]>>]
  OBVIOUS
<1>5. PICK T : T = {<<points[i], points[i + 1]>> : i \in J}
  OBVIOUS
<1>6. f \in Surjection(J, T)
  BY <1>4, <1>5 DEF Surjection
<1>7. IsFiniteSet(T)
  BY <1>3, <1>6, FS_Surjection
<1>8. \A s \in T : s[1] \in Point /\ s[2] \in Point
  <2> SUFFICES ASSUME NEW i \in J PROVE points[i] \in Point /\ points[i + 1] \in Point
    BY <1>5
  <2>1. i \in 1..Len(points) /\ i + 1 \in 1..Len(points)
    BY <1>1, <1>2
  <2> QED BY <1>1, <2>1
<1>9. Segments(points) = T
  BY <1>2, <1>5 DEF Segments
<1> QED BY <1>7, <1>8, <1>9 DEF Drawable

LEMMA ScoreTyped == ASSUME NEW points \in Path, NEW occupied, Drawable(occupied) PROVE scorePath(points, occupied) \in Nat
<1>1. PICK S, T : S = Segments(points) /\ T = {st \in S \X occupied : segmentsIntersect(st[1], st[2])}
  OBVIOUS
<1>2. IsFiniteSet(S) /\ IsFiniteSet(occupied)
  BY <1>1, SegmentsAre DEF Drawable
<1>3. IsFiniteSet(S \X occupied)
  BY <1>2, FS_Product
<1>4. IsFiniteSet(T)
  <2>1. T \subseteq S \X occupied
    BY <1>1
  <2> QED BY <1>3, <2>1, FS_Subset
<1>5. Cardinality(T) \in Nat
  BY <1>4, FS_CardinalityType
<1>6. PICK length, bends \in Nat : length = PathLength(points) /\ length \in Nat /\ bends = Most(0, Len(points) - 2)
  <2>1. Most(0, Len(points) - 2) \in Nat
    BY DEF Most, Path
  <2> QED BY <2>1, PathLengthTyped
<1>7. scorePath(points, occupied) = length + BEND_COST * bends + CROSSING_COST * Cardinality(T)
  BY <1>1, <1>6 DEF scorePath
<1> QED BY <1>5, <1>6, <1>7 DEF BEND_COST, CROSSING_COST

-----------------------------------------------------------------------------
(* The paths that routePlannedArrow tries.                                 *)

\* What a route is asked for: between two shapes that its ends reach, among measured obstacles.
Request(r) ==
  /\ r.from \in ShapeBox /\ r.to \in ShapeBox /\ r.focus \in Foci /\ r.offset \in Int
  /\ r.loop \in BOOLEAN /\ (r.loop => r.from = r.to)
  /\ Reaches(r.from, r.start) /\ Reaches(r.to, r.end)
  /\ \A b \in r.obstacles : Measured(b)
  /\ Drawable(r.occupied)
  /\ r.label \in [w: Nat, h: Nat]
\* A path between the two shapes.
Runs(r, path) ==
  path \in Seq(Point) /\ Len(path) >= 1 /\ Reaches(r.from, path[1]) /\ Reaches(r.to, path[Len(path)])

LEMMA LeadsRuns ==
  ASSUME NEW r, NEW path, Runs(r, path), NEW points, Leads(points, path[1], path[Len(path)])
  PROVE  Runs(r, points)
  BY DEF Runs, Leads

LEMMA FourRun ==
  ASSUME NEW r, NEW s, Reaches(r.from, s), NEW e, Reaches(r.to, e), NEW p \in Point, NEW q \in Point
  PROVE  Runs(r, <<s, e>>) /\ Runs(r, <<s, p, e>>) /\ Runs(r, <<s, p, q, e>>)
<1>1. s \in Point /\ e \in Point
  BY DEF Reaches
<1>2. <<s, e>> \in Seq(Point) /\ Len(<<s, e>>) = 2 /\ <<s, e>>[1] = s /\ <<s, e>>[2] = e
  BY <1>1
<1>3. <<s, p, e>> \in Seq(Point) /\ Len(<<s, p, e>>) = 3 /\ <<s, p, e>>[1] = s /\ <<s, p, e>>[3] = e
  BY <1>1
<1>4. <<s, p, q, e>> \in Seq(Point) /\ Len(<<s, p, q, e>>) = 4 /\ <<s, p, q, e>>[1] = s /\ <<s, p, q, e>>[4] = e
  BY <1>1
<1> QED BY <1>2, <1>3, <1>4 DEF Runs

LEMMA LanesTyped ==
  ASSUME NEW r, Request(r), NEW axis \in Axes
  PROVE  Lanes(r, axis) \subseteq Int
<1>1. r.start \in Point /\ r.end \in Point /\ r.offset \in Int
  BY DEF Request, Reaches
<1>2. \A p \in Point : p[axis] \in Int
  BY DEF Point, Axes
<1>3. Half(r.start[axis] + r.end[axis]) \in Int
  BY <1>1, <1>2 DEF Half
<1>4. \A b \in r.obstacles : b[axis] \in Int /\ Extent(b, axis) \in Int
  BY DEF Request, Measured, Axes, Extent
<1>5. \A s \in r.occupied : s[1][axis] \in Int /\ s[2][axis] \in Int
  BY <1>2 DEF Request, Drawable
<1>6. DEFAULT_CLEARANCE + LANE_EPSILON = 16
  BY DEF DEFAULT_CLEARANCE, LANE_EPSILON
<1>7. \A b \in r.obstacles : b[axis] - 16 \in Int /\ b[axis] + Extent(b, axis) + 16 \in Int
  BY <1>4
<1>8. \A s \in r.occupied : Least(s[1][axis], s[2][axis]) - 16 \in Int /\ Most(s[1][axis], s[2][axis]) + 16 \in Int
  BY <1>5 DEF Least, Most
<1>9. PICK bow \in Int :
        Lanes(r, axis) = {Half(r.start[axis] + r.end[axis]) + bow, r.start[axis], r.end[axis]}
           \cup {b[axis] - 16 : b \in r.obstacles} \cup {b[axis] + Extent(b, axis) + 16 : b \in r.obstacles}
           \cup {Least(s[1][axis], s[2][axis]) - 16 : s \in r.occupied}
           \cup {Most(s[1][axis], s[2][axis]) + 16 : s \in r.occupied}
  BY <1>1, <1>6 DEF Lanes
<1> QED BY <1>1, <1>2, <1>3, <1>7, <1>8, <1>9

LEMMA CorridorsRun ==
  ASSUME NEW r, Request(r), NEW v \in Int
  PROVE  Runs(r, solveHorizontal(r, v)) /\ Runs(r, solveVertical(r, v))
<1>1. /\ r.from \in ShapeBox /\ r.to \in ShapeBox /\ r.focus.start \in Focus /\ r.focus.end \in Focus
      /\ r.start \in Point /\ r.end \in Point
  BY DEF Request, Reaches, Foci
<1>2. r.start.x \in Int /\ r.start.y \in Int /\ r.end.x \in Int /\ r.end.y \in Int
  BY <1>1 DEF Point
<1>3. \A s \in Point : s.x \in Int /\ s.y \in Int
  BY DEF Point
<1>4. Runs(r, solveHorizontal(r, v))
  <2>1. PICK a, b : a = Place(r.start.x, v) /\ b = Place(r.end.x, v) /\ a \in Point /\ b \in Point
    BY <1>2, PointIs
  <2>2. PICK s, e : s = solveEndpoint(r.from, r.focus.start, a) /\ e = solveEndpoint(r.to, r.focus.end, b)
    OBVIOUS
  <2>3. Reaches(r.from, s) /\ Reaches(r.to, e)
    BY <1>1, <2>1, <2>2, EndpointIs
  <2>4. solveHorizontal(r, v) = <<s, Place(s.x, v), Place(e.x, v), e>>
    BY <2>1, <2>2 DEF solveHorizontal, AlongRow
  <2>5. Place(s.x, v) \in Point /\ Place(e.x, v) \in Point
    BY <1>3, <2>3, PointIs DEF Reaches
  <2> QED BY <2>3, <2>4, <2>5, FourRun
<1>5. Runs(r, solveVertical(r, v))
  <2>1. PICK a, b : a = Place(v, r.start.y) /\ b = Place(v, r.end.y) /\ a \in Point /\ b \in Point
    BY <1>2, PointIs
  <2>2. PICK s, e : s = solveEndpoint(r.from, r.focus.start, a) /\ e = solveEndpoint(r.to, r.focus.end, b)
    OBVIOUS
  <2>3. Reaches(r.from, s) /\ Reaches(r.to, e)
    BY <1>1, <2>1, <2>2, EndpointIs
  <2>4. solveVertical(r, v) = <<s, Place(v, s.y), Place(v, e.y), e>>
    BY <2>1, <2>2 DEF solveVertical, AlongColumn
  <2>5. Place(v, s.y) \in Point /\ Place(v, e.y) \in Point
    BY <1>3, <2>3, PointIs DEF Reaches
  <2> QED BY <2>3, <2>4, <2>5, FourRun
<1> QED BY <1>4, <1>5

LEMMA LoopsRun ==
  ASSUME NEW r, Request(r), r.loop, NEW path \in solveSelfLoops(r)
  PROVE  Runs(r, path)
<1>1. PICK box : box = r.from /\ box = r.to /\ box \in ShapeBox /\ r.focus.start \in Focus /\ r.focus.end \in Focus
  BY DEF Request, Foci
<1>2. PICK lane, tall, wide \in Int :
        /\ lane = DEFAULT_CLEARANCE + GAP + 32 + Distance(0, r.offset)
        /\ tall = Half(Most(Half(box.h), r.label.h + 2 * LABEL_PAD)) /\ tall \in Int
        /\ wide = Half(Most(Half(box.w), r.label.w + 2 * LABEL_PAD)) /\ lane \in Int
  <2>1. r.offset \in Int /\ r.label.h \in Nat /\ r.label.w \in Nat /\ box.h \in Nat /\ box.w \in Nat
    BY <1>1 DEF Request, ShapeBox
  <2>2. DEFAULT_CLEARANCE + GAP + 32 + Distance(0, r.offset) \in Int
    BY <2>1 DEF DEFAULT_CLEARANCE, GAP, Distance
  <2>3. Half(Most(Half(box.h), r.label.h + 2 * LABEL_PAD)) \in Int
    BY <2>1 DEF LABEL_PAD, Half, Most
  <2>4. Half(Most(Half(box.w), r.label.w + 2 * LABEL_PAD)) \in Int
    BY <2>1 DEF LABEL_PAD, Half, Most
  <2> QED BY <2>2, <2>3, <2>4
<1>3. PICK c : c = Centre(box) /\ c \in Point
  <2>1. box.x + Half(box.w) \in Int /\ box.y + Half(box.h) \in Int
    BY <1>1 DEF ShapeBox, Half
  <2> QED BY <2>1, PointIs DEF Centre
<1>4. PICK a, b : path = <<solveEndpoint(box, r.focus.start, a), a, b, solveEndpoint(box, r.focus.end, b)>>
                  /\ a \in Point /\ b \in Point
  <2>1. c.x \in Int /\ c.y \in Int /\ box.x \in Int /\ box.y \in Int /\ box.w \in Int /\ box.h \in Int
    BY <1>1, <1>3 DEF Point, ShapeBox
  <2>2. CASE \E x \in {box.x + box.w + lane, box.x - lane} :
               LET a == Place(x, c.y - tall)  b == Place(x, c.y + tall)
               IN path = <<solveEndpoint(box, r.focus.start, a), a, b, solveEndpoint(box, r.focus.end, b)>>
    <3>1. PICK x \in {box.x + box.w + lane, box.x - lane} :
               LET a == Place(x, c.y - tall)  b == Place(x, c.y + tall)
               IN path = <<solveEndpoint(box, r.focus.start, a), a, b, solveEndpoint(box, r.focus.end, b)>>
      BY <2>2
    <3>2. x \in Int /\ c.y - tall \in Int /\ c.y + tall \in Int
      BY <1>2, <2>1
    <3>3. Place(x, c.y - tall) \in Point /\ Place(x, c.y + tall) \in Point
      BY <3>2, PointIs
    <3> QED BY <3>1, <3>3
  <2>3. CASE \E y \in {box.y - lane, box.y + box.h + lane} :
               LET a == Place(c.x - wide, y)  b == Place(c.x + wide, y)
               IN path = <<solveEndpoint(box, r.focus.start, a), a, b, solveEndpoint(box, r.focus.end, b)>>
    <3>1. PICK y \in {box.y - lane, box.y + box.h + lane} :
               LET a == Place(c.x - wide, y)  b == Place(c.x + wide, y)
               IN path = <<solveEndpoint(box, r.focus.start, a), a, b, solveEndpoint(box, r.focus.end, b)>>
      BY <2>3
    <3>2. y \in Int /\ c.x - wide \in Int /\ c.x + wide \in Int
      BY <1>2, <2>1
    <3>3. Place(c.x - wide, y) \in Point /\ Place(c.x + wide, y) \in Point
      BY <3>2, PointIs
    <3> QED BY <3>1, <3>3
  <2> QED BY <1>1, <1>2, <1>3, <2>2, <2>3 DEF solveSelfLoops
<1>5. Reaches(box, solveEndpoint(box, r.focus.start, a)) /\ Reaches(box, solveEndpoint(box, r.focus.end, b))
  BY <1>1, <1>4, EndpointIs
<1> QED BY <1>1, <1>4, <1>5, FourRun

\* Every path that is tried runs between the shapes.
LEMMA TriedRun ==
  ASSUME NEW r, Request(r), NEW path \in RoutesTried(r)
  PROVE  Runs(r, path)
<1>1. PICK tried : tried = IF r.loop THEN solveSelfLoops(r)
               ELSE (IF r.offset = 0 THEN {<<r.start, r.end>>} ELSE {})
                    \cup {solveHorizontal(r, y) : y \in Lanes(r, "y")}
                    \cup {solveVertical(r, x) : x \in Lanes(r, "x")}
  OBVIOUS
<1>2. PICK raw \in tried : path = IF r.label = NoLabel THEN removeCollinear(raw) ELSE ensureLabelSegment(raw)
  BY <1>1 DEF RoutesTried
<1>3. Runs(r, raw)
  <2>1. CASE r.loop
    BY <1>1, <1>2, <2>1, LoopsRun
  <2>2. CASE ~r.loop /\ raw = <<r.start, r.end>>
    BY <2>2, FourRun DEF Request, Reaches
  <2>3. CASE ~r.loop /\ raw # <<r.start, r.end>>
    <3>1. \/ \E y \in Lanes(r, "y") : raw = solveHorizontal(r, y)
          \/ \E x \in Lanes(r, "x") : raw = solveVertical(r, x)
      BY <1>1, <1>2, <2>3
    <3>2. Lanes(r, "x") \subseteq Int /\ Lanes(r, "y") \subseteq Int
      <4>1. "x" \in Axes /\ "y" \in Axes
        BY DEF Axes
      <4> QED BY <4>1, LanesTyped
    <3> QED BY <3>1, <3>2, CorridorsRun
  <2> QED BY <2>1, <2>2, <2>3
<1>4. raw \in Seq(Point) /\ Len(raw) >= 1
  BY <1>3 DEF Runs
<1>5. Leads(path, raw[1], raw[Len(raw)])
  BY <1>2, <1>4, StraightLeads, LabelSegmentLeads
<1> QED BY <1>3, <1>5, LeadsRuns

LEMMA SumIs == ASSUME NEW p \in Point, NEW q \in Point
               PROVE  /\ Plus(p, q) \in Point /\ Minus(p, q) \in Point
                      /\ Minus(p, q).x \in Int /\ Minus(p, q).y \in Int
  BY DEF Plus, Minus, Place, Point

\* What is priced is a set of prices with what they buy.
LEMMA PricedIs ==
  ASSUME NEW S, S # {}, NEW cost, \A p \in S : cost[p] \in Nat,
         NEW priced, priced = {<<cost[p], p>> : p \in S}
  PROVE  priced \in SUBSET (Nat \X S) /\ priced # {}
<1>1. \A p \in S : <<cost[p], p>> \in Nat \X S
  OBVIOUS
<1>2. priced \in SUBSET (Nat \X S)
  BY <1>1
<1>3. PICK p \in S : TRUE
  OBVIOUS
<1>4. <<cost[p], p>> \in priced
  OBVIOUS
<1>5. priced # {}
  BY <1>4
<1> QED BY <1>2, <1>5

LEMMA BentRuns ==
  ASSUME NEW r, Request(r), NEW apex \in Point
  PROVE  Runs(r, BentAt(r, apex))
<1>1. r.from \in ShapeBox /\ r.to \in ShapeBox /\ r.focus.start \in Focus /\ r.focus.end \in Focus
  BY DEF Request, Foci
<1>2. Reaches(r.from, solveEndpoint(r.from, r.focus.start, apex)) /\ Reaches(r.to, solveEndpoint(r.to, r.focus.end, apex))
  BY <1>1, EndpointIs
<1> QED BY <1>2, FourRun DEF BentAt

LEMMA QuotedIs ==
  ASSUME NEW x \in Int, NEW y \in Int, NEW d \in Nat \ {0}
  PROVE  Place(Quotient(x, d), Quotient(y, d)) \in Point
  BY QuotientTyped, PointIs

\* The point beside the blocker, from what is measured along the way and away from it.
LEMMA ApexTyped ==
  ASSUME NEW r, Request(r), NEW blocker, Measured(blocker), NEW d \in Point, NEW length \in Nat \ {0}
  PROVE  BesideBlocker(r, blocker, d, length) \in Point
<1>1. PICK dx \in Int, dy \in Int : d.x = dx /\ d.y = dy
  BY DEF Point
<1>2. PICK rel : rel = Minus(Centre(blocker), r.start)
  OBVIOUS
<1>3. r.start \in Point
  BY DEF Request, Reaches
<1>4. Centre(blocker) \in Point
  <2>1. blocker.x + Half(blocker.w) \in Int /\ blocker.y + Half(blocker.h) \in Int
    BY DEF Measured, Half
  <2> QED BY <2>1, PointIs DEF Centre
<1>5. PICK u \in Int, v \in Int : rel.x = u /\ rel.y = v
  BY <1>2, <1>3, <1>4, SumIs
<1>6. PICK along \in Int :
        along = Most(length \div 5, Least((4 * length) \div 5, Quotient(rel.x * d.x + rel.y * d.y, length)))
  <2>1. u * dx + v * dy \in Int
    OBVIOUS
  <2>2. Quotient(u * dx + v * dy, length) \in Int
    BY <2>1, QuotientTyped
  <2>3. length \div 5 \in Int /\ (4 * length) \div 5 \in Int
    OBVIOUS
  <2>4. Least((4 * length) \div 5, Quotient(u * dx + v * dy, length)) \in Int
    BY <2>2, <2>3 DEF Least
  <2>5. Most(length \div 5, Least((4 * length) \div 5, Quotient(u * dx + v * dy, length))) \in Int
    BY <2>3, <2>4 DEF Most
  <2> QED BY <1>1, <1>5, <2>5
<1>7. PICK away \in Int : away = Quotient(d.x * rel.y - d.y * rel.x, length)
  <2>1. dx * v - dy * u \in Int
    OBVIOUS
  <2> QED BY <1>1, <1>5, <2>1, QuotientTyped
<1>8. PICK radius \in Int :
        radius = Half((blocker.w * Distance(0, d.y) + blocker.h * Distance(0, d.x)) \div length) + DEFAULT_CLEARANCE
  <2>1. PICK w \in Int, h \in Int, a \in Nat, b \in Nat :
          blocker.w = w /\ blocker.h = h /\ Distance(0, d.y) = a /\ Distance(0, d.x) = b
    BY <1>1 DEF Measured, Distance
  <2>2. PICK n \in Int : n = w * a + h * b
    OBVIOUS
  <2>3. n \div length \in Int
    OBVIOUS
  <2>4. Half(n \div length) + DEFAULT_CLEARANCE \in Int
    BY <2>3 DEF Half, DEFAULT_CLEARANCE
  <2> QED BY <2>1, <2>2, <2>4
<1>9. PICK off \in Int :
        BesideBlocker(r, blocker, d, length) =
          Plus(r.start, Place(Quotient(d.x * along - d.y * off, length), Quotient(d.y * along + d.x * off, length)))
  <2>1. PICK off : off = away + (IF Distance(0, away + radius) <= Distance(0, away - radius) THEN radius ELSE -radius)
    OBVIOUS
  <2>2. off \in Int
    BY <2>1
  <2>3. BesideBlocker(r, blocker, d, length) =
          Plus(r.start, Place(Quotient(d.x * along - d.y * off, length), Quotient(d.y * along + d.x * off, length)))
    BY <1>2, <1>6, <1>7, <1>8, <2>1 DEF BesideBlocker
  <2> QED BY <2>2, <2>3
<1>10. dx * along - dy * off \in Int /\ dy * along + dx * off \in Int
  OBVIOUS
<1>11. Place(Quotient(d.x * along - d.y * off, length), Quotient(d.y * along + d.x * off, length)) \in Point
  BY <1>1, <1>10, QuotedIs
<1> QED BY <1>3, <1>9, <1>11, SumIs

LEMMA BendRuns == ASSUME NEW r, Request(r) PROVE Runs(r, Bend(r))
<1>1. PICK middle, d, length, blockers, nearest :
        /\ middle = Between(r.start, r.end) /\ d = Minus(r.end, r.start)
        /\ length = Most(1, SegmentLength(r.start, r.end))
        /\ blockers = {b \in r.obstacles : SegmentHits(r.start, r.end, b, DEFAULT_CLEARANCE)}
        /\ nearest = Cheapest(blockers, LAMBDA b : Square(Centre(b), middle))
  OBVIOUS
<1>2. r.start \in Point /\ r.end \in Point /\ Reaches(r.from, r.start) /\ Reaches(r.to, r.end) /\ r.offset \in Int
  BY DEF Request, Reaches
<1>3. middle \in Point /\ d \in Point /\ length \in Nat \ {0}
  <2>1. SegmentLength(r.start, r.end) \in Nat
    BY <1>2, LengthTyped
  <2>2. length \in Nat \ {0}
    BY <1>1, <2>1 DEF Most
  <2> QED BY <1>1, <1>2, <2>2, HalfwayTyped, SumIs
<1>4. Bend(r) = CASE r.offset # 0 ->
            BentAt(r, Plus(middle, Place(Quotient(-d.y * r.offset, length), Quotient(d.x * r.offset, length))))
       [] r.offset = 0 /\ blockers # {} -> BentAt(r, BesideBlocker(r, nearest, d, length))
       [] OTHER -> <<r.start, r.end>>
  BY <1>1 DEF Bend
<1>5. CASE r.offset # 0
  <2>1. PICK dx \in Int, dy \in Int, o \in Int : d.x = dx /\ d.y = dy /\ r.offset = o
    BY <1>2, <1>3 DEF Point
  <2>2. -dy * o \in Int /\ dx * o \in Int
    OBVIOUS
  <2>3. PICK side : side = Place(Quotient(-d.y * r.offset, length), Quotient(d.x * r.offset, length))
    OBVIOUS
  <2>4. side \in Point
    BY <1>3, <2>1, <2>2, <2>3, QuotedIs
  <2>5. Plus(middle, side) \in Point
    BY <1>3, <2>4, SumIs
  <2>6. Bend(r) = BentAt(r, Plus(middle, side))
    BY <1>4, <1>5, <2>3
  <2> QED BY <2>5, <2>6, BentRuns
<1>6. CASE r.offset = 0 /\ blockers # {}
  <2>1. nearest \in blockers
    <3>1. PICK cost : cost = [b \in blockers |-> Square(Centre(b), middle)]
      OBVIOUS
    <3>2. \A b \in blockers : cost[b] \in Nat
      <4> SUFFICES ASSUME NEW b \in blockers PROVE Square(Centre(b), middle) \in Nat
        BY <3>1
      <4>1. Measured(b)
        BY <1>1 DEF Request
      <4>2. Centre(b).x \in Int /\ Centre(b).y \in Int /\ middle.x \in Int /\ middle.y \in Int
        BY <1>3, <4>1, CentreType DEF Point
      <4> QED BY <4>2, SquareType
    <3>3. PICK priced : priced = {<<cost[b], b>> : b \in blockers}
      OBVIOUS
    <3>4. priced = {<<Square(Centre(b), middle), b>> : b \in blockers}
      BY <3>1, <3>3
    <3>6. nearest = (CHOOSE p \in priced : \A q \in priced : p[1] <= q[1])[2]
      BY <1>1, <3>4 DEF Cheapest
    <3>7. priced \in SUBSET (Nat \X blockers) /\ priced # {}
      BY <1>6, <3>2, <3>3, PricedIs
    <3> QED BY <3>6, <3>7, CheapestType
  <2>2. Measured(nearest)
    BY <1>1, <2>1 DEF Request
  <2>3. BesideBlocker(r, nearest, d, length) \in Point
    BY <1>3, <2>2, ApexTyped
  <2>4. Bend(r) = BentAt(r, BesideBlocker(r, nearest, d, length))
    BY <1>4, <1>6
  <2> QED BY <2>3, <2>4, BentRuns
<1>7. CASE ~(r.offset # 0) /\ ~(r.offset = 0 /\ blockers # {})
  <2>1. Bend(r) = <<r.start, r.end>>
    BY <1>4, <1>7
  <2> QED BY <1>2, <2>1, FourRun
<1> QED BY <1>5, <1>6, <1>7

\* What makes a route good: it runs between the shapes and, without a warning, through no obstacle.
Good(r, route) ==
  /\ Runs(r, route.points) /\ Len(route.points) >= 2
  /\ route.warned = TRUE \/ ~PathHits(route.points, r.obstacles, DEFAULT_CLEARANCE)

LEMMA SelectedIs ==
  ASSUME NEW r, Request(r), r.kept = <<>> \/ (Runs(r, r.kept) /\ Len(r.kept) >= 2),
         NEW sound, NEW bent, \A path \in sound \cup bent : Runs(r, path) /\ Sound(r, path)
  PROVE  Good(r, Selected(r, sound, bent))
<1>1. PICK keeps \in BOOLEAN : keeps <=>
              /\ r.kept # <<>> /\ ~PathHits(r.kept, r.obstacles, DEFAULT_CLEARANCE)
              /\ r.label = NoLabel \/ Clear(LabelBox(r.kept, r.label), r.labelObstacles, 4)
  OBVIOUS
<1>2. PICK found : found = IF sound # {} THEN sound ELSE bent
  OBVIOUS
<1>3. Selected(r, sound, bent) =
        CASE keeps -> [points |-> r.kept, warned |-> FALSE]
          [] ~keeps /\ found # {} ->
               [points |-> Cheapest(found, LAMBDA path : scorePath(path, r.occupied)), warned |-> FALSE]
          [] OTHER -> [points |-> IF r.kept # <<>> THEN r.kept ELSE <<r.start, r.end>>, warned |-> TRUE]
  BY <1>1, <1>2 DEF Selected
<1>4. CASE keeps
  BY <1>1, <1>3, <1>4 DEF Good
<1>5. CASE ~keeps /\ found # {}
  <2>1. PICK cost, priced : /\ cost = [path \in found |-> scorePath(path, r.occupied)]
                            /\ priced = {<<cost[path], path>> : path \in found}
    OBVIOUS
  <2>2. \A path \in found : Runs(r, path) /\ Sound(r, path) /\ Len(path) >= 2
    BY <1>2 DEF Sound
  <2>3. \A path \in found : cost[path] \in Nat
    <3> SUFFICES ASSUME NEW path \in found PROVE scorePath(path, r.occupied) \in Nat
      BY <2>1
    <3>1. path \in Path
      BY <2>2 DEF Path, Runs
    <3> QED BY <3>1, ScoreTyped DEF Request
  <2>4. PICK cheapest : cheapest = (CHOOSE p \in priced : \A q \in priced : p[1] <= q[1])[2]
    OBVIOUS
  <2>5. cheapest \in found
    <3>2. priced = {<<cost[path], path>> : path \in found}
      BY <2>1
    <3>1. priced \in SUBSET (Nat \X found) /\ priced # {}
      BY <1>5, <2>3, <3>2, PricedIs
    <3> QED BY <2>4, <3>1, CheapestType
  <2>6. priced = {<<scorePath(path, r.occupied), path>> : path \in found}
    BY <2>1
  <2>7. Cheapest(found, LAMBDA path : scorePath(path, r.occupied)) = cheapest
    BY <2>4, <2>6 DEF Cheapest
  <2>8. Selected(r, sound, bent) = [points |-> cheapest, warned |-> FALSE]
    BY <1>3, <1>5, <2>7
  <2> QED BY <2>2, <2>5, <2>8 DEF Good, Sound
<1>6. CASE ~keeps /\ found = {}
  <2>1. PICK path : path = IF r.kept # <<>> THEN r.kept ELSE <<r.start, r.end>>
    OBVIOUS
  <2>2. Selected(r, sound, bent) = [points |-> path, warned |-> TRUE]
    BY <1>3, <1>6, <2>1
  <2>3. Runs(r, path) /\ Len(path) >= 2
    <3>1. CASE r.kept # <<>>
      BY <2>1, <3>1
    <3>2. CASE r.kept = <<>>
      <4>1. Runs(r, <<r.start, r.end>>)
        BY FourRun DEF Request, Reaches
      <4> QED BY <2>1, <3>2, <4>1
    <3> QED BY <3>1, <3>2
  <2> QED BY <2>2, <2>3 DEF Good
<1> QED BY <1>4, <1>5, <1>6

\* So the route that is planned is good.
LEMMA PlannedIsGood ==
  ASSUME NEW r, Request(r), r.kept = <<>> \/ (Runs(r, r.kept) /\ Len(r.kept) >= 2)
  PROVE  Good(r, routePlannedArrow(r))
<1>1. PICK sound, bent :
        /\ sound = {path \in RoutesTried(r) : Sound(r, path)}
        /\ bent = {path \in {IF r.label = NoLabel THEN b ELSE ensureLabelSegment(b) : b \in {Bend(r)}} : Sound(r, path)}
  OBVIOUS
<1>2. routePlannedArrow(r) = Selected(r, sound, bent)
  BY <1>1 DEF routePlannedArrow
<1>3. \A path \in sound : Runs(r, path) /\ Sound(r, path)
  BY <1>1, TriedRun
<1>4. \A path \in bent : Runs(r, path) /\ Sound(r, path)
  <2> SUFFICES ASSUME NEW path \in bent PROVE Runs(r, path)
    BY <1>1
  <2>1. path = IF r.label = NoLabel THEN Bend(r) ELSE ensureLabelSegment(Bend(r))
    BY <1>1
  <2>2. Runs(r, Bend(r))
    BY BendRuns
  <2>3. Runs(r, ensureLabelSegment(Bend(r)))
    <3>1. PICK b : b = Bend(r) /\ b \in Seq(Point) /\ Len(b) >= 1 /\ Runs(r, b)
      BY <2>2 DEF Runs
    <3>2. Leads(ensureLabelSegment(b), b[1], b[Len(b)])
      BY <3>1, LabelSegmentLeads
    <3> QED BY <3>1, <3>2, LeadsRuns
  <2> QED BY <2>1, <2>2, <2>3
<1> QED BY <1>2, <1>3, <1>4, SelectedIs

-----------------------------------------------------------------------------
(* Arrows: what they are, and when they run as they should.                *)

\* An arrow, at its place in the order of the ids.
IsLine(line, id) ==
  /\ line = [id |-> id, from |-> line.from, to |-> line.to, label |-> line.label,
             focus |-> line.focus, points |-> line.points]
  /\ line.label \in [w: Nat, h: Nat] /\ line.focus \in Foci /\ line.points \in Path
Lines(lines) == \A k \in DOMAIN lines : IsLine(lines[k], k)

\* Between its shapes; and among those at hand through none but its own and their containers.
Meets(line, at) == Reaches(at[line.from], line.points[1]) /\ Reaches(at[line.to], line.points[Len(line.points)])
Others(line, at) == {at[i] : i \in DOMAIN at \ ({line.from, line.to} \cup TransparentTo(at, line))}
RunsWell(line, at, warned) ==
  Meets(line, at) /\ (line.id \in warned \/ ~PathHits(line.points, Others(line, at), DEFAULT_CLEARANCE))

\* What is reached is touched, as segmentHitsBox sees it.
LEMMA ReachedIsTouched ==
  ASSUME NEW box \in ShapeBox, NEW p, Reaches(box, p)
  PROVE  SegmentHits(p, p, box, GAP)
<1>1. PICK x \in Int, y \in Int, l \in Int, t \in Int, w \in Nat, h \in Nat :
        p.x = x /\ p.y = y /\ box.x = l /\ box.y = t /\ box.w = w /\ box.h = h
  BY DEF Reaches, Point, ShapeBox
<1>2. l - 8 <= x /\ x <= l + w + 8 /\ t - 8 <= y /\ y <= t + h + 8
  BY <1>1 DEF Reaches, Within, Grown, GAP, ShapeBox
<1>3. PICK left, right, top, bottom :
        left = box.x - GAP /\ right = box.x + box.w + GAP /\ top = box.y - GAP /\ bottom = box.y + box.h + GAP
  OBVIOUS
<1>4. (p.x - p.x) * (top - p.y) - (p.y - p.y) * (left - p.x) = 0
  <2>1. left \in Int /\ top \in Int
    BY <1>1, <1>3 DEF GAP
  <2>2. \A m, n \in Int : (x - x) * (m - y) - (y - y) * (n - x) = 0
    OBVIOUS
  <2> QED BY <1>1, <2>1, <2>2
<1>6. Least(p.x, p.x) <= right /\ Most(p.x, p.x) >= left /\ Least(p.y, p.y) <= bottom /\ Most(p.y, p.y) >= top
  BY <1>1, <1>2, <1>3 DEF Least, Most, GAP
<1> QED BY <1>3, <1>4, <1>6 DEF SegmentHits

\* A point that moves with its shape is reached as before.
LEMMA ReachedMoves ==
  ASSUME NEW old \in ShapeBox, NEW new \in ShapeBox, old.w = new.w, old.h = new.h, NEW p, Reaches(old, p)
  PROVE  Reaches(new, Plus(p, Minus(new, old)))
<1>1. PICK x \in Int, y \in Int, l \in Int, t \in Int, u \in Int, v \in Int, w \in Nat, h \in Nat :
        /\ p.x = x /\ p.y = y /\ old.x = l /\ old.y = t /\ old.w = w /\ old.h = h
        /\ new.x = u /\ new.y = v /\ new.w = w /\ new.h = h
  BY DEF Reaches, Point, ShapeBox
<1>2. l - 8 <= x /\ x <= l + w + 8 /\ t - 8 <= y /\ y <= t + h + 8
  BY <1>1 DEF Reaches, Within, Grown, GAP, ShapeBox
<1>3. PICK a \in Int, b \in Int : a = x + (u - l) /\ b = y + (v - t)
  OBVIOUS
<1>4. Plus(p, Minus(new, old)) = Place(a, b)
  BY <1>1, <1>3 DEF Plus, Minus, Place
<1>5. Place(a, b) \in Point /\ Place(a, b).x = a /\ Place(a, b).y = b
  BY PointIs
<1>6. u - 8 <= a /\ a <= u + w + 8 /\ v - 8 <= b /\ b <= v + h + 8
  BY <1>2, <1>3
<1> QED BY <1>1, <1>4, <1>5, <1>6 DEF Reaches, Within, Grown, GAP, ShapeBox

LEMMA CentreTyped == ASSUME NEW box \in ShapeBox PROVE Centre(box) \in Point
<1>1. box.x + Half(box.w) \in Int /\ box.y + Half(box.h) \in Int
  BY DEF ShapeBox, Half
<1> QED BY <1>1, PointIs DEF Centre

\* The box of a label is measured.
LEMMA LabelMeasured ==
  ASSUME NEW points \in Path, NEW label \in [w: Nat, h: Nat]
  PROVE  Measured(LabelBox(points, label))
<1>1. points \in Seq(Point) /\ Len(points) \in Nat /\ Len(points) >= 2
  BY DEF Path
<1>2. arrowLabelAnchor(points) \in Point
  <2>1. PICK middle \in Nat : middle = Len(points) \div 2 /\ middle >= 1 /\ middle + 1 <= Len(points)
    BY <1>1
  <2>2. points[middle] \in Point /\ points[middle + 1] \in Point
    BY <1>1, <2>1
  <2> QED BY <2>1, <2>2, HalfwayTyped DEF arrowLabelAnchor
<1>3. PICK x \in Int, y \in Int : x = arrowLabelAnchor(points).x /\ y = arrowLabelAnchor(points).y
  BY <1>2 DEF Point
<1>4. Half(label.w) \in Int /\ Half(label.h) \in Int /\ label.w \in Int /\ label.h \in Int
  BY DEF Half
<1> QED BY <1>3, <1>4 DEF LabelBox, Measured

\* A pair of points that reach the shapes is a path between them.
LEMMA PairMeets ==
  ASSUME NEW from, NEW to, NEW path, path = <<path[1], path[2]>>, Reaches(from, path[1]), Reaches(to, path[2])
  PROVE  path \in Path /\ Len(path) = 2
<1>1. PICK s \in Point, e \in Point : s = path[1] /\ e = path[2]
  BY DEF Reaches
<1>2. path = <<s, e>>
  BY <1>1
<1>3. <<s, e>> \in Seq(Point) /\ Len(<<s, e>>) = 2
  OBVIOUS
<1> QED BY <1>2, <1>3 DEF Path

\* The ports and bows that are planned are numbers.
LEMMA PortsTyped ==
  ASSUME NEW at, NEW edges, IsFiniteSet(DOMAIN edges), NEW e \in DOMAIN edges
  PROVE  assignPortFocus(at, edges)[e] \in Foci
<1>1. PICK ends : ends = {"start", "end"} /\ IsFiniteSet(ends)
  <2>1. IsFiniteSet({"start"}) /\ IsFiniteSet({"end"})
    BY FS_Singleton
  <2>2. IsFiniteSet({"start"} \cup {"end"})
    BY <2>1, FS_Union
  <2>3. {"start"} \cup {"end"} = {"start", "end"}
    OBVIOUS
  <2> QED BY <2>2, <2>3
<1>2. IsFiniteSet((DOMAIN edges) \X ends)
  BY <1>1, FS_Product
<1>3. ASSUME NEW S \in SUBSET ((DOMAIN edges) \X ends), NEW T \in SUBSET ((DOMAIN edges) \X ends)
      PROVE  Spaced(S, T) \in Focus
  <2>1. Cardinality(S) \in Nat /\ Cardinality(T) \in Nat
    BY <1>2, FS_Subset, FS_CardinalityType
  <2>2. PICK n \in Int : n = 15 * (2 * Cardinality(S) - (Cardinality(T) - 1))
    BY <2>1
  <2> QED BY <2>2 DEF Spaced, Most, Least, Focus
<1>4. PICK focus : focus = assignPortFocus(at, edges)[e]
  OBVIOUS
<1>5. focus = [start |-> focus.start, end |-> focus.end]
  BY <1>4 DEF assignPortFocus
<1>6. focus.start = 0 \/ \E S, T \in SUBSET ((DOMAIN edges) \X ends) : focus.start = Spaced(S, T)
  BY <1>1, <1>4 DEF assignPortFocus
<1>7. focus.end = 0 \/ \E S, T \in SUBSET ((DOMAIN edges) \X ends) : focus.end = Spaced(S, T)
  BY <1>1, <1>4 DEF assignPortFocus
<1>8. 0 \in Focus
  BY DEF Focus
<1>9. focus.start \in Focus /\ focus.end \in Focus
  BY <1>3, <1>6, <1>7, <1>8
<1> QED BY <1>4, <1>5, <1>9 DEF Foci

LEMMA OffsetsTyped ==
  ASSUME NEW seq, NEW edges, IsFiniteSet(DOMAIN edges), NEW e
  PROVE  assignParallelOffsets(seq, edges, e) \in Int
<1>1. PICK twins, before : /\ twins = {f \in DOMAIN edges : Same(edges[f], edges[e])}
                           /\ before = {f \in twins : f < e}
  OBVIOUS
<1>2. Cardinality(twins) \in Nat /\ Cardinality(before) \in Nat
  BY <1>1, FS_Subset, FS_CardinalityType
<1>3. PICK side \in Int : side = (2 * Cardinality(before) - (Cardinality(twins) - 1)) * 24
  BY <1>2
<1>4. assignParallelOffsets(seq, edges, e) \in {side, -side}
  BY <1>1, <1>3 DEF assignParallelOffsets
<1> QED BY <1>4

-----------------------------------------------------------------------------
(* An arrow that is drawn new, or that follows its shapes.                 *)

\* Only the path and the focus of an arrow change.
SameEnds(new, old) == new.id = old.id /\ new.from = old.from /\ new.to = old.to /\ new.label = old.label

LEMMA ReflowRuns ==
  ASSUME IsFiniteSet(DOMAIN boxes), boxes \in Scene(DOMAIN boxes), NEW id, NEW line, IsLine(line, id),
         line.from \in DOMAIN boxes, line.to \in DOMAIN boxes, NEW focus \in Foci
  PROVE  /\ IsLine(reflowArrow(line, focus), id) /\ SameEnds(reflowArrow(line, focus), line)
         /\ Meets(reflowArrow(line, focus), boxes)
<1>1. PICK from \in ShapeBox, to \in ShapeBox : from = boxes[line.from] /\ to = boxes[line.to]
  BY DEF Scene
<1>2. PICK ends : ends = solveArrowEndpoints(from, to, focus, Centre(from), Centre(to))
  OBVIOUS
<1>3. Centre(from) \in Point /\ Centre(to) \in Point
  BY CentreTyped
<1>4. ends = <<ends[1], ends[2]>> /\ Reaches(from, ends[1]) /\ Reaches(to, ends[2])
  BY <1>2, <1>3, EndpointsAre
<1>5. ends \in Path /\ Len(ends) = 2
  BY <1>4, PairMeets
<1>6. PICK new : new = [line EXCEPT !.focus = focus, !.points = ends]
  OBVIOUS
<1>7. reflowArrow(line, focus) = new
  BY <1>1, <1>2, <1>6 DEF reflowArrow
<1>8. new = [id |-> id, from |-> line.from, to |-> line.to, label |-> line.label, focus |-> focus, points |-> ends]
  <2>1. PICK f, t, l, o, p : /\ line = [id |-> id, from |-> f, to |-> t, label |-> l, focus |-> o, points |-> p]
                             /\ f = line.from /\ t = line.to /\ l = line.label
    BY DEF IsLine
  <2> QED BY <1>6, <2>1
<1>9. /\ new.id = id /\ new.from = line.from /\ new.to = line.to /\ new.label = line.label
      /\ new.focus = focus /\ new.points = ends
  BY <1>8
<1>10. IsLine(new, id)
  BY <1>5, <1>8, <1>9 DEF IsLine
<1>11. SameEnds(new, line)
  BY <1>9 DEF SameEnds, IsLine
<1>12. Meets(new, boxes)
  BY <1>1, <1>4, <1>5, <1>9 DEF Meets
<1> QED BY <1>7, <1>10, <1>11, <1>12

\* The path of an arrow that follows: moved along, solved again, or only its ends.
LEMMA FollowedPath ==
  ASSUME NEW from0 \in ShapeBox, NEW to0 \in ShapeBox, NEW from \in ShapeBox, NEW to \in ShapeBox,
         from.w = from0.w, from.h = from0.h, to.w = to0.w, to.h = to0.h,
         NEW focus \in Foci, NEW path \in Path, Reaches(from0, path[1]), Reaches(to0, path[Len(path)]),
         NEW next,
         \/ Minus(from, from0) = Minus(to, to0) /\ next = [k \in DOMAIN path |-> Plus(path[k], Minus(from, from0))]
         \/ Len(path) = 2 /\ next = solveArrowEndpoints(from, to, focus, path[1], path[2])
         \/ next = [path EXCEPT ![1] = solveEndpoint(from, focus.start, path[2]),
                                ![Len(path)] = solveEndpoint(to, focus.end, path[Len(path) - 1])]
  PROVE  next \in Path /\ Reaches(from, next[1]) /\ Reaches(to, next[Len(next)])
<1>1. PICK n \in Nat : n = Len(path) /\ n >= 2 /\ DOMAIN path = 1..n /\ path \in Seq(Point)
  BY DEF Path
<1>2. 1 \in 1..n /\ n \in 1..n /\ 2 \in 1..n /\ n - 1 \in 1..n /\ 1 # n
  BY <1>1
<1>3. \A k \in 1..n : path[k] \in Point
  BY <1>1
<1>4. CASE Minus(from, from0) = Minus(to, to0) /\ next = [k \in DOMAIN path |-> Plus(path[k], Minus(from, from0))]
  <2>1. PICK by \in Point : by = Minus(from, from0) /\ by = Minus(to, to0)
    <3>1. from.x - from0.x \in Int /\ from.y - from0.y \in Int
      BY DEF ShapeBox
    <3> QED BY <1>4, <3>1, PointIs DEF Minus
  <2>2. next = [k \in 1..n |-> Plus(path[k], by)]
    BY <1>1, <1>4, <2>1
  <2>3. \A k \in 1..n : next[k] = Plus(path[k], by) /\ next[k] \in Point
    BY <1>3, <2>2, SumIs
  <2>4. next \in Seq(Point) /\ Len(next) = n
    BY <1>1, <2>2, <2>3
  <2>5. Reaches(from, Plus(path[1], by)) /\ Reaches(to, Plus(path[n], by))
    BY <1>1, <2>1, ReachedMoves
  <2>6. next[1] = Plus(path[1], by) /\ next[n] = Plus(path[n], by)
    BY <1>2, <2>3
  <2> QED BY <1>1, <2>4, <2>5, <2>6 DEF Path
<1>5. CASE Len(path) = 2 /\ next = solveArrowEndpoints(from, to, focus, path[1], path[2])
  <2>1. path[1] \in Point /\ path[2] \in Point
    BY <1>2, <1>3
  <2>2. next = <<next[1], next[2]>> /\ Reaches(from, next[1]) /\ Reaches(to, next[2])
    BY <1>5, <2>1, EndpointsAre
  <2> QED BY <2>2, PairMeets
<1>6. CASE next = [path EXCEPT ![1] = solveEndpoint(from, focus.start, path[2]),
                              ![Len(path)] = solveEndpoint(to, focus.end, path[Len(path) - 1])]
  <2>1. PICK first, last : first = solveEndpoint(from, focus.start, path[2]) /\ last = solveEndpoint(to, focus.end, path[n - 1])
    OBVIOUS
  <2>2. focus.start \in Focus /\ focus.end \in Focus
    BY DEF Foci
  <2>3. path[2] \in Point /\ path[n - 1] \in Point
    BY <1>2, <1>3
  <2>4. Reaches(from, first) /\ Reaches(to, last)
    BY <2>1, <2>2, <2>3, EndpointIs
  <2>5. first \in Point /\ last \in Point
    BY <2>4 DEF Reaches
  <2>6. next = [path EXCEPT ![1] = first, ![n] = last]
    BY <1>1, <1>6, <2>1
  <2>7. next \in Seq(Point) /\ Len(next) = n
    BY <1>1, <2>5, <2>6
  <2>8. next[1] = first /\ next[n] = last
    BY <1>1, <1>2, <2>6
  <2> QED BY <1>1, <2>4, <2>7, <2>8 DEF Path
<1> QED BY <1>4, <1>5, <1>6

\* The shapes of an arrow that was there have moved at most.
SameSize(a, b) == a.w = b.w /\ a.h = b.h /\ a.type = b.type

LEMMA ReanchorRuns ==
  ASSUME boxes \in Scene(DOMAIN boxes), batch.before \in Scene(DOMAIN batch.before),
         NEW id, NEW line, IsLine(line, id), line.from \in DOMAIN boxes, line.to \in DOMAIN boxes,
         line.from \in DOMAIN batch.before, line.to \in DOMAIN batch.before,
         SameSize(boxes[line.from], batch.before[line.from]), SameSize(boxes[line.to], batch.before[line.to]),
         Meets(line, batch.before)
  PROVE  /\ IsLine(reanchorArrow(line), id) /\ SameEnds(reanchorArrow(line), line)
         /\ Meets(reanchorArrow(line), boxes)
<1>1. PICK from0 \in ShapeBox, to0 \in ShapeBox, from \in ShapeBox, to \in ShapeBox :
        /\ from0 = batch.before[line.from] /\ to0 = batch.before[line.to]
        /\ from = boxes[line.from] /\ to = boxes[line.to]
  BY DEF Scene
<1>2. PICK path \in Path, focus \in Foci : path = line.points /\ focus = line.focus
  BY DEF IsLine
<1>3. PICK next : next = reanchorArrow(line).points
  OBVIOUS
<1>4. reanchorArrow(line) = [line EXCEPT !.points = next]
  BY <1>3 DEF reanchorArrow, IsLine
<1>5. \/ Minus(from, from0) = Minus(to, to0) /\ next = [k \in DOMAIN path |-> Plus(path[k], Minus(from, from0))]
      \/ Len(path) = 2 /\ next = solveArrowEndpoints(from, to, focus, path[1], path[2])
      \/ next = [path EXCEPT ![1] = solveEndpoint(from, focus.start, path[2]),
                             ![Len(path)] = solveEndpoint(to, focus.end, path[Len(path) - 1])]
  BY <1>1, <1>2, <1>3 DEF reanchorArrow, IsLine
<1>6. next \in Path /\ Reaches(from, next[1]) /\ Reaches(to, next[Len(next)])
  <2>1. from.w = from0.w /\ from.h = from0.h /\ to.w = to0.w /\ to.h = to0.h
    BY <1>1 DEF SameSize
  <2>2. Reaches(from0, path[1]) /\ Reaches(to0, path[Len(path)])
    BY <1>1, <1>2 DEF Meets
  <2> QED BY <1>5, <2>1, <2>2, FollowedPath
<1>7. PICK new : new = [line EXCEPT !.points = next]
  OBVIOUS
<1>8. new = [id |-> id, from |-> line.from, to |-> line.to, label |-> line.label, focus |-> line.focus, points |-> next]
  BY <1>7 DEF IsLine
<1>9. /\ new.id = id /\ new.from = line.from /\ new.to = line.to /\ new.label = line.label
      /\ new.focus = line.focus /\ new.points = next
  BY <1>8
<1>10. IsLine(new, id)
  BY <1>6, <1>8, <1>9 DEF IsLine
<1>11. SameEnds(new, line)
  BY <1>9 DEF SameEnds, IsLine
<1>12. Meets(new, boxes)
  BY <1>1, <1>6, <1>9 DEF Meets
<1> QED BY <1>4, <1>7, <1>10, <1>11, <1>12

-----------------------------------------------------------------------------
(* One route: what routeArrowElement leaves.                               *)

\* What has been routed so far: the segments and labels that are in the way of the next.
Held(acc) == Drawable(acc.occupied) /\ \A b \in acc.labels : Measured(b)

\* The boxes of shapes are measured.
LEMMA SolidMeasured ==
  ASSUME boxes \in Scene(DOMAIN boxes), NEW S \in SUBSET DOMAIN boxes
  PROVE  \A b \in {boxes[i] : i \in S} : Measured(b)
  BY BoxFacts DEF Scene

\* Segments that were drawn and those of another path.
LEMMA DrawableJoin ==
  ASSUME NEW occupied, Drawable(occupied), NEW points \in Path
  PROVE  Drawable(occupied \cup Segments(points))
<1>1. Drawable(Segments(points))
  BY SegmentsAre
<1>2. IsFiniteSet(occupied \cup Segments(points))
  BY <1>1, FS_Union DEF Drawable
<1> QED BY <1>1, <1>2 DEF Drawable

\* A route to an arrow between shapes: it runs between them, and through none other without a warning.
LEMMA RouteRuns ==
  ASSUME boxes \in Scene(DOMAIN boxes), NEW id, NEW line, IsLine(line, id), line.from \in DOMAIN boxes,
         line.to \in DOMAIN boxes, Meets(line, boxes), NEW acc, Held(acc), NEW offset \in Int
  PROVE  \E route : /\ RouteArrow(acc, line, offset) = Routed(acc, line, route)
                    /\ route.points \in Path
                    /\ Reaches(boxes[line.from], route.points[1])
                    /\ Reaches(boxes[line.to], route.points[Len(route.points)])
                    /\ \/ route.warned = TRUE
                       \/ ~PathHits(route.points, Others(line, boxes), DEFAULT_CLEARANCE)
<1>1. PICK through, ends : through = TransparentTo(boxes, line) /\ ends = {line.from, line.to}
  OBVIOUS
<1>2. PICK solid, obstacles, labelObstacles, kept :
        /\ solid = DOMAIN boxes \ through
        /\ obstacles = acc.labels \cup {boxes[i] : i \in solid \ ends}
        /\ labelObstacles = acc.labels \cup {boxes[i] : i \in solid} \cup UNION {Borders(boxes[i]) : i \in through}
        /\ kept = IF line.id \notin batch.drawn THEN line.points ELSE <<>>
  OBVIOUS
<1>3. PICK r : r = [from |-> boxes[line.from], to |-> boxes[line.to], loop |-> line.from = line.to,
        focus |-> line.focus, offset |-> offset, label |-> line.label,
        start |-> Head(line.points), end |-> Last(line.points),
        obstacles |-> obstacles, labelObstacles |-> labelObstacles, occupied |-> acc.occupied, kept |-> kept]
  OBVIOUS
<1>4. PICK route : route = routePlannedArrow(r)
  OBVIOUS
<1>5. RouteArrow(acc, line, offset) = Routed(acc, line, route)
  BY <1>1, <1>2, <1>3, <1>4 DEF RouteArrow
<1>6. /\ r.from = boxes[line.from] /\ r.to = boxes[line.to] /\ r.loop = (line.from = line.to) /\ r.focus = line.focus
      /\ r.offset = offset /\ r.label = line.label /\ r.start = Head(line.points) /\ r.end = Last(line.points)
      /\ r.obstacles = obstacles /\ r.occupied = acc.occupied /\ r.kept = kept
  BY <1>3
<1>7. line.points \in Seq(Point) /\ Len(line.points) >= 2 /\ Len(line.points) \in Nat
  BY DEF IsLine, Path
<1>8. Head(line.points) = line.points[1] /\ Last(line.points) = line.points[Len(line.points)]
  BY <1>7 DEF Last
<1>9. boxes[line.from] \in ShapeBox /\ boxes[line.to] \in ShapeBox
  BY DEF Scene
<1>10. \A b \in r.obstacles : Measured(b)
  <2>1. solid \ ends \in SUBSET DOMAIN boxes
    BY <1>2
  <2>2. \A b \in {boxes[i] : i \in solid \ ends} : Measured(b)
    BY <2>1, SolidMeasured
  <2> QED BY <1>2, <1>6, <2>2 DEF Held
<1>11. Request(r)
  <2>1. r.from \in ShapeBox /\ r.to \in ShapeBox /\ r.focus \in Foci /\ r.offset \in Int
    BY <1>6, <1>9 DEF IsLine
  <2>2. r.loop \in BOOLEAN /\ (r.loop => r.from = r.to)
    BY <1>6
  <2>3. Reaches(r.from, r.start) /\ Reaches(r.to, r.end)
    BY <1>6, <1>8 DEF Meets
  <2>4. Drawable(r.occupied) /\ r.label \in [w: Nat, h: Nat]
    BY <1>6 DEF Held, IsLine
  <2> QED BY <1>10, <2>1, <2>2, <2>3, <2>4 DEF Request
<1>12. r.kept = <<>> \/ (Runs(r, r.kept) /\ Len(r.kept) >= 2)
  <2>1. CASE line.id \notin batch.drawn
    <3>1. r.kept = line.points
      BY <1>2, <1>6, <2>1
    <3> QED BY <1>6, <1>7, <3>1 DEF Runs, Meets
  <2>2. CASE ~(line.id \notin batch.drawn)
    BY <1>2, <1>6, <2>2
  <2> QED BY <2>1, <2>2
<1>13. Good(r, route)
  BY <1>4, <1>11, <1>12, PlannedIsGood
<1>14. /\ route.points \in Seq(Point) /\ Len(route.points) >= 2
       /\ Reaches(boxes[line.from], route.points[1]) /\ Reaches(boxes[line.to], route.points[Len(route.points)])
       /\ route.warned = TRUE \/ ~PathHits(route.points, obstacles, DEFAULT_CLEARANCE)
  BY <1>6, <1>13 DEF Good, Runs
<1>15. Others(line, boxes) \subseteq obstacles
  BY <1>1, <1>2 DEF Others
<1>16. ~PathHits(route.points, obstacles, DEFAULT_CLEARANCE) => ~PathHits(route.points, Others(line, boxes), DEFAULT_CLEARANCE)
  BY <1>15 DEF PathHits
<1> QED BY <1>5, <1>14, <1>16 DEF Path

\* What the routes so far have made of the arrows: those at hand have new routes, the others the old.
Done(acc, ids) ==
  /\ Held(acc) /\ DOMAIN acc.arrows = DOMAIN arrows
  /\ \A k \in DOMAIN arrows :
       /\ IsLine(acc.arrows[k], k) /\ SameEnds(acc.arrows[k], arrows[k])
       /\ k \notin ids => acc.arrows[k] = arrows[k]
       /\ k \in ids => RunsWell(acc.arrows[k], boxes, acc.warned)

\* Another path and focus for one arrow.
LEMMA RoutedIsDone ==
  ASSUME NEW acc, NEW ids, Done(acc, ids), NEW k \in DOMAIN arrows, NEW line, IsLine(line, k), SameEnds(line, arrows[k]),
         NEW route, route.points \in Path,
         Reaches(boxes[line.from], route.points[1]), Reaches(boxes[line.to], route.points[Len(route.points)]),
         route.warned = TRUE \/ ~PathHits(route.points, Others(line, boxes), DEFAULT_CLEARANCE)
  PROVE  Done(Routed(acc, line, route), ids \cup {k})
<1>1. PICK points, focus : points = route.points /\ focus = line.focus
  OBVIOUS
<1>2. PICK next : next = Routed(acc, line, route)
  OBVIOUS
<1>3. line.id = k /\ line.label \in [w: Nat, h: Nat] /\ focus \in Foci /\ points \in Path
  BY <1>1 DEF IsLine
<1>4. PICK old : /\ old = acc.arrows[k] /\ IsLine(old, k) /\ SameEnds(old, arrows[k])
  BY DEF Done
<1>5. PICK new : new = [id |-> k, from |-> old.from, to |-> old.to, label |-> old.label, focus |-> focus, points |-> points]
  OBVIOUS
<1>6. [[old EXCEPT !.points = points] EXCEPT !.focus = focus] = new
  <2>1. PICK f, t, l, o, p : f = old.from /\ t = old.to /\ l = old.label /\ o = old.focus /\ p = old.points
    OBVIOUS
  <2>2. old = [id |-> k, from |-> f, to |-> t, label |-> l, focus |-> o, points |-> p]
    BY <1>4, <2>1 DEF IsLine
  <2>3. [old EXCEPT !.points = points] = [id |-> k, from |-> f, to |-> t, label |-> l, focus |-> o, points |-> points]
    BY <2>2
  <2>4. new = [id |-> k, from |-> f, to |-> t, label |-> l, focus |-> focus, points |-> points]
    BY <1>5, <2>1
  <2>5. PICK part : part = [id |-> k, from |-> f, to |-> t, label |-> l, focus |-> o, points |-> points]
    OBVIOUS
  <2>6. [part EXCEPT !.focus = focus] = new
    BY <2>4, <2>5
  <2>7. [old EXCEPT !.points = points] = part
    BY <2>3, <2>5
  <2> QED BY <2>6, <2>7
<1>7. PICK lines : lines = acc.arrows /\ DOMAIN lines = DOMAIN arrows
  BY DEF Done
<1>8. next.arrows = [lines EXCEPT ![k].points = points, ![k].focus = focus]
  BY <1>1, <1>2, <1>3, <1>7 DEF Routed
<1>9. next.arrows = [lines EXCEPT ![k] = new]
  <2>1. lines[k] = old
    BY <1>4, <1>7
  <2>2. next.arrows = [lines EXCEPT ![k] = [[lines[k] EXCEPT !.points = points] EXCEPT !.focus = focus]]
    BY <1>8
  <2> QED BY <1>6, <2>1, <2>2
<1>10. DOMAIN next.arrows = DOMAIN arrows /\ next.arrows[k] = new /\ \A j \in DOMAIN arrows : j # k => next.arrows[j] = acc.arrows[j]
  BY <1>7, <1>9
<1>11. /\ next.occupied = acc.occupied \cup Segments(points)
       /\ next.labels = acc.labels \cup (IF line.label = NoLabel THEN {} ELSE {LabelBox(points, line.label)})
       /\ next.warned = acc.warned \cup (IF route.warned THEN {k} ELSE {})
  BY <1>1, <1>2, <1>3 DEF Routed
<1>12. Held(next)
  <2>1. Drawable(next.occupied)
    <3>1. Drawable(acc.occupied)
      BY DEF Done, Held
    <3>2. Drawable(acc.occupied \cup Segments(points))
      BY <1>3, <3>1, DrawableJoin
    <3> QED BY <1>11, <3>2
  <2>2. Measured(LabelBox(points, line.label))
    BY <1>3, LabelMeasured
  <2> QED BY <1>11, <2>1, <2>2 DEF Done, Held
<1>13. /\ new.id = k /\ new.from = old.from /\ new.to = old.to /\ new.label = old.label
       /\ new.focus = focus /\ new.points = points
  BY <1>5
<1>14. IsLine(new, k) /\ SameEnds(new, arrows[k])
  <2>1. old.label \in [w: Nat, h: Nat]
    BY <1>4 DEF IsLine
  <2>2. IsLine(new, k)
    BY <1>3, <1>5, <1>13, <2>1 DEF IsLine
  <2>3. SameEnds(new, arrows[k])
    BY <1>4, <1>13 DEF SameEnds, IsLine
  <2> QED BY <2>2, <2>3
<1>15. new.from = line.from /\ new.to = line.to
  BY <1>4, <1>13 DEF SameEnds
<1>16. RunsWell(new, boxes, next.warned)
  <2>1. Meets(new, boxes)
    BY <1>1, <1>13, <1>15 DEF Meets
  <2>2. Others(new, boxes) = Others(line, boxes)
    BY <1>15 DEF Others, TransparentTo
  <2>3. k \in next.warned \/ ~PathHits(points, Others(new, boxes), DEFAULT_CLEARANCE)
    BY <1>1, <1>11, <2>2
  <2> QED BY <1>13, <2>1, <2>3 DEF RunsWell
<1>17. ASSUME NEW j \in DOMAIN arrows, j # k
       PROVE  /\ IsLine(next.arrows[j], j) /\ SameEnds(next.arrows[j], arrows[j])
              /\ j \notin ids => next.arrows[j] = arrows[j]
              /\ j \in ids => RunsWell(next.arrows[j], boxes, next.warned)
  <2>1. acc.warned \subseteq next.warned
    BY <1>11
  <2>2. RunsWell(acc.arrows[j], boxes, acc.warned) => RunsWell(acc.arrows[j], boxes, next.warned)
    BY <2>1 DEF RunsWell
  <2> QED BY <1>10, <1>17, <2>2 DEF Done
<1>18. Done(next, ids \cup {k})
  BY <1>10, <1>12, <1>14, <1>16, <1>17 DEF Done
<1> QED BY <1>2, <1>18

\* What a batch changed: shapes it did not create are those from before, and have the size they had;
\* arrows it did not draw ran well among the shapes from before.
Known ==
  /\ {"created", "drawn", "before"} \subseteq DOMAIN batch
  /\ batch.before \in Scene(DOMAIN batch.before)
  /\ batch.drawn \subseteq DOMAIN arrows
  /\ \A i \in DOMAIN boxes :
       \/ i \in batch.created
       \/ /\ i \in DOMAIN batch.before /\ SameSize(boxes[i], batch.before[i])
          /\ i \in batch.moved \/ boxes[i] = batch.before[i]
  /\ \A k \in DOMAIN arrows \ batch.drawn :
       /\ arrows[k].from \notin batch.created /\ arrows[k].to \notin batch.created
       /\ {arrows[k].from, arrows[k].to} \subseteq DOMAIN batch.before => RunsWell(arrows[k], batch.before, reported)

\* An arrow that was there, with both its shapes, had them before.
LEMMA OldArrow ==
  ASSUME Known, Lines(arrows), NEW k \in DOMAIN arrows \ batch.drawn, arrows[k].from \in DOMAIN boxes, arrows[k].to \in DOMAIN boxes
  PROVE  /\ arrows[k].from \in DOMAIN batch.before /\ arrows[k].to \in DOMAIN batch.before
         /\ SameSize(boxes[arrows[k].from], batch.before[arrows[k].from])
         /\ SameSize(boxes[arrows[k].to], batch.before[arrows[k].to])
         /\ RunsWell(arrows[k], batch.before, reported)
<1>1. PICK line, from, to : line = arrows[k] /\ from = line.from /\ to = line.to
  OBVIOUS
<1>2. from \notin batch.created /\ to \notin batch.created
  BY <1>1 DEF Known
<1>3. /\ from \in DOMAIN batch.before /\ SameSize(boxes[from], batch.before[from])
      /\ to \in DOMAIN batch.before /\ SameSize(boxes[to], batch.before[to])
  BY <1>1, <1>2 DEF Known
<1>4. RunsWell(arrows[k], batch.before, reported)
  BY <1>1, <1>3 DEF Known
<1> QED BY <1>1, <1>3, <1>4

\* One arrow more.
LEMMA ReroutedIsDone ==
  ASSUME Known, Lines(arrows), IsFiniteSet(DOMAIN boxes), boxes \in Scene(DOMAIN boxes),
         NEW edges, IsFiniteSet(DOMAIN edges), NEW e \in DOMAIN edges, NEW k \in DOMAIN arrows, edges[e] = arrows[k],
         arrows[k].from \in DOMAIN boxes, arrows[k].to \in DOMAIN boxes,
         NEW focus, focus = assignPortFocus(boxes, edges), NEW acc, NEW ids, Done(acc, ids)
  PROVE  Done(Rerouted(acc, e, edges, focus), ids \cup {k})
<1>1. PICK old : old = arrows[k] /\ old = edges[e] /\ IsLine(old, k)
  BY DEF Lines
<1>2. old.id = k /\ old.from \in DOMAIN boxes /\ old.to \in DOMAIN boxes
  BY <1>1 DEF IsLine
<1>3. PICK line : line = IF k \in batch.drawn THEN reflowArrow(old, focus[e]) ELSE reanchorArrow(old)
  OBVIOUS
<1>4. IsLine(line, k) /\ SameEnds(line, old) /\ Meets(line, boxes)
  <2>1. CASE k \in batch.drawn
    <3>1. focus[e] \in Foci
      BY PortsTyped
    <3> QED BY <1>1, <1>2, <1>3, <2>1, <3>1, ReflowRuns
  <2>2. CASE k \notin batch.drawn
    <3>1. /\ old.from \in DOMAIN batch.before /\ old.to \in DOMAIN batch.before
          /\ SameSize(boxes[old.from], batch.before[old.from]) /\ SameSize(boxes[old.to], batch.before[old.to])
          /\ RunsWell(old, batch.before, reported)
      BY <1>1, <1>2, <2>2, OldArrow
    <3>2. Meets(old, batch.before) /\ batch.before \in Scene(DOMAIN batch.before)
      BY <3>1 DEF RunsWell, Known
    <3>3. line = reanchorArrow(old)
      BY <1>3, <2>2
    <3> QED BY <1>1, <1>2, <3>1, <3>2, <3>3, ReanchorRuns
  <2> QED BY <2>1, <2>2
<1>5. PICK offset \in Int : offset = assignParallelOffsets(order, edges, e)
  BY OffsetsTyped
<1>6. Rerouted(acc, e, edges, focus) = RouteArrow(acc, line, offset)
  BY <1>1, <1>2, <1>3, <1>5 DEF Rerouted
<1>7. line.from \in DOMAIN boxes /\ line.to \in DOMAIN boxes
  BY <1>2, <1>4 DEF SameEnds
<1>8. Held(acc)
  BY DEF Done
<1>9. PICK route : /\ RouteArrow(acc, line, offset) = Routed(acc, line, route)
                   /\ route.points \in Path
                   /\ Reaches(boxes[line.from], route.points[1])
                   /\ Reaches(boxes[line.to], route.points[Len(route.points)])
                   /\ \/ route.warned = TRUE
                      \/ ~PathHits(route.points, Others(line, boxes), DEFAULT_CLEARANCE)
  BY <1>4, <1>7, <1>8, RouteRuns
<1>10. Done(Routed(acc, line, route), ids \cup {k})
  BY <1>1, <1>4, <1>9, RoutedIsDone
<1> QED BY <1>6, <1>9, <1>10

\* The ids of the first n arrows in the queue.
Queued(edges, queue, n) == {edges[queue[m]].id : m \in 1..n}

LEMMA AllRoutedIsDone ==
  ASSUME Known, Lines(arrows), IsFiniteSet(DOMAIN boxes), boxes \in Scene(DOMAIN boxes),
         NEW edges, IsFiniteSet(DOMAIN edges),
         \A e \in DOMAIN edges : \E k \in DOMAIN arrows :
            edges[e] = arrows[k] /\ arrows[k].from \in DOMAIN boxes /\ arrows[k].to \in DOMAIN boxes,
         NEW focus, focus = assignPortFocus(boxes, edges), NEW queue \in Seq(DOMAIN edges),
         NEW acc, Done(acc, {})
  PROVE  Done(AllRouted(acc, queue, edges, focus), Queued(edges, queue, Len(queue)))
<1>1. AllRouted(acc, queue, edges, focus) = Rerouting!Result(edges, focus, 0, acc, queue)
  BY DEF AllRouted, Through, RerouteStep, Rerouting!Result, Rerouting!Walk, Rerouting!Once
<1>2. Len(queue) \in Nat
  OBVIOUS
<1>3. PICK f : /\ Rerouting!Goes(f, edges, focus, 0, acc, queue, Len(queue))
               /\ Rerouting!Result(edges, focus, 0, acc, queue) = f[Len(queue)]
  BY <1>2, Rerouting!ResultIs
<1>4. f[0] = acc /\ \A n \in 1..Len(queue) : f[n] = Rerouted(f[n - 1], queue[n], edges, focus)
  BY <1>3 DEF Rerouting!Goes, RerouteStep
<1>5. PICK S : S = {n \in 0..Len(queue) : Done(f[n], Queued(edges, queue, n))}
  OBVIOUS
<1>6. 0 \in S
  <2>1. Queued(edges, queue, 0) = {}
    BY DEF Queued
  <2>2. Done(f[0], Queued(edges, queue, 0))
    BY <1>4, <2>1
  <2>3. 0 \in 0..Len(queue)
    BY <1>2
  <2> QED BY <1>5, <2>2, <2>3
<1>7. ASSUME NEW n \in 0..Len(queue) - 1, n \in S PROVE n + 1 \in S
  <2>1. n + 1 \in 1..Len(queue) /\ n + 1 \in 0..Len(queue) /\ (n + 1) - 1 = n /\ n \in Nat
    BY <1>2
  <2>2. PICK e \in DOMAIN edges : e = queue[n + 1]
    BY <2>1
  <2>3. f[n + 1] = Rerouted(f[n], e, edges, focus)
    BY <1>4, <2>1, <2>2
  <2>4. PICK k \in DOMAIN arrows : edges[e] = arrows[k] /\ arrows[k].from \in DOMAIN boxes /\ arrows[k].to \in DOMAIN boxes
    OBVIOUS
  <2>5. Done(f[n], Queued(edges, queue, n))
    BY <1>5, <1>7
  <2>6. Done(f[n + 1], Queued(edges, queue, n) \cup {k})
    BY <2>3, <2>4, <2>5, ReroutedIsDone
  <2>7. edges[e].id = k
    BY <2>4 DEF Lines, IsLine
  <2>8. Queued(edges, queue, n + 1) = Queued(edges, queue, n) \cup {k}
    <3>1. 1..n + 1 = (1..n) \cup {n + 1}
      BY <2>1
    <3> QED BY <2>2, <2>7, <3>1 DEF Queued
  <2> QED BY <1>5, <2>1, <2>6, <2>8
<1>8. Len(queue) \in S
  <2>1. \A i \in 0..Len(queue) : i \in S
    BY <1>2, <1>6, <1>7, UpTo
  <2> QED BY <1>2, <2>1
<1> QED BY <1>1, <1>3, <1>5, <1>8

\* An arrow judged to need no new route runs as well as before: its shapes are where they were,
\* and so is every other, unless it was created or moved and is not in the way.
LEMMA StayRunsWell ==
  ASSUME Known, Lines(arrows), NEW k \in DOMAIN arrows, arrows[k].from \in DOMAIN boxes, arrows[k].to \in DOMAIN boxes,
         ~routeNeedsUpdate(arrows[k])
  PROVE  RunsWell(arrows[k], boxes, reported)
<1>1. PICK line, from, to : line = arrows[k] /\ from = line.from /\ to = line.to /\ line.id = k
  BY DEF Lines, IsLine
<1>2. PICK changed : changed = batch.created \cup batch.moved
  OBVIOUS
<1>3. PICK inTheWay : inTheWay = {boxes[i] : i \in (changed \cap DOMAIN boxes) \ ({from, to} \cup TransparentTo(boxes, line))}
  OBVIOUS
<1>4. k \notin batch.drawn /\ {from, to} \cap changed = {} /\ ~PathHits(line.points, inTheWay, DEFAULT_CLEARANCE)
  BY <1>1, <1>2, <1>3 DEF routeNeedsUpdate
<1>5. from \in DOMAIN batch.before /\ to \in DOMAIN batch.before /\ RunsWell(line, batch.before, reported)
  BY <1>1, <1>4, OldArrow
<1>6. \A i \in (DOMAIN boxes) \ changed : i \in DOMAIN batch.before /\ boxes[i] = batch.before[i]
  BY <1>2 DEF Known
<1>7. boxes[from] = batch.before[from] /\ boxes[to] = batch.before[to]
  BY <1>1, <1>4, <1>6
<1>8. Meets(line, boxes)
  BY <1>1, <1>5, <1>7 DEF RunsWell, Meets
<1>9. ASSUME k \notin reported PROVE ~PathHits(line.points, Others(line, boxes), DEFAULT_CLEARANCE)
  <2>1. ~PathHits(line.points, Others(line, batch.before), DEFAULT_CLEARANCE)
    BY <1>1, <1>5, <1>9 DEF RunsWell
  <2>2. ASSUME NEW b \in Others(line, boxes) PROVE b \in inTheWay \/ b \in Others(line, batch.before)
    <3>1. PICK i \in DOMAIN boxes : b = boxes[i] /\ i \notin {from, to} /\ i \notin TransparentTo(boxes, line)
      BY <1>1, <2>2 DEF Others
    <3>2. CASE i \in changed
      BY <1>3, <3>1, <3>2
    <3>3. CASE i \notin changed
      <4>1. i \in DOMAIN batch.before /\ boxes[i] = batch.before[i]
        BY <1>6, <3>3
      <4>2. i \notin TransparentTo(batch.before, line)
        BY <1>1, <1>7, <3>1, <4>1 DEF TransparentTo
      <4> QED BY <1>1, <3>1, <4>1, <4>2 DEF Others
    <3> QED BY <3>2, <3>3
  <2> QED BY <1>4, <2>1, <2>2 DEF PathHits
<1> QED BY <1>1, <1>8, <1>9 DEF RunsWell

\* Arrows between shapes run well.
AllRunWell(lines, at, warned) ==
  \A k \in DOMAIN lines : {lines[k].from, lines[k].to} \subseteq DOMAIN at => RunsWell(lines[k], at, warned)

\* The edges are the arrows between shapes.
LEMMA EdgesAre ==
  ASSUME NEW S, arrows \in Seq(S)
  PROVE  /\ Edges \in Seq(ToSet(arrows)) /\ Len(Edges) \in Nat /\ DOMAIN Edges = 1..Len(Edges) /\ IsFiniteSet(DOMAIN Edges)
         /\ \A e \in DOMAIN Edges : \E k \in DOMAIN arrows :
              Edges[e] = arrows[k] /\ arrows[k].from \in DOMAIN boxes /\ arrows[k].to \in DOMAIN boxes
         /\ \A k \in DOMAIN arrows : arrows[k].from \in DOMAIN boxes /\ arrows[k].to \in DOMAIN boxes =>
              \E e \in DOMAIN Edges : Edges[e] = arrows[k]
<1>1. PICK places : places = {n \in DOMAIN arrows : {arrows[n].from, arrows[n].to} \subseteq DOMAIN boxes}
  OBVIOUS
<1>2. Edges = Picked(arrows, places)
  BY <1>1 DEF Edges, Only
<1>3. places \in SUBSET DOMAIN arrows
  BY <1>1
<1>4. /\ Edges \in Seq({arrows[n] : n \in places})
      /\ \A n \in places : \E e \in DOMAIN Edges : Edges[e] = arrows[n]
      /\ \A e \in DOMAIN Edges : \E n \in places : Edges[e] = arrows[n]
  BY <1>2, <1>3, PickedIs
<1>5. {arrows[n] : n \in places} \subseteq ToSet(arrows)
  BY <1>3 DEF ToSet
<1>6. Edges \in Seq(ToSet(arrows)) /\ Len(Edges) \in Nat /\ DOMAIN Edges = 1..Len(Edges)
  BY <1>4, <1>5
<1>7. IsFiniteSet(DOMAIN Edges)
  BY <1>6, FS_Interval
<1> QED BY <1>1, <1>4, <1>6, <1>7

\* The members of what is picked are those at the places.
LEMMA PickedHas ==
  ASSUME NEW S, NEW seq \in Seq(S), NEW places \in SUBSET DOMAIN seq
  PROVE  Picked(seq, places) \in Seq(S) /\ ToSet(Picked(seq, places)) = {seq[n] : n \in places}
<1>1. PICK picked : picked = Picked(seq, places)
  OBVIOUS
<1>2. /\ \A n \in places : \E k \in DOMAIN picked : picked[k] = seq[n]
      /\ \A k \in DOMAIN picked : \E n \in places : picked[k] = seq[n]
  BY <1>1, PickedIs
<1>3. picked \in Seq(S)
  BY <1>1, PickedWithin
<1>4. {picked[k] : k \in DOMAIN picked} = {seq[n] : n \in places}
  BY <1>2
<1> QED BY <1>1, <1>3, <1>4 DEF ToSet

\* What one sequence or the other has, both together have.
LEMMA TogetherHave ==
  ASSUME NEW S, NEW first \in Seq(S), NEW second \in Seq(S)
  PROVE  first \o second \in Seq(S) /\ ToSet(first \o second) = ToSet(first) \cup ToSet(second)
<1>1. PICK m \in Nat, n \in Nat : m = Len(first) /\ n = Len(second) /\ DOMAIN first = 1..m /\ DOMAIN second = 1..n
  OBVIOUS
<1>2. PICK both : both = first \o second
  OBVIOUS
<1>3. both \in Seq(S) /\ Len(both) = m + n
  BY <1>1, <1>2
<1>4. \A k \in 1..m + n : both[k] = IF k <= m THEN first[k] ELSE second[k - m]
  BY <1>1, <1>2
<1>5. ASSUME NEW k \in 1..m + n PROVE (\E j \in 1..m : first[j] = both[k]) \/ (\E j \in 1..n : second[j] = both[k])
  <2>1. CASE k <= m
    BY <1>4, <2>1
  <2>2. CASE ~(k <= m)
    <3>1. k - m \in 1..n
      BY <2>2
    <3> QED BY <1>4, <2>2, <3>1
  <2> QED BY <2>1, <2>2
<1>6. ASSUME NEW j \in 1..m PROVE \E k \in 1..m + n : both[k] = first[j]
  <2>1. j \in 1..m + n /\ j <= m
    OBVIOUS
  <2> QED BY <1>4, <2>1
<1>7. ASSUME NEW j \in 1..n PROVE \E k \in 1..m + n : both[k] = second[j]
  <2>1. j + m \in 1..m + n /\ ~(j + m <= m) /\ (j + m) - m = j
    OBVIOUS
  <2>2. both[j + m] = second[j]
    BY <1>4, <2>1
  <2> QED BY <2>1, <2>2
<1>8. DOMAIN both = 1..m + n
  BY <1>3
<1>9. {both[k] : k \in 1..m + n} = {first[j] : j \in 1..m} \cup {second[j] : j \in 1..n}
  <2>1. {both[k] : k \in 1..m + n} \subseteq {first[j] : j \in 1..m} \cup {second[j] : j \in 1..n}
    BY <1>5
  <2>2. {first[j] : j \in 1..m} \subseteq {both[k] : k \in 1..m + n}
    BY <1>6
  <2>3. {second[j] : j \in 1..n} \subseteq {both[k] : k \in 1..m + n}
    BY <1>7
  <2> QED BY <2>1, <2>2, <2>3
<1> QED BY <1>1, <1>2, <1>3, <1>8, <1>9 DEF ToSet

\* Labelled arrows first, the queue has what needs a route and nothing else.
LEMMA SortedHas ==
  ASSUME NEW S, NEW affected \in Seq(S), NEW M \in SUBSET DOMAIN affected, NEW N, N = (DOMAIN affected) \ M
  PROVE  /\ Picked(affected, M) \o Picked(affected, N) \in Seq(S)
         /\ ToSet(Picked(affected, M) \o Picked(affected, N)) = ToSet(affected)
<1>1. PICK first, second : first = Picked(affected, M) /\ second = Picked(affected, N)
  OBVIOUS
<1>2. first \in Seq(S) /\ ToSet(first) = {affected[n] : n \in M}
  BY <1>1, PickedHas
<1>3. N \in SUBSET DOMAIN affected
  OBVIOUS
<1>4. second \in Seq(S) /\ ToSet(second) = {affected[n] : n \in N}
  BY <1>1, <1>3, PickedHas
<1>5. first \o second \in Seq(S) /\ ToSet(first \o second) = ToSet(first) \cup ToSet(second)
  BY <1>2, <1>4, TogetherHave
<1>6. ToSet(first) \cup ToSet(second) = ToSet(affected)
  BY <1>2, <1>4 DEF ToSet
<1> QED BY <1>1, <1>5, <1>6

\* The whole pass: every arrow between shapes runs well after it.
LEMMA RouteAllIsGood ==
  ASSUME Known, Lines(arrows), Labelled(arrows), IsFiniteSet(DOMAIN boxes), boxes \in Scene(DOMAIN boxes),
         NEW warned, warned = (reported \ RouteAll.routed) \cup RouteAll.done.warned
  PROVE  Lines(RouteAll.done.arrows) /\ AllRunWell(RouteAll.done.arrows, boxes, warned)
<1>1. PICK edges, stay : edges = Edges /\ stay = {e \in DOMAIN edges : ~routeNeedsUpdate(edges[e])}
  OBVIOUS
<1>2. /\ edges \in Seq(ToSet(arrows)) /\ Len(edges) \in Nat /\ DOMAIN edges = 1..Len(edges) /\ IsFiniteSet(DOMAIN edges)
      /\ \A e \in DOMAIN edges : \E k \in DOMAIN arrows :
           edges[e] = arrows[k] /\ arrows[k].from \in DOMAIN boxes /\ arrows[k].to \in DOMAIN boxes
      /\ \A k \in DOMAIN arrows : arrows[k].from \in DOMAIN boxes /\ arrows[k].to \in DOMAIN boxes =>
           \E e \in DOMAIN edges : edges[e] = arrows[k]
  <2>1. arrows \in Seq(ToSet(arrows))
    BY DEF Labelled
  <2> QED BY <1>1, <2>1, EdgesAre
<1>3. PICK places, N : places = [e \in DOMAIN edges |-> e] /\ N = {n \in DOMAIN places : places[n] \notin stay}
  OBVIOUS
<1>4. PICK affected : affected = Picked(places, N)
  OBVIOUS
<1>5. affected \in Seq(DOMAIN edges) /\ ToSet(affected) = (DOMAIN edges) \ stay
  <2>1. places \in Seq(DOMAIN edges) /\ DOMAIN places = DOMAIN edges /\ \A e \in DOMAIN edges : places[e] = e
    BY <1>2, <1>3
  <2>2. N \in SUBSET DOMAIN places
    BY <1>3
  <2>3. affected \in Seq(DOMAIN edges) /\ ToSet(affected) = {places[n] : n \in N}
    BY <1>4, <2>1, <2>2, PickedHas
  <2>4. {places[n] : n \in N} = (DOMAIN edges) \ stay
    BY <1>3, <2>1
  <2> QED BY <2>3, <2>4
<1>6. PICK P, Q : /\ P = {n \in DOMAIN affected : edges[affected[n]].label # NoLabel}
                  /\ Q = {n \in DOMAIN affected : ~(edges[affected[n]].label # NoLabel)}
  OBVIOUS
<1>7. PICK queue : queue = Picked(affected, P) \o Picked(affected, Q)
  OBVIOUS
<1>8. queue \in Seq(DOMAIN edges) /\ ToSet(queue) = (DOMAIN edges) \ stay
  <2>1. P \in SUBSET DOMAIN affected /\ Q = (DOMAIN affected) \ P
    BY <1>6
  <2> QED BY <1>5, <1>7, <2>1, SortedHas
<1>9. PICK start : start = [arrows |-> arrows, warned |-> {},
                occupied |-> UNION {Segments(edges[e].points) : e \in stay},
                labels |-> {LabelBox(edges[e].points, edges[e].label) : e \in {f \in stay : edges[f].label # NoLabel}}]
  OBVIOUS
<1>10. PICK focus : focus = assignPortFocus(boxes, edges)
  OBVIOUS
<1>11. PICK done : done = AllRouted(start, queue, edges, focus)
  OBVIOUS
<1>12. /\ RouteAll.done = done
       /\ RouteAll.routed = {edges[e].id : e \in ToSet(affected)}
  <2>1. RouteAll.done = done
    BY <1>1, <1>3, <1>4, <1>6, <1>7, <1>9, <1>10, <1>11, ZenonT(60) DEF RouteAll, Only
  <2>2. RouteAll.routed = {edges[e].id : e \in ToSet(affected)}
    BY <1>1, <1>3, <1>4, ZenonT(60) DEF RouteAll, Only
  <2> QED BY <2>1, <2>2
<1>13. \A e \in DOMAIN edges : edges[e].points \in Path /\ edges[e].label \in [w: Nat, h: Nat]
  BY <1>2 DEF Lines, IsLine
<1>14. Held(start)
  <2>1. PICK F : F = {Segments(edges[e].points) : e \in stay}
    OBVIOUS
  <2>2. \A s \in F : Drawable(s)
    BY <1>1, <1>13, <2>1, SegmentsAre
  <2>3. IsFiniteSet(F)
    <3>1. IsFiniteSet(stay)
      BY <1>1, <1>2, FS_Subset
    <3>2. PICK g : g = [e \in stay |-> Segments(edges[e].points)]
      OBVIOUS
    <3>3. g \in Surjection(stay, F)
      BY <2>1, <3>2 DEF Surjection
    <3> QED BY <3>1, <3>3, FS_Surjection
  <2>4. IsFiniteSet(UNION F)
    BY <2>2, <2>3, FS_UNION DEF Drawable
  <2>5. Drawable(UNION F)
    BY <2>2, <2>4 DEF Drawable
  <2>6. start.occupied = UNION F
    BY <1>9, <2>1
  <2>7. \A b \in start.labels : Measured(b)
    <3> SUFFICES ASSUME NEW b \in start.labels PROVE Measured(b)
      OBVIOUS
    <3>1. PICK e \in DOMAIN edges : b = LabelBox(edges[e].points, edges[e].label)
      BY <1>1, <1>9
    <3> QED BY <1>13, <3>1, LabelMeasured
  <2> QED BY <2>5, <2>6, <2>7 DEF Held
<1>15. Done(start, {})
  <2>1. start.arrows = arrows
    BY <1>9
  <2>2. \A k \in DOMAIN arrows : SameEnds(arrows[k], arrows[k])
    BY DEF SameEnds
  <2> QED BY <1>14, <2>1, <2>2 DEF Done, Lines
<1>16. PICK ids : ids = Queued(edges, queue, Len(queue))
  OBVIOUS
<1>17. Done(done, ids)
  BY <1>2, <1>8, <1>10, <1>11, <1>15, <1>16, AllRoutedIsDone
<1>18. ids = RouteAll.routed
  <2>1. DOMAIN queue = 1..Len(queue)
    BY <1>8
  <2>2. ids = {edges[e].id : e \in ToSet(queue)}
    BY <1>16, <2>1 DEF Queued, ToSet
  <2> QED BY <1>5, <1>8, <1>12, <2>2
<1>19. Lines(done.arrows)
  BY <1>17 DEF Done, Lines
<1>20. done.warned \subseteq warned
  BY <1>12
<1>21. ASSUME NEW k \in DOMAIN arrows, {done.arrows[k].from, done.arrows[k].to} \subseteq DOMAIN boxes
       PROVE  RunsWell(done.arrows[k], boxes, warned)
  <2>1. arrows[k].from \in DOMAIN boxes /\ arrows[k].to \in DOMAIN boxes /\ arrows[k].id = k
    <3>1. arrows[k].id = k
      BY DEF Lines, IsLine
    <3>2. SameEnds(done.arrows[k], arrows[k])
      BY <1>17 DEF Done
    <3> QED BY <1>21, <3>1, <3>2 DEF SameEnds
  <2>2. CASE k \in ids
    <3>1. RunsWell(done.arrows[k], boxes, done.warned)
      BY <1>17, <2>2 DEF Done
    <3> QED BY <1>20, <3>1 DEF RunsWell
  <2>3. CASE k \notin ids
    <3>1. done.arrows[k] = arrows[k]
      BY <1>17, <2>3 DEF Done
    <3>2. PICK e \in DOMAIN edges : edges[e] = arrows[k]
      BY <1>2, <2>1
    <3>3. e \in stay
      BY <1>5, <1>12, <1>18, <2>1, <2>3, <3>2
    <3>4. ~routeNeedsUpdate(arrows[k])
      BY <1>1, <3>2, <3>3
    <3>5. RunsWell(arrows[k], boxes, reported)
      BY <2>1, <3>4, StayRunsWell
    <3>6. k \in reported => k \in warned
      BY <1>18, <2>3
    <3> QED BY <2>1, <3>1, <3>5, <3>6 DEF RunsWell
  <2> QED BY <2>2, <2>3
<1>22. DOMAIN done.arrows = DOMAIN arrows
  BY <1>17 DEF Done
<1> QED BY <1>12, <1>19, <1>21, <1>22 DEF AllRunWell

-----------------------------------------------------------------------------
(* The invariant of the routes.                                            *)

\* Between batches the arrows run well; within one, what changed is known.
RoutesKnown ==
  /\ Lines(arrows)
  /\ stage = "idle" => AllRunWell(arrows, boxes, reported)
  /\ stage # "idle" => Known

LEMMA RoutingKeepsRoutes == ASSUME LayoutInvariant, RoutesKnown, arrowPass PROVE RoutesKnown'
<1>1. /\ arrows' = RouteAll.done.arrows /\ boxes' = boxes /\ stage' = "idle" /\ stage # "idle"
      /\ reported' = (reported \ RouteAll.routed) \cup RouteAll.done.warned
  BY DEF arrowPass
<1>2. PICK warned : warned = reported'
  OBVIOUS
<1>3. IsFiniteSet(DOMAIN boxes) /\ boxes \in Scene(DOMAIN boxes) /\ Labelled(arrows)
  BY DEF LayoutInvariant, SceneIsShaped
<1>4. Known /\ Lines(arrows)
  BY <1>1 DEF RoutesKnown
<1>5. Lines(RouteAll.done.arrows) /\ AllRunWell(RouteAll.done.arrows, boxes, warned)
  BY <1>1, <1>2, <1>3, <1>4, RouteAllIsGood
<1>6. Lines(arrows')
  BY <1>1, <1>5
<1>7. AllRunWell(arrows', boxes', reported')
  BY <1>1, <1>2, <1>5
<1>8. Lines(arrows)'
  BY <1>6 DEF Lines, IsLine
<1>9. AllRunWell(arrows, boxes, reported)'
  BY <1>7 DEF AllRunWell, RunsWell, Meets, Others, TransparentTo
<1> QED BY <1>1, <1>8, <1>9 DEF RoutesKnown

\* Shapes that are moved keep their size and type.
LEMMA MovedKeepsSize ==
  ASSUME NEW box \in ShapeBox, NEW dx, NEW dy
  PROVE  SameSize(Moved(box, dx, dy), box)
<1>1. PICK u, v : u = box.x + dx /\ v = box.y + dy
  OBVIOUS
<1>2. Moved(box, dx, dy) = [box EXCEPT !.x = u, !.y = v]
  BY <1>1 DEF Moved
<1>3. PICK moved : moved = [box EXCEPT !.x = u, !.y = v]
  OBVIOUS
<1>4. moved.w = box.w /\ moved.h = box.h /\ moved.type = box.type
  BY <1>3 DEF ShapeBox
<1> QED BY <1>2, <1>3, <1>4 DEF SameSize

LEMMA GuardedKeepsSize ==
  ASSUME NEW at, at \in Scene(DOMAIN at), NEW proposed, NEW allowed, NEW kept, NEW corridors,
         NEW next, next = protectLayoutMoves(at, proposed, allowed, kept, corridors).boxes
  PROVE  DOMAIN next = DOMAIN at /\ \A i \in DOMAIN at : SameSize(next[i], at[i])
<1>1. PICK spread : spread = Spreads(at, proposed, kept)
  OBVIOUS
<1>2. PICK issues : issues = IF Torn(spread) THEN {"alignment"} ELSE MoveIssues(at, Followers(at, spread), allowed, kept, corridors)
  OBVIOUS
<1>3. next = IF issues = {} THEN Followers(at, spread) ELSE at
  BY <1>1, <1>2 DEF protectLayoutMoves
<1>4. CASE next = at
  BY <1>4 DEF SameSize
<1>5. CASE next = Followers(at, spread)
  <2>1. DOMAIN next = DOMAIN at /\ \A i \in DOMAIN at : \E dx, dy : next[i] = Moved(at[i], dx, dy)
    BY <1>5 DEF Followers
  <2>2. \A i \in DOMAIN at : at[i] \in ShapeBox
    BY DEF Scene
  <2> QED BY <2>1, <2>2, MovedKeepsSize
<1> QED BY <1>3, <1>4, <1>5

\* A pass knows what it moves.
LEMMA MovesAreKnown ==
  ASSUME LayoutInvariant, RoutesKnown, stage # "idle", NEW proposed, NEW allowed, NEW corridors,
         ApplyMoves(proposed, allowed, corridors), UNCHANGED <<arrows, reported>>, stage' # "idle"
  PROVE  RoutesKnown'
<1>1. PICK guarded : Answers(guarded, proposed, allowed, corridors)
  BY MovesMade
<1>2. Known /\ Lines(arrows)
  BY DEF RoutesKnown
<1>3. boxes \in Scene(DOMAIN boxes) /\ "moved" \in DOMAIN batch
  BY DEF LayoutInvariant, SceneIsShaped, BatchType
<1>4. DOMAIN boxes' = DOMAIN boxes /\ \A i \in DOMAIN boxes : SameSize(boxes'[i], boxes[i])
  <2>1. CASE proposed = boxes
    BY <1>1, <2>1 DEF Answers, SameSize
  <2>2. CASE proposed # boxes
    <3>1. PICK next, kept : kept = batch.kept /\ next = protectLayoutMoves(boxes, proposed, allowed, kept, corridors).boxes
      OBVIOUS
    <3>2. boxes' = next
      BY <1>1, <2>2, <3>1 DEF Answers
    <3>3. DOMAIN next = DOMAIN boxes /\ \A i \in DOMAIN boxes : SameSize(next[i], boxes[i])
      BY <1>3, <3>1, GuardedKeepsSize
    <3> QED BY <3>2, <3>3
  <2> QED BY <2>1, <2>2
<1>5. PICK moved : moved = batch.moved \cup {i \in DOMAIN boxes : guarded.boxes[i] # boxes[i]}
  OBVIOUS
<1>6. PICK settled : batch' = [batch EXCEPT !.moved = moved, !.settled = settled]
  BY <1>1, <1>5 DEF Answers
<1>7. /\ DOMAIN batch' = DOMAIN batch /\ batch'.moved = moved /\ batch'.before = batch.before
      /\ batch'.created = batch.created /\ batch'.drawn = batch.drawn
  BY <1>2, <1>3, <1>6 DEF Known
<1>8. ASSUME NEW i \in DOMAIN boxes', i \notin batch'.created
      PROVE  /\ i \in DOMAIN batch'.before /\ SameSize(boxes'[i], batch'.before[i])
             /\ i \in batch'.moved \/ boxes'[i] = batch'.before[i]
  <2>1. i \in DOMAIN boxes /\ i \notin batch.created
    BY <1>4, <1>7, <1>8
  <2>2. /\ i \in DOMAIN batch.before /\ SameSize(boxes[i], batch.before[i])
        /\ i \in batch.moved \/ boxes[i] = batch.before[i]
    BY <1>2, <2>1 DEF Known
  <2>3. SameSize(boxes'[i], boxes[i])
    BY <1>4, <2>1
  <2>4. SameSize(boxes'[i], batch.before[i])
    BY <2>2, <2>3 DEF SameSize
  <2>5. boxes'[i] # boxes[i] => i \in moved
    BY <1>1, <1>5, <2>1 DEF Answers
  <2>6. i \in moved \/ boxes'[i] = batch.before[i]
    BY <1>5, <2>2, <2>5
  <2> QED BY <1>7, <2>2, <2>4, <2>6
<1>9. \A i \in DOMAIN boxes' :
        \/ i \in batch'.created
        \/ /\ i \in DOMAIN batch'.before /\ SameSize(boxes'[i], batch'.before[i])
           /\ i \in batch'.moved \/ boxes'[i] = batch'.before[i]
  BY <1>8
<1>10. /\ batch'.before \in Scene(DOMAIN batch'.before) /\ batch'.drawn \subseteq DOMAIN arrows'
       /\ {"created", "drawn", "before"} \subseteq DOMAIN batch'
  BY <1>2, <1>7 DEF Known
<1>11. \A k \in DOMAIN arrows' \ batch'.drawn :
       /\ arrows'[k].from \notin batch'.created /\ arrows'[k].to \notin batch'.created
       /\ {arrows'[k].from, arrows'[k].to} \subseteq DOMAIN batch'.before => RunsWell(arrows'[k], batch'.before, reported')
  BY <1>2, <1>7 DEF Known
<1>12. Known'
  BY <1>9, <1>10, <1>11 DEF Known, SameSize, RunsWell, Meets, Others, TransparentTo
<1>13. Lines(arrows')
  BY <1>2
<1> QED BY <1>12, <1>13 DEF RoutesKnown, Lines, IsLine

\* What the operations so far changed, new shapes having one of these ids: the shapes that are not new
\* are those of the scene, of the size they had; the arrows that are not drawn are those of the scene.
Changes(b, ids) ==
  /\ \A i \in DOMAIN b.boxes :
       \/ i \in ToSet(b.created)
       \/ i \in DOMAIN boxes /\ SameSize(b.boxes[i], boxes[i]) /\ (i \in b.moved \/ b.boxes[i] = boxes[i])
  /\ DOMAIN b.fresh \subseteq ToSet(b.created) /\ ToSet(b.created) \subseteq ids
  /\ Lines(b.arrows) /\ b.drawn \subseteq DOMAIN b.arrows
  /\ \A k \in (DOMAIN b.arrows) \ b.drawn : k \in DOMAIN arrows /\ b.arrows[k] = arrows[k]

\* The members of a sequence that grew.
LEMMA AppendHas ==
  ASSUME NEW S, NEW seq \in Seq(S), NEW x
  PROVE  ToSet(Append(seq, x)) = ToSet(seq) \cup {x}
<1>1. PICK T : T = S \cup {x}
  OBVIOUS
<1>2. seq \in Seq(T) /\ x \in T
  BY <1>1
<1>3. PICK n \in Nat : n = Len(seq)
  OBVIOUS
<1>7. PICK longer : longer = Append(seq, x)
  OBVIOUS
<1>4. /\ DOMAIN longer = 1..n + 1 /\ DOMAIN seq = 1..n /\ longer[n + 1] = x
      /\ \A k \in 1..n : longer[k] = seq[k]
  BY <1>2, <1>3, <1>7
<1>5. 1..n + 1 = (1..n) \cup {n + 1}
  OBVIOUS
<1>6. {longer[k] : k \in 1..n + 1} = {seq[k] : k \in 1..n} \cup {x}
  BY <1>4, <1>5
<1> QED BY <1>4, <1>6, <1>7 DEF ToSet

LEMMA CreatedChanges ==
  ASSUME NEW b, Laid(b), NEW ids, Changes(b, ids), NEW op, op.op = "create_geo", op.id \in ids, NEW places
  PROVE  Changes(create_geo(b, op, places), ids)
<1>1. PICK one : one = [i \in {op.id} |-> Rectangle(IF op.at = NoPlace THEN places[op.id] ELSE op.at, op.size)]
  OBVIOUS
<1>2. PICK fresh, created : fresh = Joined(b.fresh, one) /\ created = Append(b.created, op.id)
  OBVIOUS
<1>3. DOMAIN fresh = (DOMAIN b.fresh) \cup {op.id}
  BY <1>1, <1>2 DEF Joined
<1>4. ToSet(created) = ToSet(b.created) \cup {op.id}
  <2>1. b.created \in Seq(DOMAIN b.fresh)
    BY DEF Laid
  <2> QED BY <1>2, <2>1, AppendHas
<1>5. create_geo(b, op, places) = [b EXCEPT !.created = created, !.fresh = fresh]
  BY <1>1, <1>2 DEF create_geo
<1>6. create_geo(b, op, places) =
         [boxes |-> b.boxes, order |-> b.order, arrows |-> b.arrows, fresh |-> fresh,
          created |-> created, moved |-> b.moved, placed |-> b.placed, drawn |-> b.drawn]
  BY <1>5 DEF Laid
<1>7. PICK c : c = create_geo(b, op, places)
  OBVIOUS
<1>8. c.boxes = b.boxes /\ c.arrows = b.arrows /\ c.fresh = fresh /\ c.created = created /\ c.moved = b.moved /\ c.drawn = b.drawn
  BY <1>6, <1>7
<1>9. Changes(c, ids)
  BY <1>3, <1>4, <1>8 DEF Changes
<1> QED BY <1>7, <1>9

\* An operation that moves shapes and no more, and says which.
LEMMA MovesChange ==
  ASSUME NEW b, NEW ids, Changes(b, ids), NEW c,
         c.arrows = b.arrows, c.fresh = b.fresh, c.created = b.created, c.drawn = b.drawn, b.moved \subseteq c.moved,
         DOMAIN c.boxes \subseteq DOMAIN b.boxes,
         \A i \in DOMAIN c.boxes : SameSize(c.boxes[i], b.boxes[i]) /\ (i \in c.moved \/ c.boxes[i] = b.boxes[i])
  PROVE  Changes(c, ids)
<1>1. ASSUME NEW i \in DOMAIN c.boxes, i \notin ToSet(c.created)
      PROVE  i \in DOMAIN boxes /\ SameSize(c.boxes[i], boxes[i]) /\ (i \in c.moved \/ c.boxes[i] = boxes[i])
  <2>1. i \in DOMAIN b.boxes /\ i \notin ToSet(b.created)
    BY <1>1
  <2>2. i \in DOMAIN boxes /\ SameSize(b.boxes[i], boxes[i]) /\ (i \in b.moved \/ b.boxes[i] = boxes[i])
    BY <2>1 DEF Changes
  <2>3. SameSize(c.boxes[i], boxes[i])
    BY <1>1, <2>2 DEF SameSize
  <2> QED BY <1>1, <2>2, <2>3
<1>2. /\ DOMAIN c.fresh \subseteq ToSet(c.created) /\ ToSet(c.created) \subseteq ids
      /\ Lines(c.arrows) /\ c.drawn \subseteq DOMAIN c.arrows
      /\ \A k \in (DOMAIN c.arrows) \ c.drawn : k \in DOMAIN arrows /\ c.arrows[k] = arrows[k]
  BY DEF Changes
<1> QED BY <1>1, <1>2 DEF Changes

LEMMA SameIsSameSize == \A box : SameSize(box, box)
  BY DEF SameSize

LEMMA MovedChanges ==
  ASSUME NEW b, Laid(b), NEW ids, Changes(b, ids), NEW op, OperationIsSound(op), op.op = "move_shape"
  PROVE  Changes(move_shape(b, op), ids)
<1>1. CASE op.id \notin DOMAIN b.boxes
  BY <1>1 DEF move_shape
<1>2. CASE op.id \in DOMAIN b.boxes
  <2>1. PICK box, x, y : box \in ShapeBox /\ box = b.boxes[op.id] /\ x = op.at.x /\ y = op.at.y
    BY <1>2 DEF Laid, Scene
  <2>2. PICK new : new = [box EXCEPT !.x = x, !.y = y]
    OBVIOUS
  <2>3. SameSize(new, box)
    BY <2>2 DEF SameSize, ShapeBox
  <2>4. PICK boxes2, moved2 : boxes2 = [b.boxes EXCEPT ![op.id] = new] /\ moved2 = b.moved \cup {op.id}
    OBVIOUS
  <2>5. At(b.boxes[op.id], op.at) = new
    BY <2>1, <2>2 DEF At
  <2>6. move_shape(b, op) = [b EXCEPT !.boxes = boxes2, !.moved = moved2]
    BY <1>2, <2>4, <2>5 DEF move_shape, Laid
  <2>7. PICK c : c = move_shape(b, op)
    OBVIOUS
  <2>8. c = [boxes |-> boxes2, order |-> b.order, arrows |-> b.arrows, fresh |-> b.fresh,
             created |-> b.created, moved |-> moved2, placed |-> b.placed, drawn |-> b.drawn]
    BY <2>6, <2>7 DEF Laid
  <2>9. /\ c.arrows = b.arrows /\ c.fresh = b.fresh /\ c.created = b.created /\ c.drawn = b.drawn
        /\ c.boxes = boxes2 /\ c.moved = moved2
    BY <2>8
  <2>10. DOMAIN boxes2 = DOMAIN b.boxes
    BY <2>4
  <2>11. \A i \in DOMAIN boxes2 : SameSize(boxes2[i], b.boxes[i]) /\ (i \in moved2 \/ boxes2[i] = b.boxes[i])
    <3>1. SUFFICES ASSUME NEW i \in DOMAIN boxes2
                   PROVE  SameSize(boxes2[i], b.boxes[i]) /\ (i \in moved2 \/ boxes2[i] = b.boxes[i])
      OBVIOUS
    <3>2. CASE i = op.id
      <4>1. boxes2[i] = new
        BY <1>2, <2>4, <3>2
      <4> QED BY <2>1, <2>3, <2>4, <3>2, <4>1
    <3>3. CASE i # op.id
      <4>1. boxes2[i] = b.boxes[i]
        BY <2>4, <2>10, <3>3
      <4> QED BY <4>1, SameIsSameSize
    <3> QED BY <3>2, <3>3
  <2>12. Changes(c, ids)
    BY <2>4, <2>9, <2>10, <2>11, MovesChange
  <2> QED BY <2>7, <2>12
<1> QED BY <1>1, <1>2

LEMMA PlacedChanges ==
  ASSUME NEW b, Laid(b), NEW ids, Changes(b, ids), NEW op, op.op = "place_region"
  PROVE  Changes(place_region(b, op), ids)
<1>1. PICK moving, d, c, put : /\ moving = op.ids \cap DOMAIN b.boxes /\ d = Drift(b, op, moving) /\ c = place_region(b, op)
                              /\ put = [ids |-> moving, margin |-> op.margin]
  OBVIOUS
<1>2. CASE moving = {}
  BY <1>1, <1>2 DEF place_region
<1>3. CASE moving # {} /\ d = Place(0, 0)
  <2>1. c = [b EXCEPT !.placed = put]
    BY <1>1, <1>3 DEF place_region
  <2>2. c = [boxes |-> b.boxes, order |-> b.order, arrows |-> b.arrows, fresh |-> b.fresh,
             created |-> b.created, moved |-> b.moved, placed |-> put, drawn |-> b.drawn]
    BY <2>1 DEF Laid
  <2>3. /\ c.arrows = b.arrows /\ c.fresh = b.fresh /\ c.created = b.created /\ c.drawn = b.drawn
        /\ c.boxes = b.boxes /\ c.moved = b.moved
    BY <2>2
  <2>4. Changes(c, ids)
    BY <2>3, MovesChange, SameIsSameSize
  <2> QED BY <1>1, <2>4
<1>4. CASE moving # {} /\ d # Place(0, 0)
  <2>1. PICK boxes2, moved2 :
          /\ boxes2 = [i \in DOMAIN b.boxes |-> IF i \in moving THEN Moved(b.boxes[i], d.x, d.y) ELSE b.boxes[i]]
          /\ moved2 = b.moved \cup moving
    OBVIOUS
  <2>2. c = [b EXCEPT !.boxes = boxes2, !.moved = moved2, !.placed = put]
    BY <1>1, <1>4, <2>1 DEF place_region
  <2>3. c = [boxes |-> boxes2, order |-> b.order, arrows |-> b.arrows, fresh |-> b.fresh,
             created |-> b.created, moved |-> moved2, placed |-> put, drawn |-> b.drawn]
    BY <2>2 DEF Laid
  <2>4. /\ c.arrows = b.arrows /\ c.fresh = b.fresh /\ c.created = b.created /\ c.drawn = b.drawn
        /\ c.boxes = boxes2 /\ c.moved = moved2
    BY <2>3
  <2>5. DOMAIN boxes2 = DOMAIN b.boxes
    BY <2>1
  <2>6. ASSUME NEW i \in DOMAIN boxes2
        PROVE  SameSize(boxes2[i], b.boxes[i]) /\ (i \in moved2 \/ boxes2[i] = b.boxes[i])
    <3>1. CASE i \in moving
      <4>1. PICK box, dx, dy : box \in ShapeBox /\ box = b.boxes[i] /\ dx = d.x /\ dy = d.y
        BY <2>5, <2>6 DEF Laid, Scene
      <4>2. boxes2[i] = Moved(box, dx, dy)
        BY <2>1, <2>5, <2>6, <3>1, <4>1
      <4>3. SameSize(Moved(box, dx, dy), box)
        BY <4>1, MovedKeepsSize
      <4> QED BY <2>1, <3>1, <4>1, <4>2, <4>3
    <3>2. CASE i \notin moving
      <4>1. boxes2[i] = b.boxes[i]
        BY <2>1, <2>5, <2>6, <3>2
      <4> QED BY <4>1, SameIsSameSize
    <3> QED BY <3>1, <3>2
  <2>7. Changes(c, ids)
    BY <2>1, <2>4, <2>5, <2>6, MovesChange
  <2> QED BY <1>1, <2>7
<1> QED BY <1>2, <1>3, <1>4

LEMMA DeletedChanges ==
  ASSUME NEW b, Laid(b), NEW ids, Changes(b, ids), NEW op, op.op = "delete_shape"
  PROVE  Changes(delete_shape(b, op), ids)
<1>1. PICK rest : rest = (DOMAIN b.boxes) \ {op.id}
  OBVIOUS
<1>2. PICK boxes2, order2, c :
        boxes2 = Restrict(b.boxes, rest) /\ order2 = Only(b.order, LAMBDA i : i # op.id) /\ c = delete_shape(b, op)
  OBVIOUS
<1>3. DOMAIN boxes2 = rest /\ \A i \in rest : boxes2[i] = b.boxes[i]
  BY <1>2 DEF Restrict
<1>4. c = [b EXCEPT !.boxes = boxes2, !.order = order2]
  BY <1>1, <1>2 DEF delete_shape
<1>5. c = [boxes |-> boxes2, order |-> order2, arrows |-> b.arrows, fresh |-> b.fresh,
           created |-> b.created, moved |-> b.moved, placed |-> b.placed, drawn |-> b.drawn]
  BY <1>4 DEF Laid
<1>6. /\ c.arrows = b.arrows /\ c.fresh = b.fresh /\ c.created = b.created /\ c.drawn = b.drawn
      /\ c.boxes = boxes2 /\ c.moved = b.moved
  BY <1>5
<1>7. Changes(c, ids)
  BY <1>1, <1>3, <1>6, MovesChange, SameIsSameSize
<1> QED BY <1>2, <1>7

LEMMA AppliedChanges ==
  ASSUME NEW b, Laid(b), NEW ids, Changes(b, ids), NEW op, OperationIsSound(op), op.op = "create_geo" => op.id \in ids, NEW places
  PROVE  Changes(Applied(b, op, places), ids)
<1>1. CASE op.op = "create_geo"
  BY <1>1, CreatedChanges DEF Applied
<1>2. CASE op.op = "move_shape"
  BY <1>2, MovedChanges DEF Applied
<1>3. CASE op.op = "place_region"
  BY <1>3, PlacedChanges DEF Applied
<1>4. CASE op.op = "delete_shape"
  BY <1>4, DeletedChanges DEF Applied
<1>5. CASE op.op \notin {"create_geo", "move_shape", "place_region", "delete_shape"}
  <2>1. Applied(b, op, places) = b
    BY <1>5 DEF Applied
  <2> QED BY <2>1
<1> QED BY <1>1, <1>2, <1>3, <1>4, <1>5

LEMMA AllAppliedChanges ==
  ASSUME NEW b, Laid(b), NEW ids, Changes(b, ids), NEW ops, SoundOperations(ops), NEW places,
         \A op \in ToSet(ops) : Provides(places, op) /\ (op.op = "create_geo" => op.id \in ids)
  PROVE  Changes(AllApplied(b, ops, places), ids)
<1>1. AllApplied(b, ops, places) = Applying!Result(places, 0, 0, b, ops)
  BY DEF AllApplied, Through, ApplyStep, Applying!Result, Applying!Walk, Applying!Once
<1>2. Len(ops) \in Nat /\ \A n \in 1..Len(ops) : ops[n] \in ToSet(ops)
  BY DEF SoundOperations
<1>3. PICK f : /\ Applying!Goes(f, places, 0, 0, b, ops, Len(ops))
               /\ Applying!Result(places, 0, 0, b, ops) = f[Len(ops)]
  BY <1>2, Applying!ResultIs
<1>4. f[0] = b /\ \A n \in 1..Len(ops) : f[n] = Applied(f[n - 1], ops[n], places)
  BY <1>3 DEF Applying!Goes, ApplyStep
<1>5. PICK S : S = {n \in 0..Len(ops) : Laid(f[n]) /\ Changes(f[n], ids)}
  OBVIOUS
<1>6. 0 \in S
  BY <1>2, <1>4, <1>5
<1>7. ASSUME NEW n \in 0..Len(ops) - 1, n \in S PROVE n + 1 \in S
  <2>1. n + 1 \in 1..Len(ops) /\ n + 1 \in 0..Len(ops) /\ (n + 1) - 1 = n
    BY <1>2
  <2>2. PICK last, op : last = f[n] /\ op = ops[n + 1] /\ op \in ToSet(ops)
    BY <1>2, <2>1
  <2>3. f[n + 1] = Applied(last, op, places)
    BY <1>4, <2>1, <2>2
  <2>4. OperationIsSound(op) /\ Provides(places, op) /\ (op.op = "create_geo" => op.id \in ids)
    BY <2>2 DEF SoundOperations
  <2>5. Laid(last) /\ Changes(last, ids)
    BY <1>5, <1>7, <2>2
  <2>6. Laid(Applied(last, op, places)) /\ Changes(Applied(last, op, places), ids)
    BY <2>4, <2>5, AppliedIsLaid, AppliedChanges
  <2> QED BY <1>5, <2>1, <2>3, <2>6
<1>8. Len(ops) \in S
  <2>1. \A i \in 0..Len(ops) : i \in S
    BY <1>2, <1>6, <1>7, UpTo
  <2> QED BY <1>2, <2>1
<1> QED BY <1>1, <1>3, <1>5, <1>8

LEMMA SettledChanges ==
  ASSUME NEW b, Laid(b), NEW ids, Changes(b, ids)
  PROVE  Changes(Settled(b), ids)
<1>1. PICK boxes2, order2, c : boxes2 = Joined(b.boxes, b.fresh) /\ order2 = b.order \o b.created /\ c = Settled(b)
  OBVIOUS
<1>2. c = [b EXCEPT !.boxes = boxes2, !.order = order2]
  BY <1>1 DEF Settled
<1>3. c = [boxes |-> boxes2, order |-> order2, arrows |-> b.arrows, fresh |-> b.fresh,
           created |-> b.created, moved |-> b.moved, placed |-> b.placed, drawn |-> b.drawn]
  BY <1>2 DEF Laid
<1>4. /\ c.arrows = b.arrows /\ c.fresh = b.fresh /\ c.created = b.created /\ c.drawn = b.drawn
      /\ c.boxes = boxes2 /\ c.moved = b.moved
  BY <1>3
<1>5. \A i \in DOMAIN boxes2 : \/ i \in DOMAIN b.boxes /\ boxes2[i] = b.boxes[i]
                               \/ i \in ToSet(b.created)
  BY <1>1 DEF Joined, Changes
<1>6. Changes(c, ids)
  BY <1>4, <1>5 DEF Changes
<1> QED BY <1>1, <1>6

\* A line that is drawn comes behind the others, and is numbered so.
LEMMA LineAdded ==
  ASSUME NEW S, NEW lines \in Seq(S), Lines(lines), NEW n, n = 1 + Len(lines), NEW line, IsLine(line, n), NEW drawn,
         drawn \subseteq DOMAIN lines
  PROVE  /\ Lines(Append(lines, line)) /\ drawn \cup {n} \subseteq DOMAIN Append(lines, line)
         /\ \A k \in (DOMAIN Append(lines, line)) \ (drawn \cup {n}) :
              k \in (DOMAIN lines) \ drawn /\ Append(lines, line)[k] = lines[k]
<1>1. PICK T : T = S \cup {line}
  OBVIOUS
<1>2. lines \in Seq(T) /\ line \in T
  BY <1>1
<1>3. PICK m \in Nat : m = Len(lines)
  OBVIOUS
<1>4. PICK longer : longer = Append(lines, line)
  OBVIOUS
<1>5. /\ DOMAIN longer = 1..m + 1 /\ DOMAIN lines = 1..m /\ longer[m + 1] = line
      /\ \A k \in 1..m : longer[k] = lines[k]
  BY <1>2, <1>3, <1>4
<1>6. n = m + 1 /\ n \in 1..m + 1 /\ \A k \in 1..m + 1 : k = n \/ k \in 1..m
  BY <1>3
<1>7. \A k \in 1..m : k \in 1..m + 1
  OBVIOUS
<1>8. Lines(longer)
  <2>1. SUFFICES ASSUME NEW k \in DOMAIN longer PROVE IsLine(longer[k], k)
    BY DEF Lines
  <2>2. CASE k = n
    BY <1>5, <1>6, <2>2
  <2>3. CASE k \in 1..m
    BY <1>5, <2>3 DEF Lines
  <2> QED BY <1>5, <1>6, <2>2, <2>3
<1>9. drawn \cup {n} \subseteq DOMAIN longer
  BY <1>5, <1>6, <1>7
<1>10. \A k \in (DOMAIN longer) \ (drawn \cup {n}) : k \in (DOMAIN lines) \ drawn /\ longer[k] = lines[k]
  BY <1>5, <1>6
<1> QED BY <1>4, <1>8, <1>9, <1>10

LEMMA DrawnChanges ==
  ASSUME NEW b, Laid(b), NEW ids, Changes(b, ids), NEW op, OperationIsSound(op), op.op = "connect_shapes"
  PROVE  Changes(DrawArrow(b, op), ids)
<1>1. CASE DrawArrow(b, op) = b
  BY <1>1
<1>2. CASE DrawArrow(b, op) # b
  <2>1. {op.from, op.to} \subseteq DOMAIN b.boxes
    BY <1>2 DEF DrawArrow
  <2>2. PICK from, to : from = b.boxes[op.from] /\ to = b.boxes[op.to]
    OBVIOUS
  <2>3. from \in ShapeBox /\ to \in ShapeBox
    BY <2>1, <2>2 DEF Laid, Scene
  <2>4. PICK n, ends : n = 1 + Len(b.arrows) /\ ends = solveArrowEndpoints(from, to, NoFocus, Centre(from), Centre(to))
    OBVIOUS
  <2>5. NoFocus \in Foci
    BY DEF NoFocus, Foci, Focus
  <2>6. ends = <<ends[1], ends[2]>> /\ Reaches(from, ends[1]) /\ Reaches(to, ends[2])
    BY <2>3, <2>4, <2>5, CentreTyped, EndpointsAre
  <2>7. ends \in Path
    BY <2>6, PairMeets
  <2>8. PICK line : line = [id |-> n, from |-> op.from, to |-> op.to, label |-> op.label,
                            focus |-> NoFocus, points |-> ends]
    OBVIOUS
  <2>9. IsLine(line, n)
    BY <2>5, <2>7, <2>8 DEF IsLine, OperationIsSound
  <2>10. PICK arrows2, drawn2, c : arrows2 = Append(b.arrows, line) /\ drawn2 = b.drawn \cup {n} /\ c = DrawArrow(b, op)
    OBVIOUS
  <2>11. c = [b EXCEPT !.arrows = arrows2, !.drawn = drawn2]
    BY <1>2, <2>2, <2>4, <2>8, <2>10 DEF DrawArrow, Laid
  <2>12. c = [boxes |-> b.boxes, order |-> b.order, arrows |-> arrows2, fresh |-> b.fresh,
              created |-> b.created, moved |-> b.moved, placed |-> b.placed, drawn |-> drawn2]
    BY <2>11 DEF Laid
  <2>13. /\ c.arrows = arrows2 /\ c.fresh = b.fresh /\ c.created = b.created /\ c.drawn = drawn2
         /\ c.boxes = b.boxes /\ c.moved = b.moved
    BY <2>12
  <2>14. b.arrows \in Seq(ToSet(b.arrows)) /\ Lines(b.arrows) /\ b.drawn \subseteq DOMAIN b.arrows
    BY DEF Laid, Labelled, Changes
  <2>15. /\ Lines(arrows2) /\ drawn2 \subseteq DOMAIN arrows2
         /\ \A k \in (DOMAIN arrows2) \ drawn2 : k \in (DOMAIN b.arrows) \ b.drawn /\ arrows2[k] = b.arrows[k]
    BY <2>4, <2>9, <2>10, <2>14, LineAdded
  <2>16. \A k \in (DOMAIN arrows2) \ drawn2 : k \in DOMAIN arrows /\ arrows2[k] = arrows[k]
    BY <2>15 DEF Changes
  <2>17. Changes(c, ids)
    BY <2>13, <2>15, <2>16 DEF Changes
  <2> QED BY <2>10, <2>17
<1> QED BY <1>1, <1>2

LEMMA AllDrawnChanges ==
  ASSUME NEW b, Laid(b), NEW ids, Changes(b, ids), NEW ops, SoundOperations(ops)
  PROVE  Changes(AllDrawn(b, ops), ids)
<1>1. PICK places : places = {n \in DOMAIN ops : ops[n].op = "connect_shapes"}
  OBVIOUS
<1>2. PICK joins : joins = Picked(ops, places)
  OBVIOUS
<1>3. /\ joins \in Seq({ops[n] : n \in places})
      /\ \A k \in DOMAIN joins : \E n \in places : joins[k] = ops[n]
  <2>1. places \in SUBSET DOMAIN ops /\ ops \in Seq(ToSet(ops))
    BY <1>1 DEF SoundOperations
  <2> QED BY <1>2, <2>1, PickedIs
<1>4. Len(joins) \in Nat /\ DOMAIN joins = 1..Len(joins)
  BY <1>3
<1>5. ASSUME NEW k \in 1..Len(joins) PROVE joins[k].op = "connect_shapes" /\ OperationIsSound(joins[k])
  <2>1. PICK n \in places : joins[k] = ops[n]
    BY <1>3, <1>4
  <2>2. ops[n] \in ToSet(ops) /\ ops[n].op = "connect_shapes"
    BY <1>1, <2>1 DEF ToSet
  <2> QED BY <2>1, <2>2 DEF SoundOperations
<1>6. AllDrawn(b, ops) = Drawing!Result(0, 0, 0, b, joins)
  BY <1>1, <1>2 DEF AllDrawn, Only, Through, DrawStep, Drawing!Result, Drawing!Walk, Drawing!Once
<1>7. PICK f : /\ Drawing!Goes(f, 0, 0, 0, b, joins, Len(joins))
               /\ Drawing!Result(0, 0, 0, b, joins) = f[Len(joins)]
  BY <1>4, Drawing!ResultIs
<1>8. f[0] = b /\ \A n \in 1..Len(joins) : f[n] = DrawArrow(f[n - 1], joins[n])
  BY <1>7 DEF Drawing!Goes, DrawStep
<1>9. PICK S : S = {n \in 0..Len(joins) : Laid(f[n]) /\ Changes(f[n], ids)}
  OBVIOUS
<1>10. 0 \in S
  BY <1>4, <1>8, <1>9
<1>11. ASSUME NEW n \in 0..Len(joins) - 1, n \in S PROVE n + 1 \in S
  <2>1. n + 1 \in 1..Len(joins) /\ n + 1 \in 0..Len(joins) /\ (n + 1) - 1 = n
    BY <1>4
  <2>2. PICK last, op : last = f[n] /\ op = joins[n + 1]
    OBVIOUS
  <2>3. f[n + 1] = DrawArrow(last, op)
    BY <1>8, <2>1, <2>2
  <2>4. op.op = "connect_shapes" /\ OperationIsSound(op)
    BY <1>5, <2>1, <2>2
  <2>5. Laid(last) /\ Changes(last, ids)
    BY <1>9, <1>11, <2>2
  <2>6. Laid(DrawArrow(last, op)) /\ Changes(DrawArrow(last, op), ids)
    BY <2>4, <2>5, DrawnIsLaid, DrawnChanges
  <2> QED BY <1>9, <2>1, <2>3, <2>6
<1>12. Len(joins) \in S
  <2>1. \A i \in 0..Len(joins) : i \in S
    BY <1>4, <1>10, <1>11, UpTo
  <2> QED BY <1>4, <2>1
<1> QED BY <1>6, <1>7, <1>9, <1>12

LEMMA OperateChanges ==
  ASSUME NEW ops, SoundOperations(ops), IsFiniteSet(DOMAIN boxes), boxes \in Scene(DOMAIN boxes),
         order \in Seq(DOMAIN boxes), Labelled(arrows), Lines(arrows),
         NEW ids, \A op \in ToSet(ops) : op.op = "create_geo" => op.id \in ids
  PROVE  Changes(Operate(ops), ids)
<1>1. PICK start : start = [boxes |-> boxes, order |-> order, arrows |-> arrows, fresh |-> <<>>,
                            created |-> <<>>, moved |-> {}, placed |-> NoRegion, drawn |-> {}]
  OBVIOUS
<1>2. PICK none : none = <<>>
  OBVIOUS
<1>3. IsFiniteSet(DOMAIN none) /\ none \in Scene(DOMAIN none) /\ none \in Seq(DOMAIN none) /\ DOMAIN none = {}
  <2>1. none \in Seq({}) /\ Len(none) = 0 /\ DOMAIN none = 1..0
    BY <1>2
  <2>2. DOMAIN none = {}
    BY <2>1
  <2>3. none = [i \in {} |-> none[i]]
    BY <2>1, <2>2
  <2> QED BY <2>1, <2>2, <2>3, FS_EmptySet DEF Scene
<1>4. Laid(start)
  BY <1>1, <1>2, <1>3 DEF Laid
<1>5. Changes(start, ids)
  <2>1. /\ start.boxes = boxes /\ start.arrows = arrows /\ start.fresh = none /\ start.created = none
        /\ start.moved = {} /\ start.drawn = {}
    BY <1>1, <1>2
  <2>2. ToSet(none) = {}
    BY <1>3 DEF ToSet
  <2> QED BY <1>3, <2>1, <2>2, SameIsSameSize DEF Changes
<1>6. PICK around : around = {boxes[i] : i \in DOMAIN boxes}
  OBVIOUS
<1>7. around \in SUBSET ShapeBox /\ IsFiniteSet(around)
  <2>1. [i \in DOMAIN boxes |-> boxes[i]] \in Surjection(DOMAIN boxes, around)
    BY <1>6 DEF Surjection
  <2>2. IsFiniteSet(around)
    BY <2>1, FS_Surjection
  <2> QED BY <1>6, <2>2 DEF Scene
<1>8. PICK places : places = AutoPlaced(ops, around)
  OBVIOUS
<1>9. \A op \in ToSet(ops) : Provides(places, op)
  BY <1>7, <1>8, AutoPlacedTyped DEF Provides
<1>10. PICK applied, settled : applied = AllApplied(start, ops, places) /\ settled = Settled(applied)
  OBVIOUS
<1>11. Operate(ops) = AllDrawn(settled, ops)
  BY <1>1, <1>6, <1>8, <1>10 DEF Operate
<1>12. Laid(applied) /\ Changes(applied, ids)
  BY <1>4, <1>5, <1>9, <1>10, AllAppliedIsLaid, AllAppliedChanges
<1>13. Laid(settled) /\ Changes(settled, ids)
  BY <1>10, <1>12, SettledIsLaid, SettledChanges
<1> QED BY <1>11, <1>13, AllDrawnChanges

\* A batch is known by what its operations changed: what is created is new, to the shapes and to the arrows.
LEMMA MaterializeKeepsRoutes ==
  ASSUME LayoutInvariant, RoutesKnown, NEW ops, NEW declared, SoundOperations(ops), Materialize(ops, declared)
  PROVE  RoutesKnown'
<1>1. PICK b : /\ b = Operate(ops) /\ boxes' = b.boxes /\ arrows' = b.arrows
               /\ batch' = [number |-> batch.number + 1, declared |-> declared, created |-> ToSet(b.created),
                    moved |-> b.moved, drawn |-> b.drawn, placed |-> b.placed,
                    auto |-> {ops[i].id : i \in {j \in DOMAIN ops : ops[j].op = "create_geo" /\ ops[j].at = NoPlace}},
                    before |-> boxes, made |-> b.boxes,
                    kept |-> captureLayoutPreservation(b.order, b.boxes, declared), settled |-> TRUE]
  BY DEF Materialize
<1>2. /\ batch'.created = ToSet(b.created) /\ batch'.moved = b.moved /\ batch'.drawn = b.drawn /\ batch'.before = boxes
      /\ {"created", "drawn", "before"} \subseteq DOMAIN batch'
  BY <1>1
<1>3. stage = "idle" /\ stage' # "idle" /\ reported' = reported
  BY DEF Materialize
<1>4. Lines(arrows) /\ AllRunWell(arrows, boxes, reported)
  BY <1>3 DEF RoutesKnown
<1>5. PICK ids : ids = {op.id : op \in {one \in ToSet(ops) : one.op = "create_geo"}}
  OBVIOUS
<1>6. \A op \in ToSet(ops) : op.op = "create_geo" => op.id \in ids
  BY <1>5
<1>7. ids \cap Ends = {}
  BY <1>5 DEF Materialize, ToSet
<1>8. /\ IsFiniteSet(DOMAIN boxes) /\ boxes \in Scene(DOMAIN boxes)
      /\ order \in Seq(DOMAIN boxes) /\ Labelled(arrows)
  BY DEF LayoutInvariant, SceneIsShaped
<1>9. Changes(b, ids)
  BY <1>1, <1>4, <1>6, <1>8, OperateChanges
<1>10. \A i \in DOMAIN boxes' :
        \/ i \in batch'.created
        \/ /\ i \in DOMAIN batch'.before /\ SameSize(boxes'[i], batch'.before[i])
           /\ i \in batch'.moved \/ boxes'[i] = batch'.before[i]
  BY <1>1, <1>2, <1>9 DEF Changes
<1>11. batch'.before \in Scene(DOMAIN batch'.before) /\ batch'.drawn \subseteq DOMAIN arrows'
  BY <1>1, <1>2, <1>8, <1>9 DEF Changes
<1>12. ASSUME NEW k \in DOMAIN arrows' \ batch'.drawn
       PROVE  /\ arrows'[k].from \notin batch'.created /\ arrows'[k].to \notin batch'.created
              /\ {arrows'[k].from, arrows'[k].to} \subseteq DOMAIN batch'.before
                   => RunsWell(arrows'[k], batch'.before, reported)
  <2>1. k \in DOMAIN arrows /\ arrows'[k] = arrows[k]
    BY <1>1, <1>2, <1>9 DEF Changes
  <2>2. arrows[k].from \in Ends /\ arrows[k].to \in Ends
    BY <2>1 DEF Ends, ToSet
  <2>3. batch'.created \subseteq ids
    BY <1>2, <1>9 DEF Changes
  <2>4. {arrows[k].from, arrows[k].to} \subseteq DOMAIN boxes => RunsWell(arrows[k], boxes, reported)
    BY <1>4, <2>1 DEF AllRunWell
  <2> QED BY <1>2, <1>7, <2>1, <2>2, <2>3, <2>4
<1>13. Known'
  BY <1>2, <1>3, <1>10, <1>11, <1>12 DEF Known, SameSize, RunsWell, Meets, Others, TransparentTo
<1>14. Lines(b.arrows)
  BY <1>9 DEF Changes
<1>15. Lines(arrows')
  BY <1>1, <1>14
<1> QED BY <1>3, <1>13, <1>15 DEF RoutesKnown, Lines, IsLine

\* Before the first batch there is no arrow.
LEMMA StartsRouted == ASSUME LayoutInit PROVE RoutesKnown
<1>1. arrows = <<>> /\ stage = "idle"
  BY DEF LayoutInit
<1>2. DOMAIN arrows = {}
  BY <1>1
<1> QED BY <1>1, <1>2 DEF RoutesKnown, Lines, AllRunWell

LEMMA StepKeepsRoutes == ASSUME LayoutInvariant, RoutesKnown, [LayoutNext]_layoutVars PROVE RoutesKnown'
<1>1. ASSUME NEW b \in IF batch.number = 0 THEN Openings ELSE Batches, Materialize(b.ops, b.declared)
      PROVE  RoutesKnown'
  <2>1. b \in Openings \cup Batches
    OBVIOUS
  <2>2. SoundOperations(b.ops)
    BY <2>1, LayoutAssumption DEF SoundOperations
  <2> QED BY <1>1, <2>2, MaterializeKeepsRoutes
<1>2. ASSUME spacingPass PROVE RoutesKnown'
  <2>1. PICK corridors : ApplyMoves(expandFlowSpacing(boxes, corridors, Named(Of(batch.declared, "flow")) \cap DOMAIN boxes,
                                                      MaySpace(batch.declared)),
                                    MaySpace(batch.declared), corridors)
    BY <1>2 DEF spacingPass
  <2>2. stage # "idle" /\ stage' # "idle" /\ UNCHANGED <<arrows, reported>>
    BY <1>2 DEF spacingPass
  <2> QED BY <2>1, <2>2, MovesAreKnown
<1>3. ASSUME avoidPass PROVE RoutesKnown'
  <2>1. /\ ApplyMoves(ResolveOverlaps(order, boxes, MaySpread(batch.declared), batch.kept.ignored),
                      MaySpread(batch.declared), Corridors(boxes, Edges, batch.declared))
        /\ stage # "idle" /\ stage' # "idle" /\ UNCHANGED <<arrows, reported>>
    BY <1>3 DEF avoidPass
  <2> QED BY <2>1, MovesAreKnown
<1>4. ASSUME UNCHANGED layoutVars PROVE RoutesKnown'
  <2>1. stage' = stage /\ boxes' = boxes /\ arrows' = arrows /\ batch' = batch /\ reported' = reported
    BY <1>4 DEF layoutVars
  <2>2. ASSUME Known PROVE Known'
    <3>1. \A i \in DOMAIN boxes' :
            \/ i \in batch'.created
            \/ /\ i \in DOMAIN batch'.before /\ SameSize(boxes'[i], batch'.before[i])
               /\ i \in batch'.moved \/ boxes'[i] = batch'.before[i]
      BY <2>1, <2>2 DEF Known
    <3>2. /\ batch'.before \in Scene(DOMAIN batch'.before) /\ batch'.drawn \subseteq DOMAIN arrows'
          /\ {"created", "drawn", "before"} \subseteq DOMAIN batch'
      BY <2>1, <2>2 DEF Known
    <3>3. \A k \in DOMAIN arrows' \ batch'.drawn :
            /\ arrows'[k].from \notin batch'.created /\ arrows'[k].to \notin batch'.created
            /\ {arrows'[k].from, arrows'[k].to} \subseteq DOMAIN batch'.before
                 => RunsWell(arrows'[k], batch'.before, reported')
      BY <2>1, <2>2 DEF Known
    <3> QED BY <3>1, <3>2, <3>3 DEF Known, SameSize, RunsWell, Meets, Others, TransparentTo
  <2>3. Lines(arrows) => Lines(arrows')
    BY <2>1
  <2>4. AllRunWell(arrows, boxes, reported) => AllRunWell(arrows', boxes', reported')
    BY <2>1
  <2> QED
    BY <2>1, <2>2, <2>3, <2>4 DEF RoutesKnown, Lines, IsLine, AllRunWell, RunsWell, Meets, Others, TransparentTo
<1> QED BY <1>1, <1>2, <1>3, <1>4, RoutingKeepsRoutes DEF LayoutNext

\* Routes that are known hold.
LEMMA RoutesKnownHold == ASSUME LayoutInvariant, RoutesKnown PROVE RoutesHold
<1>1. SUFFICES ASSUME stage = "idle", NEW e \in DOMAIN Edges
               PROVE  LET arrow == Edges[e]
                          others == {boxes[i] : i \in DOMAIN boxes \ ({arrow.from, arrow.to} \cup TransparentTo(boxes, arrow))}
                          touches(box, p) == SegmentHits(p, p, box, GAP)
                      IN /\ touches(boxes[arrow.from], Head(arrow.points)) /\ touches(boxes[arrow.to], Last(arrow.points))
                         /\ arrow.id \notin reported => ~PathHits(arrow.points, others, DEFAULT_CLEARANCE)
  BY DEF RoutesHold
<1>2. arrows \in Seq(ToSet(arrows)) /\ boxes \in Scene(DOMAIN boxes)
  BY DEF LayoutInvariant, SceneIsShaped, Labelled
<1>3. PICK k \in DOMAIN arrows : Edges[e] = arrows[k] /\ arrows[k].from \in DOMAIN boxes /\ arrows[k].to \in DOMAIN boxes
  BY <1>2, EdgesAre
<1>4. PICK arrow : arrow = Edges[e]
  OBVIOUS
<1>5. RunsWell(arrow, boxes, reported) /\ IsLine(arrow, k)
  BY <1>1, <1>3, <1>4 DEF RoutesKnown, AllRunWell, Lines
<1>6. Head(arrow.points) = arrow.points[1] /\ Last(arrow.points) = arrow.points[Len(arrow.points)]
  <2>1. arrow.points \in Seq(Point) /\ Len(arrow.points) >= 2
    BY <1>5 DEF IsLine, Path
  <2> QED BY <2>1 DEF Last
<1>7. boxes[arrow.from] \in ShapeBox /\ boxes[arrow.to] \in ShapeBox
  BY <1>2, <1>3, <1>4 DEF Scene
<1>8. /\ Reaches(boxes[arrow.from], arrow.points[1]) /\ Reaches(boxes[arrow.to], arrow.points[Len(arrow.points)])
      /\ arrow.id \notin reported => ~PathHits(arrow.points, Others(arrow, boxes), DEFAULT_CLEARANCE)
  BY <1>5 DEF RunsWell, Meets
<1>9. /\ SegmentHits(Head(arrow.points), Head(arrow.points), boxes[arrow.from], GAP)
      /\ SegmentHits(Last(arrow.points), Last(arrow.points), boxes[arrow.to], GAP)
  BY <1>6, <1>7, <1>8, ReachedIsTouched
<1> QED BY <1>4, <1>8, <1>9 DEF Others

\* Between batches an arrow whose shapes are there touches both, and runs through no other shape
\* unless the last route it got was reported: those routeNeedsUpdate leaves alone
\* (src/canvas/excalidrawPort.ts) as well as those routeArrowElement routed.
THEOREM RoutesAlwaysHold == LayoutSpec => []RoutesHold
<1>1. LayoutInit => RoutesKnown
  BY StartsRouted
<1>2. LayoutInvariant /\ RoutesKnown /\ [LayoutNext]_layoutVars => RoutesKnown'
  BY StepKeepsRoutes
<1>3. LayoutInvariant /\ RoutesKnown => RoutesHold
  BY RoutesKnownHold
<1> QED BY <1>1, <1>2, <1>3, LayoutInvariantHolds, PTL DEF LayoutSpec
=============================================================================
