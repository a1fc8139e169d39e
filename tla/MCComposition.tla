--------------------------- MODULE MCComposition ---------------------------
(***************************************************************************)
(* Steps going down to the right: each is a box with another one in it,    *)
(* which is declared to stand in a column with the next box; the repair    *)
(* has to move the first box by one pixel, for an arrow from the head, and *)
(* what is in the last one by five, for an arrow from the tail.            *)
(***************************************************************************)
EXTENDS CanvasLayout

MCOuter == <<"p1", "p2", "p3", "p4", "p5", "p6">>
MCInner == <<"c1", "c2", "c3", "c4", "c5", "c6">>

Steps == DOMAIN MCOuter
Box(x, y, w, h) == [x |-> x, y |-> y, w |-> w, h |-> h, type |-> "rectangle"]
OuterBox(n) == Box(60 * n, 150 * n, 200, 100)
InnerBox(n) == Box(60 * n + 60, 150 * n + 30, 60, 40)
LeftOf(box, gap, y) == Box(box.x - gap - 60, y, 60, 40)
Stairs ==
  Joined([head |-> LeftOf(OuterBox(1), MIN_CONNECTOR_GAP - 1, 150),
          tail |-> LeftOf(InnerBox(Len(MCInner)), MIN_CONNECTOR_GAP - 5, 150 * Len(MCInner) + 200)],
         [id \in ToSet(MCOuter) \cup ToSet(MCInner) |->
            IF id \in ToSet(MCOuter) THEN OuterBox(IndexFirstSubSeq(<<id>>, MCOuter))
            ELSE InnerBox(IndexFirstSubSeq(<<id>>, MCInner))])
MCPages == {[order |-> <<"head", "tail">> \o MCOuter \o MCInner, boxes |-> Stairs]}

Join(from, to) == [op |-> "connect_shapes", from |-> from, to |-> to, label |-> NoLabel]
Flow(nodes)    == [kind |-> "flow", nodes |-> nodes, way |-> "right"]
Column(n)      == [kind |-> "align", nodes |-> <<MCInner[n], MCOuter[n + 1]>>, way |-> "x"]
MCOpenings ==
  {[ops |-> <<Join("head", Head(MCOuter)), Join("tail", Last(MCInner))>>,
    declared |-> <<Flow(<<"head">> \o MCOuter), Flow(<<"tail">> \o Reverse(MCInner))>>
                   \o [n \in 1..Len(MCOuter) - 1 |-> Column(n)]]}
=============================================================================
