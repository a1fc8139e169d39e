-------------------------- MODULE MCCanvasWorkflow --------------------------
(***************************************************************************)
(* An instance of CanvasWorkflow for TLC: two shapes of the user, a plan   *)
(* of two refs, and answers that exercise every operation, a declaration   *)
(* ahead of its creates, and every way a call is refused.                  *)
(***************************************************************************)
EXTENDS CanvasWorkflow

CONSTANTS u1, u2, u3, n1, n2, n3, p, q

MCIds       == {u1, u2, u3, n1, n2, n3}
MCUserScene == [id \in {u1, u2} |-> Element("rectangle")]
MCClipboard == [id \in {u3} |-> Element("rectangle")]

create(ref)        == [op |-> "create_geo", ref |-> ref]
label(ref)         == [op |-> "create_text", ref |-> ref]
connect(a, b)      == [op |-> "connect_shapes", from |-> a, to |-> b]
on(op, id)         == [op |-> op, id |-> id]
place(ids, anchor) == [op |-> "place_region", ids |-> ids, anchorId |-> anchor]
diagram(refs)      == [op |-> "declare_diagram", plan |-> refs]
rel(kind, nodes)   == [kind |-> kind, nodes |-> nodes]
structure(rels)    == [op |-> "declare_structure", relations |-> rels]
malformed          == [op |-> "malformed"]

Answer(calls)   == [calls |-> calls, text |-> FALSE, question |-> FALSE]
Says(text)      == [calls |-> <<>>, text |-> text, question |-> FALSE]
Asks            == [calls |-> <<>>, text |-> FALSE, question |-> TRUE]

MCBuildTurns == {
  Says(TRUE), Asks,
  Answer(<<diagram({p}), create(p), label(q), on("update_text", u1)>>),
  Answer(<<diagram({p, q}), create(p), structure({rel("flow", {p, q}), rel("freeze", {u1})})>>),
  Answer(<<create(q), malformed, connect(p, q)>>),
  Answer(<<structure({rel("flow", {u1, u3})}), on("delete_shape", u2), place({q, p}, u2)>>)}

MCReviewTurns == {
  Says(TRUE), Asks,
  Answer(<<on("move_shape", p), place({p, u1}, Nothing), create(p)>>),
  Answer(<<structure({rel("flow", {p, q})}), structure({rel("flow", {p, u1})}), on("move_shape", u1)>>),
  Answer(<<diagram({p}), on("move_shape", p)>>)}
=============================================================================
