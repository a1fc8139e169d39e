----------------------------- MODULE MCSessions -----------------------------
(***************************************************************************)
(* Instances of Sessions for TLC.                                          *)
(***************************************************************************)
EXTENDS Sessions, TLC

CONSTANTS c1, c2, t1, t2, k1, k2

\* An export of one finished request, and one cut off inside its request.
FinishedDoc ==
  << BeginDraft(t2, "canvas", None), ViewDraft(t2, k2, "text"), EndDraft(t2, "completed") >>
UnfinishedDoc == SubSeq(FinishedDoc, 1, 2)

MCDocuments == {FinishedDoc, UnfinishedDoc}

\* A request that showed nothing, beside the requests of this process.
ShortDocuments == {<< BeginDraft(t1, "canvas", None), EndDraft(t1, "failed") >>}
=============================================================================
