----------------------------- MODULE MCThreads -----------------------------
(***************************************************************************)
(* Instances of Threads for TLC.                                           *)
(***************************************************************************)
EXTENDS Threads

CONSTANTS th1, th2, f1, f2, t1, r1, r2

MCRoleOf == [f \in Frozen |-> "canvas"]

\* A run about what segments have heard leaves deletion and cancellation out.
Undisturbed == ~Deleted(journal) /\ cancelled = {} /\ stopping = NotStopping
=============================================================================
