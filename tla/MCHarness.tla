------------------------------ MODULE MCHarness ------------------------------
(***************************************************************************)
(* The harness from both ends: the threads and receipts of the native      *)
(* process, and the client of the webview that asks for them.  The client  *)
(* has a model of the process of its own (external), so a behaviour is one *)
(* of one of them: the run explores their sum.                             *)
(***************************************************************************)
EXTENDS MCThreads, HarnessClient

VARIABLE end  \* "process" or "client"

Serving == end = "process" /\ Next /\ UNCHANGED <<end, clientVars>>
Calling == end = "client" /\ ClientNext /\ UNCHANGED <<end, vars>>

HarnessInit == end \in {"process", "client"} /\ Init /\ ClientInit
HarnessNext == Serving \/ Calling
HarnessSpec ==
  /\ HarnessInit /\ [][HarnessNext]_<<end, vars, clientVars>>
  /\ end = "process" => Fairness
  /\ end = "client" => ClientFairness
=============================================================================
