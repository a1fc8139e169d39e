-------------------------- MODULE MCSessionsTurns --------------------------
(***************************************************************************)
(* Sessions in one of two uses: the turns, questions and renames of one    *)
(* conversation, or the turns of two, one of them imported if one likes.   *)
(* The run explores the sum of the two instances.                          *)
(***************************************************************************)
EXTENDS MCSessions

VARIABLE use  \* "one" or "two" conversations

Within(convs, turns, documents) ==
  /\ lock'.conv \in convs \cup {None} /\ imp'.conv \in convs \cup {None}
  /\ imp'.doc \in documents \cup {NoRows}
  /\ lock'.draft.turn \in turns \cup {None} /\ \A call \in calls' : call.turn \in turns

\* No model request, no question and no name: a conversation is created and its turns run.
OnlyTurns ==
  /\ asking' = {} /\ Cardinality(calls') <= 1
  /\ lock'.draft.kind \notin {"renamed", "view"}

TurnsInit == Init /\ use \in {"one", "two"}
TurnsNext ==
  /\ Next /\ UNCHANGED use
  /\ use = "one" => Within({c1}, {t1, t2}, {})
  /\ use = "two" => Within({c1, c2}, {t1}, ShortDocuments) /\ OnlyTurns
TurnsSpec == TurnsInit /\ [][TurnsNext]_<<vars, use>> /\ Fairness
=============================================================================
