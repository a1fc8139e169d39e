--------------------------- MODULE TurnLifecycle ---------------------------
(***************************************************************************)
(* What the conversation store promises its callers about user requests,   *)
(* whatever crashes in between: a conversation runs one turn at a time, a  *)
(* turn ends once and keeps its outcome, an imported conversation appears  *)
(* at once with every turn ended, and a removed conversation stays away.   *)
(***************************************************************************)
CONSTANTS Conv, Turn, Outcome, None

VARIABLES
  active,   \* active[c]: the turn running in c, or None
  outcome,  \* outcome[c][t]: "none" before t begins, "open", then how it ended
  gone      \* conversations that were deleted

vars == <<active, outcome, gone>>

NoTurns == [t \in Turn |-> "none"]

Init ==
  /\ active  = [c \in Conv |-> None]
  /\ outcome = [c \in Conv |-> NoTurns]
  /\ gone = {}

Begin(c, t) ==
  /\ c \notin gone /\ active[c] = None /\ outcome[c][t] = "none"
  /\ active'  = [active EXCEPT ![c] = t]
  /\ outcome' = [outcome EXCEPT ![c][t] = "open"]
  /\ UNCHANGED gone

End(c, t, status) ==
  /\ active[c] = t
  /\ active'  = [active EXCEPT ![c] = None]
  /\ outcome' = [outcome EXCEPT ![c][t] = status]
  /\ UNCHANGED gone

\* An import becomes visible with the turns of its document, all of them ended.
Publish(c, ended) ==
  /\ c \notin gone /\ outcome[c] = NoTurns
  /\ outcome' = [outcome EXCEPT ![c] = ended]
  /\ UNCHANGED <<active, gone>>

Remove(c) ==
  /\ c \notin gone /\ active[c] = None
  /\ gone' = gone \cup {c}
  /\ outcome' = [outcome EXCEPT ![c] = NoTurns]
  /\ UNCHANGED active

Next ==
  \E c \in Conv :
    \/ \E t \in Turn : Begin(c, t) \/ \E status \in Outcome : End(c, t, status)
    \/ \E ended \in [Turn -> Outcome \cup {"none"}] : Publish(c, ended)
    \/ Remove(c)

Spec == Init /\ [][Next]_vars
============================================================================
