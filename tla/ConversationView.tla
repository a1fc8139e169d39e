-------------------------- MODULE ConversationView --------------------------
(***************************************************************************)
(* HarnessConversations (src/harness/conversations.ts): the snapshot of    *)
(* the selected conversation, kept from pages and from notifications, and  *)
(* the user request that runs on it.  The native side appends events under *)
(* its mutex and sends their notifications after it (SessionStore::append),*)
(* so events of different callers may be announced in the other order.     *)
(*                                                                         *)
(* A selection that was superseded returns at its next page and changes    *)
(* nothing, so `load` is the newest one.  Promise reactions run before the *)
(* next message: an answer and what follows from it are one step.          *)
(***************************************************************************)
EXTENDS Naturals, SequencesExt

CONSTANTS
  Talks,       \* conversations
  PageSize,    \* events of one page of session/read
  MaxEvents,   \* bound: events of a journal, the end of its last turn aside
  MaxUserRuns, \* bound: user requests
  MaxSelects,  \* bound: selections
  MaxExits,    \* bound: times the native process ends
  MaxAside     \* bound: events of other tasks, from the kernel or by session/cancel

NoTalk == "none"

ASSUME TalksAreNamed == NoTalk \notin Talks
ASSUME PagesAreCounted == PageSize \in Nat

VARIABLES
  journals, \* the events of each conversation
  unsent,   \* events appended whose notification is not sent yet
  wire,     \* notifications on their way
  linked,   \* a native process is connected
  view,     \* ConversationSnapshot: meta, events, activeTurn (0 = null)
  load,     \* the newest select, and the page read for it
  run,      \* the request of HarnessConversations.run
  spent     \* what the bounds count

viewVars == <<journals, unsent, wire, linked, view, load, run, spent>>

NoLoad == [talk |-> NoTalk, after |-> 0, events |-> {}, buffer |-> {}, page |-> "none",
           next |-> 0, more |-> FALSE, active |-> 0]
NoRun  == [stage |-> "idle", turn |-> 0, talk |-> NoTalk, emitted |-> 0, recorded |-> 0, failed |-> FALSE,
           asked |-> "none", awaits |-> 0]

ViewInit ==
  /\ journals = [t \in Talks |-> <<>>]
  /\ unsent = {} /\ wire = <<>> /\ linked = TRUE
  /\ view = [meta |-> NoTalk, events |-> {}, activeTurn |-> 0]
  /\ load = NoLoad /\ run = NoRun
  /\ spent = [runs |-> 0, selects |-> 0, exits |-> 0, aside |-> 0]

-----------------------------------------------------------------------------
(* The native journal.                                                     *)

Event(kind, turn, n) == [kind |-> kind, turn |-> turn, n |-> n]
Marks == {"turn_begin", "completed", "failed", "interrupted"}  \* turn_end has the status

\* The turn that the last mark among the events of these sequence numbers leaves open.
ActiveAmong(t, sequences) ==
  LET marks == {i \in sequences : journals[t][i].kind \in Marks}
      last  == CHOOSE i \in marks : \A j \in marks : j <= i
  IN IF marks = {} \/ journals[t][last].kind # "turn_begin" THEN 0 ELSE journals[t][last].turn
Active(t) == ActiveAmong(t, DOMAIN journals[t])

\* append by a caller that waits for the answer: its notification is sent before that.
AppendSent(t, event) ==
  /\ journals' = [journals EXCEPT ![t] = Append(@, event)]
  /\ wire' = Append(wire, [talk |-> t, sequence |-> Len(journals[t]) + 1])
  /\ UNCHANGED unsent

\* append by another task, which may be held up between the mutex and the notification.
AppendUnsent(t, event) ==
  /\ journals' = [journals EXCEPT ![t] = Append(@, event)]
  /\ unsent' = unsent \cup {[talk |-> t, sequence |-> Len(journals[t]) + 1]}
  /\ spent.aside < MaxAside /\ spent' = [spent EXCEPT !.aside = @ + 1]
  /\ UNCHANGED wire

Roomy(t) == Len(journals[t]) < MaxEvents

\* The kernel's events of the open turn, and session/cancel by the user.
ModelSpeaks ==
  /\ \E t \in Talks : Active(t) # 0 /\ Roomy(t)
       /\ AppendUnsent(t, Event("model", Active(t), 0))
  /\ UNCHANGED <<linked, view, load, run>>
UserStops ==
  /\ linked
  /\ \E t \in {view.meta} \ {NoTalk} : Active(t) # 0 /\ AppendUnsent(t, Event("interrupted", Active(t), 0))
  /\ UNCHANGED <<linked, view, load, run>>
Sends ==
  /\ \E u \in unsent : unsent' = unsent \ {u} /\ wire' = Append(wire, u)
  /\ UNCHANGED <<journals, linked, view, load, run, spent>>

\* session/read answers with a page of what the journal holds now.
Reads ==
  /\ linked /\ load.page = "asked"
  /\ \E next \in {IF load.after + PageSize < Len(journals[load.talk])
                  THEN load.after + PageSize ELSE Len(journals[load.talk])} :
       load' = [load EXCEPT !.page = "answered", !.next = next,
                  !.more = next < Len(journals[load.talk]), !.active = Active(load.talk)]
  /\ UNCHANGED <<journals, unsent, wire, linked, view, run, spent>>

-----------------------------------------------------------------------------
(* What the run does with the answer to what it asked, or with a failure.  *)

Answered(r) ==
  CASE r.asked = "turn_begin" -> [r EXCEPT !.awaits = 0, !.stage = "executing"]
    [] r.asked = "record"     -> [r EXCEPT !.awaits = 0, !.recorded = @ + 1]
    [] OTHER                  -> NoRun
Rejected(r) ==
  CASE r.asked = "record"    -> [r EXCEPT !.awaits = 0, !.failed = TRUE]
    [] r.asked = "completed" -> [r EXCEPT !.awaits = 0, !.stage = "failing"]
    [] OTHER                 -> NoRun

-----------------------------------------------------------------------------
(* The snapshot.                                                           *)

Loading(t) == [NoLoad EXCEPT !.talk = t, !.page = "asked"]

\* The subscription: an event already known is dropped, any other is sorted in.  The
\* answer to the run's own request follows its notification.
Notified ==
  /\ wire # <<>>
  /\ wire' = Tail(wire)
  /\ \E t \in {Head(wire).talk}, i \in {Head(wire).sequence} :
       /\ load' = IF load.talk = t THEN [load EXCEPT !.buffer = @ \cup {i}] ELSE load
       /\ view' = IF view.meta # t \/ i \in view.events THEN view
                  ELSE [view EXCEPT !.events = @ \cup {i},
                          !.activeTurn = CASE journals[t][i].kind = "turn_begin" -> journals[t][i].turn
                                           [] journals[t][i].kind \in Marks \ {"turn_begin"} -> 0
                                           [] OTHER -> @]
       /\ run' = IF run.talk = t /\ run.awaits = i THEN Answered(run) ELSE run
  /\ UNCHANGED <<journals, unsent, linked, spent>>

Busy == run.stage # "idle" \/ view.activeTurn # 0

\* The workspace selects only when nothing runs.
Select(t) ==
  /\ ~Busy /\ spent.selects < MaxSelects
  /\ load' = Loading(t)
  /\ spent' = [spent EXCEPT !.selects = @ + 1]
  /\ UNCHANGED <<journals, unsent, wire, linked, view, run>>

\* Mutant: what was announced during the selection is forgotten.
PageArrivesAlone ==
  /\ load.page = "answered"
  /\ \E read \in {load.events \cup (load.after + 1)..load.next} :
       IF load.more
         THEN /\ load' = [load EXCEPT !.page = "asked", !.after = load.next, !.events = read]
              /\ UNCHANGED view
         ELSE /\ load' = NoLoad
              /\ view' = [meta |-> load.talk, events |-> read, activeTurn |-> load.active]
  /\ UNCHANGED <<journals, unsent, wire, linked, run, spent>>

\* The events from the page asked for on, and the next request or the published snapshot.
PageArrives ==
  /\ load.page = "answered"
  /\ \E read \in {load.events \cup (load.after + 1)..load.next} :
       IF load.more
         THEN /\ load' = [load EXCEPT !.page = "asked", !.after = load.next, !.events = read]
              /\ UNCHANGED view
         ELSE /\ load' = NoLoad
              /\ \E merged \in {read \cup load.buffer} :
                   view' = [meta |-> load.talk, events |-> merged,
                            activeTurn |-> IF \E i \in merged : journals[load.talk][i].kind \in Marks
                                           THEN ActiveAmong(load.talk, merged) ELSE load.active]
  /\ UNCHANGED <<journals, unsent, wire, linked, run, spent>>

\* The process ends: what it had not sent is lost, requests are rejected; when it is
\* opened again the native side ends the turns that were open.
ProcessEnds ==
  /\ linked /\ spent.exits < MaxExits
  /\ linked' = FALSE
  /\ unsent' = {} /\ wire' = <<>>
  /\ journals' = [t \in Talks |-> IF Active(t) = 0 THEN journals[t]
                                  ELSE Append(journals[t], Event("interrupted", Active(t), 0))]
  /\ load' = NoLoad
  /\ run' = IF run.awaits = 0 THEN run ELSE Rejected(run)
  /\ spent' = [spent EXCEPT !.exits = @ + 1]
  /\ UNCHANGED view

\* The next request starts a process; its runtime/ready selects the conversation again,
\* unless a selection is waiting for that process.
Ready ==
  /\ ~linked
  /\ linked' = TRUE
  /\ load' = IF view.meta # NoTalk /\ load = NoLoad THEN Loading(view.meta) ELSE load
  /\ UNCHANGED <<journals, unsent, wire, view, run, spent>>

-----------------------------------------------------------------------------
(* HarnessConversations.run: begin, the records in a chain, finish.        *)

RunStarts ==
  /\ ~Busy /\ view.meta # NoTalk /\ spent.runs < MaxUserRuns
  /\ run' = [NoRun EXCEPT !.stage = "beginning", !.turn = spent.runs + 1, !.talk = view.meta]
  /\ spent' = [spent EXCEPT !.runs = @ + 1]
  /\ UNCHANGED <<journals, unsent, wire, linked, view, load>>

\* A request to append an event: done where the journal allows it, or refused.
Request(kind, n, allowed) ==
  /\ linked /\ run.awaits = 0
  /\ \E asked \in {[run EXCEPT !.asked = kind, !.awaits = Len(journals[run.talk]) + 1]} :
       \/ allowed /\ AppendSent(run.talk, Event(kind, run.turn, n)) /\ run' = asked
       \/ run' = Rejected(asked) /\ UNCHANGED <<journals, unsent, wire>>
  /\ UNCHANGED <<linked, view, load, spent>>
InTurn == Active(run.talk) = run.turn

Begins ==
  /\ run.stage = "beginning" /\ Roomy(run.talk)
  /\ Request("turn_begin", 0, Active(run.talk) = 0)

Emits ==
  /\ run.stage = "executing" /\ Len(journals[run.talk]) + run.emitted - run.recorded < MaxEvents
  /\ run' = [run EXCEPT !.emitted = @ + 1]
  /\ UNCHANGED <<journals, unsent, wire, linked, view, load, spent>>

\* One link of the chain; after a failure the others are skipped and the engine is cancelled.
Records ==
  /\ run.stage \in {"executing", "completing", "failing"}
  /\ run.recorded < run.emitted /\ ~run.failed
  /\ Request("record", run.recorded + 1, InTurn)

EngineEnds ==
  /\ run.stage = "executing"
  /\ run' \in {[run EXCEPT !.stage = "completing"], [run EXCEPT !.stage = "failing"]}
  /\ UNCHANGED <<journals, unsent, wire, linked, view, load, spent>>

\* await pending; a record that failed fails the request.
Drained == run.recorded = run.emitted \/ run.failed
\* Mutant: a record that failed is not the request's failure.
CompletesAnyhow == run.stage = "completing" /\ Drained
Completes == run.stage = "completing" /\ Drained /\ ~run.failed
Finishes ==
  \/ Completes /\ Request("completed", run.emitted, InTurn)
  \/ /\ run.stage = "failing" \/ (run.stage = "completing" /\ run.failed)
     /\ Drained
     /\ Request("failed", run.emitted, InTurn)

ViewNext ==
  \/ ModelSpeaks \/ UserStops \/ Sends \/ Reads
  \/ Notified \/ PageArrives \/ ProcessEnds \/ Ready
  \/ \E t \in Talks : Select(t)
  \/ RunStarts \/ Begins \/ Emits \/ Records \/ EngineEnds \/ Finishes
ViewSpec == ViewInit /\ [][ViewNext]_viewVars

-----------------------------------------------------------------------------
(* Properties.                                                             *)

\* Once nothing of the selected conversation is on its way, the snapshot has exactly
\* the events of its journal and its open turn, although notifications are reordered,
\* overlap the pages of a selection, or are lost with the process.
SettledViewIsJournal ==
  /\ linked /\ load = NoLoad /\ view.meta # NoTalk
  /\ \A n \in unsent \cup Range(wire) : n.talk # view.meta
  => view.events = DOMAIN journals[view.meta] /\ view.activeTurn = Active(view.meta)

\* A request is completed in the journal only with every event its engine reported,
\* in the order they were reported.
CompletedHasItsRecords ==
  \A t \in Talks : \A i \in DOMAIN journals[t] : journals[t][i].kind = "completed" =>
    LET records == {j \in DOMAIN journals[t] :
                      journals[t][j].kind = "record" /\ journals[t][j].turn = journals[t][i].turn}
    IN /\ {journals[t][j].n : j \in records} = 1..journals[t][i].n
       /\ \A j, k \in records : j < k => journals[t][j].n < journals[t][k].n
=============================================================================
