------------------------------ MODULE Journal ------------------------------
(***************************************************************************)
(* One conversation's journal: the sequence of events that                 *)
(* harness/src/sessions.rs keeps in memory (Conversation.events) and, one  *)
(* JSON line per event, on disk.  The module is the vocabulary shared by   *)
(* every component that reads or extends a journal; it has no state.       *)
(*                                                                         *)
(* An event's `id` is the code's string with its prefix split off:         *)
(* "begin:{turn}" is <<"begin", turn>>.  Its `data` keeps the two fields   *)
(* the handlers look at: <<role, replyTo>> of a turn_begin, <<status, _>>  *)
(* of a turn_end, <<view kind, _>> of a view, <<"importing", _>> of a      *)
(* created event.  Texts, timestamps and names are left out.               *)
(***************************************************************************)
EXTENDS Integers, Sequences

CONSTANTS
  Turn,       \* identities of user requests (turn UUIDs)
  Key,        \* every other identity: views, model requests, fresh UUIDs
  Role,       \* the roles a request runs under ("canvas", "project")
  Shown,      \* kinds of displayed event ("question", "text", "activity", ...)
  None        \* absent turn, absent reply, unused data field

ASSUME NoneIsNeither == None \notin Turn /\ None \notin Key

Outcome == {"completed", "failed", "interrupted"}

\* Event kinds by the handler that writes them.
TurnKind     == {"turn_begin", "turn_end"}
ScopedKind   == {"view", "model_input"}
ImportedKind == TurnKind \cup ScopedKind \cup {"model_result", "legacy_context", "legacy_metadata"}
Kind == ImportedKind \cup {"created", "renamed", "deleted", "import_complete"}

Prefix  == {"created", "begin", "end", "view", "input", "result", "legacy-context",
            "legacy-metadata", "rename", "import_complete", "deleted"}
EventId == Prefix \X (Turn \cup Key \cup Nat \cup {None})
Word    == Outcome \cup Role \cup Shown \cup {"local", "importing", ""}
Data    == Word \X (Key \cup {None})
Event   == [seq: Nat, id: EventId, turn: Turn \cup {None}, kind: Kind, data: Data]

NoData == <<"", None>>

\* An event as a caller describes it; append gives it the next sequence number.
Draft(id, turn, kind, data) == [id |-> id, turn |-> turn, kind |-> kind, data |-> data]
Drafts == [id: EventId, turn: Turn \cup {None}, kind: Kind, data: Data]

Numbered(draft, n) ==
  [seq |-> n, id |-> draft.id, turn |-> draft.turn, kind |-> draft.kind, data |-> draft.data]

NoRows == <<>>

Extended(ev, draft) == Append(ev, Numbered(draft, Len(ev) + 1))

----------------------------------------------------------------------------
(* What the handlers ask of a journal.                                     *)

HasId(ev, id) == \E i \in DOMAIN ev : ev[i].id = id

HasKind(ev, kind) == \E i \in DOMAIN ev : ev[i].kind = kind

Deleted(ev) == HasKind(ev, "deleted")

\* The first row says that an import was begun here, and no row yet that it was committed.
Imported(ev) == ev # <<>> /\ ev[1].data[1] = "importing"

Importing(ev) == Imported(ev) /\ ~HasKind(ev, "import_complete")

\* In the map and not a tombstone: what get and get_mut find.
Live(ev) == ev # <<>> /\ ~Deleted(ev)

\* i is the last turn marker of ev.
LastMarker(ev, i) ==
  /\ i \in DOMAIN ev
  /\ ev[i].kind \in TurnKind
  /\ \A j \in DOMAIN ev : j > i => ev[j].kind \notin TurnKind

\* Conversation::active, as the set of turns it returns: empty or one turn.
ActiveTurns(ev) ==
  {t \in Turn : \E i \in DOMAIN ev :
                   LastMarker(ev, i) /\ ev[i].kind = "turn_begin" /\ ev[i].turn = t}

\* Conversation::revision: the sequence of the last event that changed the model's context.
Revision(ev) ==
  LET at == {i \in DOMAIN ev : ev[i].kind \in {"model_result", "legacy_context"}}
  IN  IF at = {} THEN 0 ELSE ev[CHOOSE i \in at : \A j \in at : j <= i].seq

\* The guard of append for events that need an active request.
MayRecord(ev, draft) ==
  /\ ~Importing(ev)
  /\ IF draft.kind = "turn_begin" THEN ActiveTurns(ev) = {}
                                  ELSE draft.turn \in ActiveTurns(ev)

\* begin's check of replyTo: a question shown in this conversation, of a turn of this role.
AnswersQuestion(ev, reply, role) ==
  \E i, j \in DOMAIN ev :
     /\ ev[i].id = <<"view", reply>> /\ ev[i].kind = "view" /\ ev[i].data[1] = "question"
     /\ ev[j].kind = "turn_begin" /\ ev[j].turn = ev[i].turn /\ ev[j].data[1] = role

----------------------------------------------------------------------------
(* The events the handlers write.                                          *)

CreatedDraft(how)       == Draft(<<"created", None>>, None, "created", <<how, None>>)
BeginDraft(t, role, to) == Draft(<<"begin", t>>, t, "turn_begin", <<role, to>>)
EndDraft(t, status)     == Draft(<<"end", t>>, t, "turn_end", <<status, None>>)
ViewDraft(t, v, shown)  == Draft(<<"view", v>>, t, "view", <<shown, None>>)
InputDraft(t, r)        == Draft(<<"input", r>>, t, "model_input", NoData)
ResultDraft(t, r)       == Draft(<<"result", r>>, t, "model_result", NoData)
LegacyDraft(i, last)    ==
  IF i = last THEN Draft(<<"legacy-metadata", None>>, None, "legacy_metadata", NoData)
              ELSE Draft(<<"legacy-context", i>>, None, "legacy_context", NoData)
RenameDraft(k)          == Draft(<<"rename", k>>, None, "renamed", NoData)
CommitDraft             == Draft(<<"import_complete", None>>, None, "import_complete", NoData)
Tombstone               == Draft(<<"deleted", None>>, None, "deleted", NoData)

----------------------------------------------------------------------------
(* What a well-formed journal is: the parts of its invariant.              *)

\* Sequence numbers count the rows: what open checks row by row.
Contiguous(ev) == \A i \in DOMAIN ev : ev[i].seq = i

\* An event id names one row.
UniqueIds(ev) == \A i, j \in DOMAIN ev : ev[i].id = ev[j].id => i = j

\* Row i opens a turn that row j closes, with no other marker between them.
Closes(ev, i, j) ==
  /\ j \in DOMAIN ev /\ i < j
  /\ ev[j].kind = "turn_end" /\ ev[j].turn = ev[i].turn
  /\ \A k \in DOMAIN ev : i < k /\ k < j => ev[k].kind \notin TurnKind

\* Each turn is the last thing begun, or was ended before the next began.
OneTurnAtATime(ev) ==
  \A i \in DOMAIN ev :
     ev[i].kind = "turn_begin" => LastMarker(ev, i) \/ \E j \in DOMAIN ev : Closes(ev, i, j)

\* Row j belongs to the turn opened by row i: i is the last marker before j.
Encloses(ev, i, j) ==
  /\ i \in DOMAIN ev /\ i < j
  /\ ev[i].kind = "turn_begin" /\ ev[i].turn = ev[j].turn
  /\ \A k \in DOMAIN ev : i < k /\ k < j => ev[k].kind \notin TurnKind

\* Displayed events, model inputs and ends are written while their turn is open.
InsideItsTurn(ev) ==
  \A j \in DOMAIN ev :
     ev[j].kind \in ScopedKind \cup {"turn_end"} => \E i \in DOMAIN ev : Encloses(ev, i, j)
============================================================================
