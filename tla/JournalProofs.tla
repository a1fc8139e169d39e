--------------------------- MODULE JournalProofs ---------------------------
(***************************************************************************)
(* Lemmas about Journal: what appending one row keeps.  They are about     *)
(* single journals; SessionsProofs applies them to every step of the       *)
(* store.                                                                  *)
(***************************************************************************)
EXTENDS Journal, WellFoundedInduction, TLAPS

\* Numbers have a least one.
LEMMA LeastNumber ==
  ASSUME NEW S \in SUBSET Nat, S # {}
  PROVE  \E x \in S : \A y \in S : x <= y
<1>1. PICK x \in S : \A y \in S : <<y, x>> \notin OpToRel(<, Nat)
  BY NatLessThanWellFounded, WFMin
<1>2. ASSUME NEW y \in S PROVE x <= y
  <2>1. <<y, x>> \in Nat \X Nat /\ <<y, x>>[1] = y /\ <<y, x>>[2] = x
    OBVIOUS
  <2>2. ~(y < x)
    BY <1>1, <2>1 DEF OpToRel
  <2>3. QED
    BY <2>2
<1>3. QED
  BY <1>2

\* Some rows of a journal of n rows: one of them is the last.
LEMMA LastOfRows ==
  ASSUME NEW n \in Nat, NEW at \in SUBSET (1 .. n), at # {}
  PROVE  \E i \in at : \A j \in at : j <= i
<1> DEFINE back == {n - i : i \in at}
<1>1. \A i \in at : i \in Nat /\ n - i \in Nat
  OBVIOUS
<1>2. back \in SUBSET Nat /\ back # {}
  <2>1. back \subseteq Nat
    BY <1>1
  <2>2. PICK i \in at : TRUE
    OBVIOUS
  <2>3. n - i \in back
    BY <2>2
  <2>4. QED
    BY <2>1, <2>3
<1>3. PICK x \in back : \A y \in back : x <= y
  <2> HIDE DEF back
  <2> QED BY <1>2, LeastNumber
<1>4. PICK i \in at : x = n - i
  OBVIOUS
<1>5. ASSUME NEW j \in at PROVE j <= i
  <2>1. n - j \in back
    OBVIOUS
  <2>2. n - i <= n - j
    BY <1>3, <1>4, <2>1
  <2>3. QED
    BY <1>1, <1>4, <2>2
<1>6. QED
  BY <1>4, <1>5

\* The fields of a numbered draft.
LEMMA NumberedFields ==
  ASSUME NEW draft \in Drafts, NEW n \in Nat
  PROVE  /\ Numbered(draft, n) \in Event
         /\ Numbered(draft, n).seq = n
         /\ Numbered(draft, n).id = draft.id
         /\ Numbered(draft, n).turn = draft.turn
         /\ Numbered(draft, n).kind = draft.kind
         /\ Numbered(draft, n).data = draft.data
BY DEF Numbered, Event, Drafts

\* The rows of a journal and the row that Extended adds to it.
LEMMA ExtendedRows ==
  ASSUME NEW ev \in Seq(Event), NEW draft \in Drafts
  PROVE  /\ Extended(ev, draft) \in Seq(Event)
         /\ Len(ev) \in Nat /\ Len(Extended(ev, draft)) = Len(ev) + 1
         /\ DOMAIN ev = 1 .. Len(ev)
         /\ DOMAIN Extended(ev, draft) = 1 .. Len(ev) + 1
         /\ \A i \in 1 .. Len(ev) : Extended(ev, draft)[i] = ev[i]
         /\ Extended(ev, draft)[Len(ev) + 1] = Numbered(draft, Len(ev) + 1)
<1>1. Numbered(draft, Len(ev) + 1) \in Event
  BY NumberedFields
<1>2. QED
  BY <1>1 DEF Extended

\* What the handlers write are drafts.
LEMMA BuiltDrafts ==
  /\ \A how \in {"local", "importing"} : CreatedDraft(how) \in Drafts
  /\ \A t \in Turn, role \in Role, to \in Key \cup {None} : BeginDraft(t, role, to) \in Drafts
  /\ \A t \in Turn, status \in Outcome : EndDraft(t, status) \in Drafts
  /\ \A t \in Turn, k \in Key, shown \in Shown : ViewDraft(t, k, shown) \in Drafts
  /\ \A t \in Turn, r \in Key : InputDraft(t, r) \in Drafts /\ ResultDraft(t, r) \in Drafts
  /\ \A i, last \in Nat : LegacyDraft(i, last) \in Drafts
  /\ \A k \in Key : RenameDraft(k) \in Drafts
  /\ CommitDraft \in Drafts /\ Tombstone \in Drafts
<1>1. ASSUME NEW word \in Prefix, NEW x \in Turn \cup Key \cup Nat \cup {None},
             NEW turn \in Turn \cup {None}, NEW kind \in Kind,
             NEW field \in Word, NEW y \in Key \cup {None}
      PROVE  Draft(<<word, x>>, turn, kind, <<field, y>>) \in Drafts
  BY DEF Draft, Drafts, EventId, Data
<1>2. /\ {"created", "renamed", "deleted", "import_complete"} \subseteq Kind
      /\ {"turn_begin", "turn_end", "view", "model_input"} \subseteq Kind
      /\ {"model_result", "legacy_context", "legacy_metadata"} \subseteq Kind
      /\ Outcome \cup Role \cup Shown \cup {"local", "importing", ""} \subseteq Word
  BY DEF Kind, ImportedKind, TurnKind, ScopedKind, Word
<1>3. \A how \in {"local", "importing"} : CreatedDraft(how) \in Drafts
  BY <1>1, <1>2 DEF CreatedDraft, Prefix
<1>4. \A t \in Turn, role \in Role, to \in Key \cup {None} : BeginDraft(t, role, to) \in Drafts
  BY <1>1, <1>2 DEF BeginDraft, Prefix
<1>5. \A t \in Turn, status \in Outcome : EndDraft(t, status) \in Drafts
  BY <1>1, <1>2 DEF EndDraft, Prefix
<1>6. \A t \in Turn, k \in Key, shown \in Shown : ViewDraft(t, k, shown) \in Drafts
  BY <1>1, <1>2 DEF ViewDraft, Prefix
<1>7. \A t \in Turn, r \in Key : InputDraft(t, r) \in Drafts /\ ResultDraft(t, r) \in Drafts
  BY <1>1, <1>2 DEF InputDraft, ResultDraft, NoData, Prefix
<1>8. \A i, last \in Nat : LegacyDraft(i, last) \in Drafts
  BY <1>1, <1>2 DEF LegacyDraft, NoData, Prefix
<1>9. \A k \in Key : RenameDraft(k) \in Drafts
  BY <1>1, <1>2 DEF RenameDraft, NoData, Prefix
<1>10. CommitDraft \in Drafts /\ Tombstone \in Drafts
  BY <1>1, <1>2 DEF CommitDraft, Tombstone, NoData, Prefix
<1>11. QED
  BY <1>3, <1>4, <1>5, <1>6, <1>7, <1>8, <1>9, <1>10

\* Their kinds.
LEMMA DraftKinds ==
  /\ \A how : CreatedDraft(how).kind = "created"
  /\ \A t, role, to : BeginDraft(t, role, to).kind = "turn_begin"
  /\ \A t, status : EndDraft(t, status).kind = "turn_end"
  /\ \A t, k, shown : ViewDraft(t, k, shown).kind = "view"
  /\ \A t, r : InputDraft(t, r).kind = "model_input" /\ ResultDraft(t, r).kind = "model_result"
  /\ \A i, last : LegacyDraft(i, last).kind \in {"legacy_context", "legacy_metadata"}
  /\ \A k : RenameDraft(k).kind = "renamed"
  /\ CommitDraft.kind = "import_complete" /\ Tombstone.kind = "deleted"
BY DEF CreatedDraft, BeginDraft, EndDraft, ViewDraft, InputDraft, ResultDraft, LegacyDraft,
       RenameDraft, CommitDraft, Tombstone, Draft

----------------------------------------------------------------------------
(* Numbering and identity.                                                 *)

\* The row append writes carries the next sequence number.
LEMMA ExtendedContiguous ==
  ASSUME NEW ev \in Seq(Event), NEW draft \in Drafts, Contiguous(ev)
  PROVE  Contiguous(Extended(ev, draft))
<1> DEFINE new == Extended(ev, draft)
<1>1. DOMAIN ev = 1 .. Len(ev) /\ DOMAIN new = 1 .. Len(ev) + 1 /\ Len(ev) \in Nat
  BY ExtendedRows
<1>2. \A i \in 1 .. Len(ev) : new[i] = ev[i]
  BY ExtendedRows
<1>3. new[Len(ev) + 1].seq = Len(ev) + 1
  BY ExtendedRows, NumberedFields
<1>4. QED
  BY <1>1, <1>2, <1>3 DEF Contiguous

\* A fresh id keeps ids unique.
LEMMA ExtendedUniqueIds ==
  ASSUME NEW ev \in Seq(Event), NEW draft \in Drafts,
         UniqueIds(ev), ~HasId(ev, draft.id)
  PROVE  UniqueIds(Extended(ev, draft))
<1> DEFINE new == Extended(ev, draft)
<1>1. DOMAIN ev = 1 .. Len(ev) /\ DOMAIN new = 1 .. Len(ev) + 1 /\ Len(ev) \in Nat
  BY ExtendedRows
<1>2. \A i \in 1 .. Len(ev) : new[i] = ev[i]
  BY ExtendedRows
<1>3. new[Len(ev) + 1].id = draft.id
  BY ExtendedRows, NumberedFields
<1>4. \A i \in 1 .. Len(ev) : new[i].id # draft.id
  BY <1>1, <1>2 DEF HasId
<1>5. QED
  BY <1>1, <1>2, <1>3, <1>4 DEF UniqueIds

----------------------------------------------------------------------------
(* Turns.                                                                  *)

\* The rows that open a turn name one.
TurnsAreNamed(ev) == \A i \in DOMAIN ev : ev[i].kind = "turn_begin" => ev[i].turn \in Turn

\* The begin that is the last marker of ev names the active turn.
LEMMA LastBeginIsActive ==
  ASSUME NEW ev, NEW i, TurnsAreNamed(ev), LastMarker(ev, i), ev[i].kind = "turn_begin"
  PROVE  ev[i].turn \in ActiveTurns(ev)
BY DEF TurnsAreNamed, LastMarker, ActiveTurns

\* There is one last marker.
LEMMA OneLastMarker ==
  ASSUME NEW ev \in Seq(Event), NEW i, NEW j, LastMarker(ev, i), LastMarker(ev, j)
  PROVE  i = j
BY DEF LastMarker

\* At most one turn is active.
LEMMA OneActiveTurn ==
  ASSUME NEW ev \in Seq(Event), NEW t \in ActiveTurns(ev), NEW u \in ActiveTurns(ev)
  PROVE  t = u
<1>1. PICK i \in DOMAIN ev : LastMarker(ev, i) /\ ev[i].turn = t
  BY DEF ActiveTurns
<1>2. PICK j \in DOMAIN ev : LastMarker(ev, j) /\ ev[j].turn = u
  BY DEF ActiveTurns
<1>3. QED
  BY <1>1, <1>2, OneLastMarker

\* A turn that was closed stays closed when a row is appended.
LEMMA ExtendedCloses ==
  ASSUME NEW ev \in Seq(Event), NEW draft \in Drafts, NEW i \in DOMAIN ev, NEW j, Closes(ev, i, j)
  PROVE  Closes(Extended(ev, draft), i, j)
<1> DEFINE new == Extended(ev, draft)
<1>1. i \in 1 .. Len(ev) /\ j \in 1 .. Len(ev)
  BY ExtendedRows DEF Closes
<1>2. new[i] = ev[i] /\ new[j] = ev[j]
  BY <1>1, ExtendedRows
<1>3. ASSUME NEW k \in DOMAIN new, i < k, k < j
      PROVE  new[k].kind \notin TurnKind
  <2>1. k \in 1 .. Len(ev)
    BY <1>1, <1>3, ExtendedRows
  <2>2. QED
    BY <1>3, <2>1, ExtendedRows DEF Closes
<1>4. j \in DOMAIN new
  BY <1>1, ExtendedRows
<1>5. QED
  BY <1>2, <1>3, <1>4 DEF Closes

\* A draft the guard of append admits: a begin when no turn is open, an end of the open
\* turn, or a row that is no turn marker.
Admissible(ev, draft) ==
  /\ draft.kind = "turn_begin" => ActiveTurns(ev) = {} /\ draft.turn \in Turn
  /\ draft.kind \in ScopedKind \cup {"turn_end"} => draft.turn \in ActiveTurns(ev)

\* An admissible row that marks a turn names it.
LEMMA ExtendedTurnsAreNamed ==
  ASSUME NEW ev \in Seq(Event), NEW draft \in Drafts, TurnsAreNamed(ev), Admissible(ev, draft)
  PROVE  TurnsAreNamed(Extended(ev, draft))
<1> DEFINE new == Extended(ev, draft)
<1>1. DOMAIN ev = 1 .. Len(ev) /\ DOMAIN new = 1 .. Len(ev) + 1 /\ Len(ev) \in Nat
  BY ExtendedRows
<1>2. \A i \in 1 .. Len(ev) : new[i] = ev[i]
  BY ExtendedRows
<1>3. new[Len(ev) + 1].kind = draft.kind /\ new[Len(ev) + 1].turn = draft.turn
  BY ExtendedRows, NumberedFields
<1>4. QED
  BY <1>1, <1>2, <1>3 DEF TurnsAreNamed, Admissible

\* An admissible row never opens a turn inside another, and an end closes the open one.
LEMMA ExtendedOneTurn ==
  ASSUME NEW ev \in Seq(Event), NEW draft \in Drafts,
         TurnsAreNamed(ev), OneTurnAtATime(ev), Admissible(ev, draft)
  PROVE  OneTurnAtATime(Extended(ev, draft))
<1> DEFINE new == Extended(ev, draft)
           n == Len(ev) + 1
<1>1. DOMAIN ev = 1 .. Len(ev) /\ DOMAIN new = 1 .. n /\ n \in Nat /\ Len(ev) \in Nat
  BY ExtendedRows
<1>2. \A i \in 1 .. Len(ev) : new[i] = ev[i]
  BY ExtendedRows
<1>3. new[n].kind = draft.kind /\ new[n].turn = draft.turn
  BY ExtendedRows, NumberedFields
<1>4. SUFFICES ASSUME NEW i \in 1 .. n, new[i].kind = "turn_begin"
               PROVE  LastMarker(new, i) \/ \E j \in DOMAIN new : Closes(new, i, j)
  BY <1>1 DEF OneTurnAtATime
<1>5. CASE i = n
  BY <1>1, <1>4, <1>5 DEF LastMarker, TurnKind
<1>6. CASE i # n
  <2>1. i \in DOMAIN ev /\ ev[i].kind = "turn_begin"
    BY <1>1, <1>2, <1>4, <1>6
  <2>2. CASE \E j \in DOMAIN ev : Closes(ev, i, j)
    BY <1>1, <2>1, <2>2, ExtendedCloses DEF Closes
  <2>3. CASE LastMarker(ev, i)
    <3>1. ev[i].turn \in ActiveTurns(ev)
      BY <2>1, <2>3, LastBeginIsActive
    <3>2. CASE draft.kind = "turn_begin"
      BY <3>1, <3>2 DEF Admissible
    <3>3. CASE draft.kind = "turn_end"
      <4>1. draft.turn = ev[i].turn
        BY <3>1, <3>3, OneActiveTurn DEF Admissible
      <4>2. \A k \in DOMAIN new : i < k /\ k < n => new[k].kind \notin TurnKind
        BY <1>1, <1>2, <2>3 DEF LastMarker
      <4>3. Closes(new, i, n)
        BY <1>1, <1>2, <1>3, <2>1, <3>3, <4>1, <4>2 DEF Closes
      <4>4. QED
        BY <1>1, <4>3
    <3>4. CASE draft.kind \notin TurnKind
      BY <1>1, <1>2, <1>3, <1>4, <2>3, <3>4 DEF LastMarker, TurnKind
    <3>5. QED
      BY <3>2, <3>3, <3>4 DEF TurnKind
  <2>4. QED
    BY <2>1, <2>2, <2>3 DEF OneTurnAtATime
<1>7. QED
  BY <1>5, <1>6

\* A row written for the open turn lies inside it, and stays there.
LEMMA ExtendedInsideItsTurn ==
  ASSUME NEW ev \in Seq(Event), NEW draft \in Drafts, InsideItsTurn(ev), Admissible(ev, draft)
  PROVE  InsideItsTurn(Extended(ev, draft))
<1> DEFINE new == Extended(ev, draft)
           n == Len(ev) + 1
<1>1. DOMAIN ev = 1 .. Len(ev) /\ DOMAIN new = 1 .. n /\ n \in Nat /\ Len(ev) \in Nat
  BY ExtendedRows
<1>2. \A i \in 1 .. Len(ev) : new[i] = ev[i]
  BY ExtendedRows
<1>3. new[n].kind = draft.kind /\ new[n].turn = draft.turn
  BY ExtendedRows, NumberedFields
<1>4. SUFFICES ASSUME NEW j \in 1 .. n, new[j].kind \in ScopedKind \cup {"turn_end"}
               PROVE  \E i \in DOMAIN new : Encloses(new, i, j)
  BY <1>1 DEF InsideItsTurn
<1>5. CASE j = n
  <2>1. draft.turn \in ActiveTurns(ev)
    BY <1>3, <1>4, <1>5 DEF Admissible
  <2>2. PICK i \in DOMAIN ev :
          LastMarker(ev, i) /\ ev[i].kind = "turn_begin" /\ ev[i].turn = draft.turn
    BY <2>1 DEF ActiveTurns
  <2>3. \A k \in DOMAIN new : i < k /\ k < n => new[k].kind \notin TurnKind
    BY <1>1, <1>2, <2>2 DEF LastMarker
  <2>4. Encloses(new, i, n)
    BY <1>1, <1>2, <1>3, <2>2, <2>3 DEF Encloses
  <2>5. QED
    BY <1>1, <1>5, <2>2, <2>4
<1>6. CASE j # n
  <2>1. j \in DOMAIN ev /\ new[j] = ev[j]
    BY <1>1, <1>2, <1>6
  <2>2. PICK i \in DOMAIN ev : Encloses(ev, i, j)
    BY <1>4, <2>1 DEF InsideItsTurn
  <2>3. \A k \in DOMAIN new : i < k /\ k < j => new[k].kind \notin TurnKind
    BY <1>1, <1>2, <2>1, <2>2 DEF Encloses
  <2>4. QED
    BY <1>1, <1>2, <2>1, <2>2, <2>3 DEF Encloses
<1>7. QED
  BY <1>5, <1>6

----------------------------------------------------------------------------
(* Whole journals.                                                         *)

TombstoneRows == <<Numbered(Tombstone, 1)>>

\* What every file is: numbered rows with distinct ids, and turns that keep apart unless the
\* rows came with an import.
WellFormed(ev) ==
  /\ Contiguous(ev) /\ UniqueIds(ev)
  /\ Imported(ev) \/ (TurnsAreNamed(ev) /\ OneTurnAtATime(ev) /\ InsideItsTurn(ev))

\* The absent journal is well-formed and holds no id.
LEMMA EmptyWellFormed == WellFormed(<<>>) /\ ~Deleted(<<>>) /\ \A id : ~HasId(<<>>, id)
BY DEF WellFormed, Contiguous, UniqueIds, TurnsAreNamed, OneTurnAtATime, InsideItsTurn,
       Deleted, HasKind, HasId

\* A file that holds the tombstone alone is well-formed.
LEMMA TombstoneWellFormed ==
  /\ TombstoneRows \in Seq(Event) /\ WellFormed(TombstoneRows) /\ Deleted(TombstoneRows)
  /\ TombstoneRows # <<>>
<1> DEFINE ev == TombstoneRows
<1>1. /\ Tombstone \in Drafts /\ Numbered(Tombstone, 1) \in Event
      /\ Numbered(Tombstone, 1).seq = 1 /\ Numbered(Tombstone, 1).kind = "deleted"
  BY BuiltDrafts, DraftKinds, NumberedFields
<1>2. /\ ev \in Seq(Event) /\ DOMAIN ev = 1 .. 1 /\ Len(ev) = 1 /\ ev # <<>>
      /\ ev[1] = Numbered(Tombstone, 1)
  BY <1>1 DEF TombstoneRows
<1>3. Contiguous(ev) /\ UniqueIds(ev)
  BY <1>1, <1>2 DEF Contiguous, UniqueIds
<1>4. TurnsAreNamed(ev) /\ OneTurnAtATime(ev) /\ InsideItsTurn(ev)
  BY <1>1, <1>2 DEF TurnsAreNamed, OneTurnAtATime, InsideItsTurn, ScopedKind
<1>5. Deleted(ev)
  BY <1>1, <1>2 DEF Deleted, HasKind
<1>6. QED
  BY <1>2, <1>3, <1>4, <1>5 DEF WellFormed

\* The first row stays the first.
LEMMA ExtendedFirst ==
  ASSUME NEW ev \in Seq(Event), NEW draft \in Drafts
  PROVE  /\ Extended(ev, draft) # <<>>
         /\ Imported(ev) => Imported(Extended(ev, draft))
         /\ Deleted(ev) => Deleted(Extended(ev, draft))
<1> DEFINE new == Extended(ev, draft)
<1>1. new \in Seq(Event) /\ Len(ev) \in Nat /\ Len(new) = Len(ev) + 1
  BY ExtendedRows
<1>2. new # <<>>
  BY <1>1
<1>3. DOMAIN ev = 1 .. Len(ev) /\ DOMAIN new = 1 .. Len(ev) + 1
      /\ \A i \in 1 .. Len(ev) : new[i] = ev[i]
  BY ExtendedRows
<1>4. ASSUME Imported(ev) PROVE new[1] = ev[1]
  <2>1. Len(ev) >= 1
    BY <1>1, <1>4 DEF Imported
  <2>2. QED
    BY <1>1, <1>3, <2>1
<1>5. Deleted(ev) => Deleted(new)
  BY <1>1, <1>3 DEF Deleted, HasKind
<1>6. QED
  BY <1>2, <1>4, <1>5 DEF Imported

\* A fresh, admissible row keeps a journal well-formed.
LEMMA ExtendedWellFormed ==
  ASSUME NEW ev \in Seq(Event), NEW draft \in Drafts, WellFormed(ev),
         ~HasId(ev, draft.id), Imported(ev) \/ Admissible(ev, draft)
  PROVE  WellFormed(Extended(ev, draft))
<1>1. Contiguous(Extended(ev, draft)) /\ UniqueIds(Extended(ev, draft))
  BY ExtendedContiguous, ExtendedUniqueIds DEF WellFormed
<1>2. CASE Imported(ev)
  BY <1>1, <1>2, ExtendedFirst DEF WellFormed
<1>3. CASE ~Imported(ev)
  <2>1. TurnsAreNamed(ev) /\ OneTurnAtATime(ev) /\ InsideItsTurn(ev) /\ Admissible(ev, draft)
    BY <1>3 DEF WellFormed
  <2>2. /\ TurnsAreNamed(Extended(ev, draft)) /\ OneTurnAtATime(Extended(ev, draft))
        /\ InsideItsTurn(Extended(ev, draft))
    BY <2>1, ExtendedTurnsAreNamed, ExtendedOneTurn, ExtendedInsideItsTurn
  <2>3. QED
    BY <1>1, <2>2 DEF WellFormed
<1>4. QED
  BY <1>2, <1>3

----------------------------------------------------------------------------
(* What an appended row changes in the answers the handlers ask for.       *)

\* The turn that is open after a row.
ActiveAfter(ev, row) ==
  IF row.kind = "turn_begin" THEN {t \in Turn : t = row.turn}
  ELSE IF row.kind = "turn_end" THEN {} ELSE ActiveTurns(ev)

\* A begin opens its turn, an end closes the open one, and no other row does either.  The
\* rows may be events of a journal or drafts of a document.
LEMMA ActiveAppend ==
  ASSUME NEW S, NEW ev \in Seq(S), NEW row \in S
  PROVE  ActiveTurns(Append(ev, row)) = ActiveAfter(ev, row)
<1> DEFINE new == Append(ev, row)
           n == Len(ev) + 1
<1>1. DOMAIN ev = 1 .. Len(ev) /\ DOMAIN new = 1 .. n /\ n \in Nat /\ Len(ev) \in Nat
  OBVIOUS
<1>2. (\A i \in 1 .. Len(ev) : new[i] = ev[i]) /\ new[n] = row
  OBVIOUS
<1> HIDE DEF new
<1>3. CASE row.kind \in TurnKind
  <2>1. ASSUME NEW i \in DOMAIN new PROVE LastMarker(new, i) <=> i = n
    BY <1>1, <1>2, <1>3, <2>1 DEF LastMarker
  <2>2. ActiveTurns(new) = {t \in Turn : row.kind = "turn_begin" /\ row.turn = t}
    BY <1>1, <1>2, <2>1 DEF ActiveTurns
  <2>3. QED
    BY <1>3, <2>2 DEF ActiveAfter, TurnKind, new
<1>4. CASE row.kind \notin TurnKind
  <2>1. ASSUME NEW i PROVE LastMarker(new, i) <=> LastMarker(ev, i)
    BY <1>1, <1>2, <1>4 DEF LastMarker
  <2>2. \A i : LastMarker(new, i) => i \in DOMAIN ev /\ new[i] = ev[i] /\ i \in DOMAIN new
    BY <1>1, <1>2, <2>1 DEF LastMarker
  <2>3. ActiveTurns(new) = ActiveTurns(ev)
    BY <2>1, <2>2 DEF ActiveTurns, LastMarker
  <2>4. QED
    BY <1>4, <2>3 DEF ActiveAfter, TurnKind, new
<1>5. QED
  BY <1>3, <1>4

\* The empty journal has no open turn.
LEMMA EmptyHasNoTurn == ActiveTurns(<<>>) = {}
BY DEF ActiveTurns

\* The ids of a journal with one row more.
LEMMA ExtendedIds ==
  ASSUME NEW ev \in Seq(Event), NEW draft \in Drafts, NEW id
  PROVE  HasId(Extended(ev, draft), id) <=> (HasId(ev, id) \/ id = draft.id)
<1> DEFINE new == Extended(ev, draft)
<1>1. DOMAIN ev = 1 .. Len(ev) /\ DOMAIN new = 1 .. Len(ev) + 1 /\ Len(ev) \in Nat
  BY ExtendedRows
<1>2. (\A i \in 1 .. Len(ev) : new[i] = ev[i]) /\ new[Len(ev) + 1].id = draft.id
  BY ExtendedRows, NumberedFields
<1>3. QED
  BY <1>1, <1>2 DEF HasId

\* The kinds of a journal with one row more.
LEMMA ExtendedKinds ==
  ASSUME NEW ev \in Seq(Event), NEW draft \in Drafts, NEW kind
  PROVE  HasKind(Extended(ev, draft), kind) <=> (HasKind(ev, kind) \/ kind = draft.kind)
<1> DEFINE new == Extended(ev, draft)
<1>1. DOMAIN ev = 1 .. Len(ev) /\ DOMAIN new = 1 .. Len(ev) + 1 /\ Len(ev) \in Nat
  BY ExtendedRows
<1>2. (\A i \in 1 .. Len(ev) : new[i] = ev[i]) /\ new[Len(ev) + 1].kind = draft.kind
  BY ExtendedRows, NumberedFields
<1>3. QED
  BY <1>1, <1>2 DEF HasKind

\* Only the first row says that a journal is an import.
LEMMA ExtendedImported ==
  ASSUME NEW ev \in Seq(Event), NEW draft \in Drafts
  PROVE  /\ ev # <<>> => (Imported(Extended(ev, draft)) <=> Imported(ev))
         /\ ev = <<>> => (Imported(Extended(ev, draft)) <=> draft.data[1] = "importing")
<1> DEFINE new == Extended(ev, draft)
<1>1. new # <<>> /\ Len(ev) \in Nat /\ (\A i \in 1 .. Len(ev) : new[i] = ev[i])
      /\ new[Len(ev) + 1].data = draft.data
  BY ExtendedRows, ExtendedFirst, NumberedFields
<1>2. CASE ev # <<>>
  <2>1. 1 \in 1 .. Len(ev)
    BY <1>1, <1>2
  <2>2. QED
    BY <1>1, <1>2, <2>1 DEF Imported
<1>3. CASE ev = <<>>
  <2>1. Len(ev) = 0
    BY <1>3
  <2>2. QED
    BY <1>1, <1>3, <2>1 DEF Imported
<1>4. QED
  BY <1>2, <1>3

----------------------------------------------------------------------------
(* The id of a row says what the row is.                                   *)

\* The prefixes of the ids that turns and what happens inside them have.
TurnPrefix == {"begin", "end", "view", "input"}

\* A begin and an end are named after their turn, and nothing else has such a name.
IdFits(row) ==
  /\ row.kind \in TurnKind \cup ScopedKind => row.id[1] \in TurnPrefix
  /\ row.kind = "turn_begin" <=> row.id[1] = "begin"
  /\ row.kind = "turn_begin" => row.id = <<"begin", row.turn>>
  /\ row.kind = "turn_end" <=> row.id[1] = "end"
  /\ row.kind = "turn_end" => row.id = <<"end", row.turn>> /\ row.data[1] \in Outcome

\* Every row the handlers write is named so.
LEMMA BuiltIdsFit ==
  /\ \A how : IdFits(CreatedDraft(how)) /\ CreatedDraft(how).id[1] \notin TurnPrefix
  /\ \A t, role, to : IdFits(BeginDraft(t, role, to))
  /\ \A t : \A status \in Outcome : IdFits(EndDraft(t, status))
  /\ \A t, k, shown : IdFits(ViewDraft(t, k, shown))
  /\ \A t, r : IdFits(InputDraft(t, r))
  /\ \A t, r : IdFits(ResultDraft(t, r)) /\ ResultDraft(t, r).id[1] \notin TurnPrefix
  /\ \A i, n : IdFits(LegacyDraft(i, n)) /\ LegacyDraft(i, n).id[1] \notin TurnPrefix
  /\ \A k : IdFits(RenameDraft(k)) /\ RenameDraft(k).id[1] \notin TurnPrefix
  /\ IdFits(CommitDraft) /\ CommitDraft.id[1] \notin TurnPrefix
  /\ IdFits(Tombstone)
BY DEF IdFits, TurnPrefix, TurnKind, ScopedKind, CreatedDraft, BeginDraft, EndDraft, ViewDraft,
       InputDraft, ResultDraft, LegacyDraft, RenameDraft, CommitDraft, Tombstone, Draft, NoData

\* A numbered draft has the id of the draft.
LEMMA NumberedFits ==
  ASSUME NEW draft \in Drafts, NEW n \in Nat, IdFits(draft)
  PROVE  IdFits(Numbered(draft, n))
BY NumberedFields DEF IdFits
============================================================================
