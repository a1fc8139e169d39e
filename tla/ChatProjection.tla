--------------------------- MODULE ChatProjection ---------------------------
(***************************************************************************)
(* What the chat shows of a conversation: projectSession folds the native  *)
(* journal into messages (src/chat/sessionProjection.ts), reduceActivity   *)
(* the model's activity into the card of a turn (activityReducer.ts), and  *)
(* activityRows the card into rows (activityRows.ts).                      *)
(*                                                                         *)
(* The journal grows by one event a step; it is one the native side        *)
(* writes: one turn at a time, its events between begin and end.           *)
(* A text is a sequence of pieces, each named by a number of its own.      *)
(***************************************************************************)
EXTENDS Naturals, SequencesExt

CONSTANTS
  Sources,      \* ids of streams of thoughts, as the numbers of their parts: <<1>> for "a", <<1, 2>> for "a:2"
  Tools,        \* ids of tool calls
  MaxJournal    \* bound: events of the journal

ASSUME SourcesAssumption == Sources \subseteq Seq(Nat)
ASSUME JournalAssumption == MaxJournal \in Nat

VARIABLES
  chat,     \* the messages, and what projectSession keeps of the open turn
  heard,    \* history: the thoughts the journal brought, turn by turn, and the results
  length    \* the events so far

chatVars == <<chat, heard, length>>

Card    == [status |-> "working", texts |-> <<>>, tools |-> <<>>, timeline |-> <<>>]
NoTurn  == [turn |-> 0, role |-> "none", card |-> 0, answer |-> 0, streamed |-> <<>>]
Message(kind, turn) == [kind |-> kind, turn |-> turn, text |-> <<>>, card |-> Card, state |-> "none"]

ChatInit ==
  /\ chat = [messages |-> <<>>, open |-> NoTurn, turns |-> 0]
  /\ heard = [thoughts |-> <<>>, results |-> <<>>]
  /\ length = 0

-----------------------------------------------------------------------------
(* reduceActivity.                                                         *)

\* Mutant: a stream that goes on is numbered 2, whatever is taken.
SegmentIdTaken(texts, kind, source) == IF <<kind, source>> \notin DOMAIN texts THEN source ELSE Append(source, 2)

\* nextTextSegmentId
SegmentId(texts, kind, source) ==
  IF <<kind, source>> \notin DOMAIN texts THEN source
  ELSE Append(source, CHOOSE i \in 2..MaxJournal + 2 :
         /\ <<kind, Append(source, i)>> \notin DOMAIN texts
         /\ \A j \in 2..i - 1 : <<kind, Append(source, j)>> \in DOMAIN texts)

\* appendTextDelta: the last segment goes on, or another one begins.
WithText(card, kind, source, piece) ==
  LET last == IF card.timeline = <<>> THEN [kind |-> "none", id |-> <<>>, source |-> <<>>] ELSE Last(card.timeline)
      goesOn == last.kind = kind /\ last.source = source
      id   == IF goesOn THEN last.id ELSE SegmentId(card.texts, kind, source)
      old  == IF <<kind, id>> \in DOMAIN card.texts THEN card.texts[<<kind, id>>] ELSE <<>>
  IN [card EXCEPT !.texts = [key \in DOMAIN @ \cup {<<kind, id>>} |->
                               IF key = <<kind, id>> THEN Append(old, piece) ELSE @[key]],
                  !.timeline = IF goesOn THEN @ ELSE Append(@, [kind |-> kind, id |-> id, source |-> source])]

WithTool(card, tool, status) ==
  IF \E i \in DOMAIN card.tools : card.tools[i].id = tool
    THEN [card EXCEPT !.tools = [i \in DOMAIN @ |-> IF @[i].id = tool THEN [@[i] EXCEPT !.status = status] ELSE @[i]]]
    ELSE [card EXCEPT !.tools = Append(@, [id |-> tool, status |-> status]),
                      !.timeline = Append(@, [kind |-> "tool", id |-> tool, source |-> tool])]

Stopped(card, status, left) ==
  [card EXCEPT !.status = status,
     !.tools = [i \in DOMAIN @ |-> IF @[i].status = "running" THEN [@[i] EXCEPT !.status = left] ELSE @[i]]]

\* Mutant: the tools of an interrupted turn go on.
WithStatusOnly(card, status) ==
  IF status \in {"completed", "failed"} THEN Stopped(card, status, status) ELSE [card EXCEPT !.status = status]

\* The status event, and the end of a turn that was interrupted.
WithStatus(card, status) ==
  CASE status \in {"completed", "failed"} -> Stopped(card, status, status)
    [] status = "interrupted"             -> Stopped(card, status, "declined")
    [] OTHER                              -> [card EXCEPT !.status = status]

\* activityRows: the texts in their order, neighbouring tools in one row.
WithRow(rows, entry, texts) ==
  IF entry.kind # "tool" THEN Append(rows, [kind |-> entry.kind, holds |-> texts[<<entry.kind, entry.id>>]])
  ELSE IF rows # <<>> /\ Last(rows).kind = "tools"
    THEN [rows EXCEPT ![Len(rows)].holds = Append(@, entry.id)]
    ELSE Append(rows, [kind |-> "tools", holds |-> <<entry.id>>])
Rows(card) ==
  LET rows[n \in 0..Len(card.timeline)] ==
        IF n = 0 THEN <<>> ELSE WithRow(rows[n - 1], card.timeline[n], card.texts)
  IN rows[Len(card.timeline)]

-----------------------------------------------------------------------------
(* projectSession: what each event does to the messages.                   *)

Push(c, message) == [c EXCEPT !.messages = Append(@, message)]
OnCard(c, Change(_)) == [c EXCEPT !.messages[c.open.card].card = Change(@)]

\* A text goes to the assistant's message of the turn; a question begins another.
Shown(c, pieces) ==
  IF pieces = <<>> THEN c
  ELSE IF c.open.answer # 0 THEN [c EXCEPT !.messages[c.open.answer].text = @ \o pieces]
  ELSE [Push(c, [Message("assistant", c.open.turn) EXCEPT !.text = pieces])
          EXCEPT !.open.answer = Len(c.messages) + 1]

Begun(c, role) ==
  [Push(Push(c, Message("user", c.turns + 1)), Message("card", c.turns + 1))
     EXCEPT !.turns = @ + 1,
            !.open = [NoTurn EXCEPT !.turn = c.turns + 1, !.role = role, !.card = Len(c.messages) + 2]]
\* The new turn answers an earlier question of the canvas.
Replied(c, m) == [c EXCEPT !.messages[m].state = "answered"]
Streamed(c, piece) == [Shown(c, <<piece>>) EXCEPT !.open.streamed = Append(@, piece)]
\* state: "asked" waits for an answer in its turn, "offered" for a reply by another turn.
Asked(c, state) == [Push(c, [Message("question", c.open.turn) EXCEPT !.state = state]) EXCEPT !.open.answer = 0]

\* A completed result of the project role: what was not streamed of it is added.
Resulted(c, text) ==
  IF IsSuffix(text, c.open.streamed) THEN c
  ELSE Shown(c, IF IsPrefix(c.open.streamed, text) THEN SubSeq(text, Len(c.open.streamed) + 1, Len(text)) ELSE text)

\* The end of the turn: the card rests and unanswered questions expire.
Ended(c, status) ==
  LET rests == OnCard(c, LAMBDA card : WithStatus(card, status))
      done  == [rests EXCEPT !.open = NoTurn,
                  !.messages = [m \in DOMAIN @ |-> IF @[m].state = "asked" THEN [@[m] EXCEPT !.state = "expired"] ELSE @[m]]]
  IN IF status = "failed" THEN Push(done, Message("error", c.open.turn)) ELSE done

-----------------------------------------------------------------------------
(* The journal.                                                            *)

Grows(c) == length < MaxJournal /\ length' = length + 1 /\ chat' = c
InOpenTurn == chat.open # NoTurn
\* The project role has one model request a turn, and its result is the last of it.
ModelAtWork == InOpenTurn /\ \A i \in DOMAIN heard.results : heard.results[i].turn # chat.open.turn

TurnBegins ==
  /\ ~InOpenTurn
  /\ \E role \in {"canvas", "project"} :
       \/ Grows(Begun(chat, role))
       \/ \E m \in DOMAIN chat.messages : chat.messages[m].state = "offered" /\ Grows(Replied(Begun(chat, role), m))
  /\ heard' = [heard EXCEPT !.thoughts = Append(@, <<>>)]
Thinks ==
  /\ ModelAtWork
  /\ \E kind \in {"thinking", "commentary"}, source \in Sources :
       /\ Grows(OnCard(chat, LAMBDA card : WithText(card, kind, source, length)))
       /\ heard' = [heard EXCEPT !.thoughts[chat.open.turn] = Append(@, length)]
UsesTool ==
  /\ ModelAtWork
  /\ \E tool \in Tools, status \in {"running", "completed"} :
       Grows(OnCard(chat, LAMBDA card : WithTool(card, tool, status)))
  /\ UNCHANGED heard
Speaks == ModelAtWork /\ Grows(Streamed(chat, length)) /\ UNCHANGED heard
AsksUser == ModelAtWork /\ Grows(Asked(chat, IF chat.open.role = "project" THEN "asked" ELSE "offered")) /\ UNCHANGED heard
UserAnswers ==
  /\ InOpenTurn
  /\ \E m \in DOMAIN chat.messages : chat.messages[m].state = "asked" /\ Grows(Replied(chat, m))
  /\ UNCHANGED heard
\* The last message of the model: streamed whole, in part, or after other text.
ResultArrives ==
  /\ ModelAtWork /\ chat.open.role = "project"
  /\ \E from \in 1..Len(chat.open.streamed) + 1, rest \in {<<>>, <<length>>} :
     \E text \in {SubSeq(chat.open.streamed, from, Len(chat.open.streamed)) \o rest} \ {<<>>} :
       /\ Grows(Resulted(chat, text))
       /\ heard' = [heard EXCEPT !.results = Append(@, [turn |-> chat.open.turn, text |-> text, streamed |-> chat.open.streamed])]
TurnFinishes ==
  /\ InOpenTurn
  /\ \E status \in {"completed", "failed", "interrupted"} : Grows(Ended(chat, status))
  /\ UNCHANGED heard

ChatNext == TurnBegins \/ Thinks \/ UsesTool \/ Speaks \/ AsksUser \/ UserAnswers \/ ResultArrives \/ TurnFinishes
ChatSpec == ChatInit /\ [][ChatNext]_chatVars

-----------------------------------------------------------------------------
(* Properties.                                                             *)

TextOf(rows) == FlattenSeq([i \in DOMAIN rows |-> IF rows[i].kind = "tools" THEN <<>> ELSE rows[i].holds])
AnswerOf(turn) ==
  FlattenSeq([m \in DOMAIN chat.messages |->
    IF chat.messages[m].kind = "assistant" /\ chat.messages[m].turn = turn THEN chat.messages[m].text ELSE <<>>])

\* The model's last message begins amid what was streamed, and goes on after it.
BeginsMidway(result) ==
  /\ ~IsPrefix(result.streamed, result.text)
  /\ \E n \in 1..Len(result.text) - 1 : IsSuffix(SubSeq(result.text, 1, n), result.streamed)

\* The rows of a card hold every piece of its thoughts once, in the order they came, also
\* when a stream goes on after others or has the id of another's segment.  An answer begins
\* with what was streamed, ends with the model's last message and holds nothing else; and it
\* holds nothing twice, unless the message begins midway in what was streamed: the code
\* compares the two as wholes, and then shows the part they share again.
TextIsShownOnce ==
  /\ \A m \in DOMAIN chat.messages : chat.messages[m].kind = "card" =>
       TextOf(Rows(chat.messages[m].card)) = heard.thoughts[chat.messages[m].turn]
  /\ \A i \in DOMAIN heard.results :
       LET result == heard.results[i]
           answer == AnswerOf(result.turn)
       IN /\ IsPrefix(result.streamed, answer) /\ IsSuffix(result.text, answer)
          /\ ToSet(answer) = ToSet(result.streamed) \cup ToSet(result.text)
          /\ IsInjective(answer) \/ BeginsMidway(result)

\* A turn that ended shows nothing at work: no card is working, no tool running, and no
\* question waits for an answer nobody can give any more.
EndedTurnsRest ==
  \A m \in DOMAIN chat.messages : chat.messages[m].turn # chat.open.turn =>
    /\ chat.messages[m].kind = "card" =>
         /\ chat.messages[m].card.status # "working"
         /\ \A i \in DOMAIN chat.messages[m].card.tools : chat.messages[m].card.tools[i].status # "running"
    /\ chat.messages[m].state # "asked"
=============================================================================
