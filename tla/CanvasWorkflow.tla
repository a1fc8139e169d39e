-------------------------- MODULE CanvasWorkflow --------------------------
(***************************************************************************)
(* One canvas request from Conversation.send to its end:                   *)
(* src/llm/conversation.ts over CanvasTurnProjection (llm/canvasRuntime),  *)
(* HarnessTurn (harness/turn) and the saving port of CanvasEngine.         *)
(*                                                                         *)
(* The program runs on one thread; what lies between two awaits is one     *)
(* step.  `pc` names the await the request is parked at:                   *)
(*   context     exportImage of the canvas the user sees                   *)
(*   inspecting  the text-only turn before the first build turn            *)
(*   asking      a model turn                                              *)
(*   early, late port.apply of one of the two stages of a batch            *)
(*   earlySave, lateSave  saving the scene and recording its context       *)
(*   rendering   exportImage of the review                                 *)
(* Meanwhile the user may cancel and may edit the canvas.                  *)
(*                                                                         *)
(* \E x \in {e} : A binds x to the value of e, as a local variable of the  *)
(* code does.                                                              *)
(***************************************************************************)
EXTENDS CanvasScene

CONSTANTS
  UserScene,     \* the scene before the first request
  Clipboard,     \* elements the user may bring (back) into the scene
  BuildTurns,    \* what the model may answer while building
  ReviewTurns,   \* what it may answer to the review
  MAX_ITERATIONS,
  MaxSends,      \* bound: requests
  MaxUserEdits,  \* bound: edits of the user during requests
  Edited         \* bound: the elements the user edits

ASSUME IterationsArePositive == MAX_ITERATIONS \in Nat \ {0}
ASSUME SendsAreCounted == MaxSends \in Nat
ASSUME IdsAreFinite == IsFiniteSet(Ids) /\ DOMAIN UserScene \cup DOMAIN Clipboard \subseteq Ids

\* What a tool call may carry; a plan is its refs, and no refs are a plan that fails to parse.
CanvasCalls ==
  CanvasOps \cup [op : {"malformed"}]
    \cup [op : {"declare_diagram"}, plan : SUBSET Refs]
    \cup [op : {"declare_structure"}, relations : SUBSET StructureRelations]

ASSUME AnswersAreTyped ==
  \A m \in BuildTurns \cup ReviewTurns :
    m.calls \in Seq(CanvasCalls) /\ m.text \in BOOLEAN /\ m.question \in BOOLEAN

VARIABLES
  pc, turn,   \* where the request is parked; the number of the user turn
  conv,       \* the fields of Conversation
  work,       \* the locals of send: phase, iteration, changed ids, text, editable ids
  batch,      \* the stage of a batch being applied
  harness,    \* the fields of HarnessTurn
  scene, saved, minted, clipboard, edits,
  delivered,  \* history: positions of the messages handed to the model, in order
  outcome, emitted

canvas == <<scene, saved, minted, clipboard, edits>>
vars   == <<pc, turn, conv, work, batch, harness, canvas, delivered, outcome, emitted>>

Parked  == {"context", "inspecting", "asking", "early", "earlySave", "late", "lateSave", "rendering"}
Applies == {"early", "earlySave", "late", "lateSave"}
Phase   == {"build", "review", "finalize"}

Message(role)           == [role |-> role, calls |-> {}, call |-> <<>>, ok |-> TRUE, ids |-> {}]
AssistantMessage(calls) == [Message("assistant") EXCEPT !.calls = calls]
ToolMessage(id, ok, ids) == [Message("tool") EXCEPT !.call = id, !.ok = ok, !.ids = ids]
Push(c, message)        == [c EXCEPT !.history = Append(@, message)]
Hears(c, messages)      == [c EXCEPT !.history = @ \o messages]

NoPlan  == {}
NoBatch == [calls |-> <<>>, base |-> NoScene, scope |-> NoScope, results |-> <<>>,
            declares |-> <<>>, deferred |-> <<>>, edited |-> {}, laidOut |-> {}, leftover |-> {},
            didApply |-> FALSE]

\* Fields reset by send.
FreshConversation == [history |-> <<>>, cancelled |-> FALSE, turnScope |-> NoScope,
                      refMap |-> NoRefs, diagramPlan |-> NoPlan, pendingRelations |-> {}]
FreshWork    == [phase |-> "build", iter |-> 0, changed |-> {}, text |-> FALSE, editable |-> {}]
FreshHarness == [cursorTurn |-> 0, sent |-> 0, cancelled |-> FALSE, inspected |-> FALSE]

Init ==
  /\ pc = "idle" /\ turn = 0
  /\ conv = FreshConversation /\ work = FreshWork /\ batch = NoBatch /\ harness = FreshHarness
  /\ scene = UserScene /\ saved = UserScene /\ minted = DOMAIN UserScene \cup DOMAIN Clipboard
  /\ clipboard = Clipboard /\ edits = 0
  /\ delivered = <<>> /\ outcome = "none" /\ emitted = 0

-----------------------------------------------------------------------------
(* The model's answer.                                                     *)

REVIEW_TOOL_NAMES      == {"move_shape", "place_region", "declare_structure"}
REVIEWABLE_OPS         == {"create_geo", "create_text", "connect_shapes", "move_shape", "place_region"}
DEFERRED_REFERENCE_OPS == {"move_shape", "place_region", "update_text", "delete_shape"}

CreatingOps            == {"create_geo", "create_text", "connect_shapes"}

\* A call that fails parseOp, or is not allowed in the phase, keeps its place with an error.
Refused(call, review) ==
  call.op = "malformed" \/ (review /\ call.op \notin REVIEW_TOOL_NAMES)

\* The calls of one kind of an answer, in order, each with its id.
Numbered(calls, at) == [i \in DOMAIN calls |-> [id |-> <<at, i>>, op |-> calls[i]]]
Declares(calls, op) == Among(calls, {i \in DOMAIN calls : calls[i].op.op = op})
OpCalls(calls)      ==
  Among(calls, {i \in DOMAIN calls : calls[i].op.op \notin {"declare_diagram", "declare_structure"}})

\* Answers that pass parseCanvasResult and the emptiness test of CanvasTurnProjection.
Acceptable(m, phase, sawTool) ==
  /\ m.question => m.calls = <<>>
  /\ phase = "finalize" => m.calls = <<>>
  /\ m.calls = <<>> /\ ~m.text /\ ~m.question =>
       phase = "review" \/ (phase = "build" /\ sawTool)

Answers(phase) ==
  CASE phase = "build"    -> BuildTurns
    [] phase = "review"   -> ReviewTurns
    [] phase = "finalize" -> [calls: {<<>>}, text: BOOLEAN, question: BOOLEAN]

\* Did the messages of the turn in flight include a tool result?
SawTool == \E i \in DOMAIN conv.history :
             /\ i > harness.sent
             /\ conv.history[i].role = "tool"

-----------------------------------------------------------------------------
(* The root plan.                                                          *)

\* The declarations in order: a refused or malformed one is an error, and so is one after
\* the plan was declared, in this answer or an earlier one.
compileDiagramPlan(c, calls, review) ==
  LET sound == {i \in DOMAIN calls : ~Refused(calls[i].op, review) /\ calls[i].op.plan # NoPlan}
      taken == {i \in sound : c.diagramPlan = NoPlan /\ \A j \in sound : i <= j}
  IN  [conv   |-> [Hears(c, [i \in DOMAIN calls |-> ToolMessage(calls[i].id, i \in taken, {})])
                     EXCEPT !.diagramPlan = @ \cup UNION {calls[i].op.plan : i \in taken}],
       failed |-> taken # DOMAIN calls]

\* Does a create batch break the plan, or declare structure without one?
BreaksPlan(plan, calls, review, structureDeclared) ==
  LET creates == {i \in DOMAIN calls : calls[i].op.op = "create_geo" /\ ~Refused(calls[i].op, review)}
  IN  /\ creates # {}
      /\ \/ plan = NoPlan /\ structureDeclared
         \/ /\ plan # NoPlan
            /\ \/ \E i \in creates : calls[i].op.ref \notin plan
               \/ \E i, j \in creates : i # j /\ calls[i].op.ref = calls[j].op.ref

\* Mutant of missingDiagramRefs: one planned shape is enough.
MissingUnlessAny(c) == IF \E r \in c.diagramPlan : r \in DOMAIN c.refMap THEN {} ELSE c.diagramPlan

missingDiagramRefs(c) == {r \in c.diagramPlan : r \notin DOMAIN c.refMap \cup DOMAIN scene}

-----------------------------------------------------------------------------
(* Asking the model, and the ends of a request.                            *)

\* HarnessTurn once the turn in flight has settled: its input is acknowledged.
Settled == IF pc = "asking" THEN [harness EXCEPT !.sent = Len(conv.history)] ELSE harness

\* An exception out of send: CanvasEngine reports failed.
Fail(c) == /\ pc' = "idle" /\ outcome' = "failed" /\ batch' = NoBatch
           /\ conv' = c
           /\ UNCHANGED <<delivered, emitted>>

Submit(c, h) ==
  /\ pc' = "asking"
  /\ delivered' = delivered \o [i \in 1 .. Len(c.history) - h.sent |-> h.sent + i]
  /\ harness' = h

\* Mutant of RunTurn: the delivery cursor of the last user turn is kept.
RunTurnWithOldCursor(c) ==
  IF c.cancelled \/ Settled.cancelled THEN Fail(c) /\ harness' = Settled
  ELSE /\ conv' = c /\ batch' = NoBatch /\ UNCHANGED <<outcome, emitted>>
       /\ IF work'.phase = "build" /\ ~Settled.inspected
          THEN pc' = "inspecting" /\ harness' = Settled /\ UNCHANGED delivered
          ELSE Submit(c, Settled)

\* Conversation.runTurn and HarnessTurn.run up to the model's side: the cursor restarts
\* with a new user turn, and the first build turn is preceded by an inspection.
RunTurn(c) ==
  LET h == IF harness.cursorTurn = turn THEN Settled ELSE [FreshHarness EXCEPT !.cursorTurn = turn]
  IN  IF c.cancelled THEN Fail(c) /\ harness' = Settled
      ELSE IF h.cancelled THEN Fail(c) /\ harness' = h
      ELSE /\ conv' = c /\ batch' = NoBatch /\ UNCHANGED <<outcome, emitted>>
           /\ IF work'.phase = "build" /\ ~h.inspected
              THEN pc' = "inspecting" /\ harness' = h /\ UNCHANGED delivered
              ELSE Submit(c, h)

Finish(c, status, text) ==
  /\ pc' = "idle" /\ conv' = c /\ batch' = NoBatch /\ outcome' = status
  /\ emitted' = emitted + (IF text THEN 1 ELSE 0)
  /\ harness' = Settled /\ UNCHANGED delivered

\* After the build: a review of what changed, or the text alone.
FinishBuild(c, w) ==
  IF w.changed = {} THEN Finish(c, "completed", w.text) /\ work' = w
  ELSE /\ pc' = "rendering" /\ conv' = c /\ batch' = NoBatch
       /\ work' = [w EXCEPT !.phase = "review", !.editable = w.changed]
       /\ harness' = Settled /\ UNCHANGED <<delivered, outcome, emitted>>

Finalize(c, w) ==
  work' = [w EXCEPT !.phase = "finalize"] /\ RunTurn(Push(c, Message("user")))

\* Mutant of NextIteration: one iteration too many.
NextIterationInclusive(c, w) ==
  IF w.iter < MAX_ITERATIONS
  THEN work' = [w EXCEPT !.iter = @ + 1] /\ RunTurn(c)
  ELSE FinishBuild(c, w)

NextIteration(c, w) ==
  IF w.iter + 1 < MAX_ITERATIONS
  THEN work' = [w EXCEPT !.iter = @ + 1] /\ RunTurn(c)
  ELSE FinishBuild(c, w)

AfterBatch(c, w) == IF w.phase = "build" THEN NextIteration(c, w) ELSE Finalize(c, w)

-----------------------------------------------------------------------------
(* A batch: creates and connects first, then declarations and the rest.    *)

OpCall(call, refused) == [id |-> call.id, op |-> call.op, error |-> refused]

\* A rejected plan answers every call of the batch with the error and applies nothing.
Rejected(c, calls) == Hears(c, [i \in DOMAIN calls |-> ToolMessage(calls[i].id, FALSE, {})])

processToolCalls(c, w, calls) ==
  \E review \in {w.phase = "review"}, declares \in {Declares(calls, "declare_structure")},
    ops \in {OpCalls(calls)}, plan \in {compileDiagramPlan(c, Declares(calls, "declare_diagram"), w.phase = "review")} :
    IF plan.failed \/ BreaksPlan(plan.conv.diagramPlan, ops, review, declares # <<>>)
    THEN \E rejected \in {Rejected(Rejected(plan.conv, ops), declares)} : AfterBatch(rejected, w)
    ELSE LET checked == [i \in DOMAIN ops |-> OpCall(ops[i], Refused(ops[i].op, review))]
             late == {i \in DOMAIN checked : ~checked[i].error /\ checked[i].op.op \in DEFERRED_REFERENCE_OPS}
         IN  /\ pc' = "early" /\ conv' = plan.conv /\ work' = w
             /\ batch' = [NoBatch EXCEPT !.calls = Among(checked, DOMAIN checked \ late),
                                         !.base = scene, !.declares = declares,
                                         !.deferred = Among(checked, late)]
             /\ harness' = Settled /\ UNCHANGED <<delivered, outcome, emitted>>

\* connect_shapes may name a ref of an earlier batch unless this batch creates it again.
resolveCrossBatchRefs(c, ops) ==
  LET created == {ops[i].ref : i \in {j \in DOMAIN ops : ops[j].op \in {"create_geo", "create_text"}}}
      look(k) == IF k \in DOMAIN c.refMap \ created THEN c.refMap[k] ELSE k
  IN  [i \in DOMAIN ops |->
         IF ops[i].op # "connect_shapes" THEN ops[i]
         ELSE [ops[i] EXCEPT !.from = look(@), !.to = look(@)]]

StageOps == LET valid == Among(batch.calls, {i \in DOMAIN batch.calls : ~batch.calls[i].error})
            IN  resolveCrossBatchRefs(conv, [i \in DOMAIN valid |-> valid[i].op])

\* The refs the results of a stage announce; the last shape of a ref wins.
Learned(results) ==
  LET named   == {i \in DOMAIN results : results[i].ok /\ results[i].ref # Nothing}
      last(r) == CHOOSE i \in named : results[i].ref = r /\ \A j \in named : results[j].ref = r => j <= i
  IN  [r \in {results[i].ref : i \in named} |-> CHOOSE id \in results[last(r)].ids : TRUE]

\* Pair each call with its error or with the next result, and learn refs and changed ids.
Feedback(c, w, results) ==
  LET position(i) == Cardinality({j \in 1 .. i : ~batch.calls[j].error})
      answer(i) == IF batch.calls[i].error THEN ToolMessage(batch.calls[i].id, FALSE, {})
                   ELSE LET r == results[position(i)] IN ToolMessage(batch.calls[i].id, r.ok, r.ids)
      seen  == UNION {results[i].ids : i \in {j \in DOMAIN results : results[j].ok /\ results[j].op \in REVIEWABLE_OPS}}
  IN  [conv |-> [Hears(c, [i \in DOMAIN batch.calls |-> answer(i)]) EXCEPT !.refMap = Over(Learned(results), @)],
       work |-> IF w.phase = "build" THEN [w EXCEPT !.changed = @ \cup seen] ELSE w]

\* refMap wins over a live id, and a ref stays known when its shape is gone.
Lookup(c) == [k \in Keys |-> IF k \in DOMAIN c.refMap THEN c.refMap[k]
                             ELSE IF k \in DOMAIN scene THEN k ELSE Nothing]

\* One declare_structure: unresolved relations wait, and in the review one context-only
\* shape makes the call an error.
DeclareStructure(look, w, call) ==
  LET waiting  == {r \in call.op.relations : Unresolved(r.nodes, look) # {}}
      resolved == {resolveStructureRelationReferences(r, look) : r \in call.op.relations \ waiting}
      denied   == {r \in resolved : w.phase = "review" /\ ~ r.nodes \subseteq w.editable}
  IN  [waiting |-> waiting, relations |-> resolved \ denied, ok |-> denied = {}]

\* The deferred operations with their references resolved, or with the reason they are not.
\* Mutant of operationAccessError: place_region is not checked.
MoveAccessError(op, w) == w.phase = "review" /\ op.op = "move_shape" /\ op.id \notin w.editable

operationAccessError(op, w) ==
  /\ w.phase = "review"
  /\ \/ op.op = "move_shape" /\ op.id \notin w.editable
     \/ op.op = "place_region" /\ ~ op.ids \subseteq w.editable

ResolveDeferred(call, look, w) ==
  IF Unresolved(CarriedKeys(call.op), look) # {} THEN OpCall(call, TRUE)
  ELSE LET op == resolveCanvasOpReferences(call.op, look)
       IN  OpCall([call EXCEPT !.op = op], operationAccessError(op, w))

\* Between the stages: activate relations whose refs exist now, take the declarations,
\* choose the scope, and start the second stage.
SecondStage(c, w) ==
  \E look \in {Lookup(c)} :
  \E ready \in {{r \in c.pendingRelations : Unresolved(r.nodes, look) = {}}} :
  \E old \in {{resolveStructureRelationReferences(r, look) : r \in ready}} :
  \E taken \in {[i \in DOMAIN batch.declares |-> DeclareStructure(look, w, batch.declares[i])]} :
  \E relations \in {old \cup UNION {taken[i].relations : i \in DOMAIN taken}} :
  \E scope \in {IF w.phase = "review" THEN resolveScope(relations)
                ELSE IF relations = {} THEN c.turnScope
                ELSE mergeScope(c.turnScope, resolveScope(relations))} :
    /\ pc' = "late" /\ work' = w
    /\ conv' = [Hears(c, [i \in DOMAIN taken |-> ToolMessage(batch.declares[i].id, taken[i].ok, {})])
                  EXCEPT !.pendingRelations = (@ \ ready) \cup UNION {taken[i].waiting : i \in DOMAIN taken},
                         !.turnScope = IF w.phase = "review" THEN @ ELSE scope]
    /\ batch' = [batch EXCEPT !.calls = [i \in DOMAIN batch.deferred |-> ResolveDeferred(batch.deferred[i], look, w)],
                              !.base = scene, !.scope = scope, !.results = <<>>,
                              !.leftover = UNION {r.nodes : r \in old},
                              !.didApply = \E i \in DOMAIN batch.calls : ~batch.calls[i].error]
    /\ UNCHANGED <<harness, delivered, outcome, emitted>>

\* Mutant of AfterStage: the diagnostics of the first stage are reported at once.
AfterStageWithDiagnostics(c, w, diagnostics) ==
  \E d \in {IF diagnostics THEN Push(c, Message("user")) ELSE c} :
    IF pc \in {"early", "earlySave"} THEN SecondStage(d, w) ELSE AfterBatch(d, w)

\* The layout diagnostics follow every tool result of the batch.
AfterStage(c, w, diagnostics) ==
  IF pc \in {"early", "earlySave"} THEN ~diagnostics /\ SecondStage(c, w)
  ELSE \E d \in {IF diagnostics THEN Push(c, Message("user")) ELSE c} : AfterBatch(d, w)

-----------------------------------------------------------------------------
(* Steps.                                                                  *)

Send ==
  /\ pc = "idle" /\ turn < MaxSends
  /\ pc' = "context" /\ turn' = turn + 1
  /\ conv' = FreshConversation /\ work' = FreshWork /\ batch' = NoBatch
  /\ delivered' = <<>> /\ outcome' = "none" /\ emitted' = 0
  /\ UNCHANGED <<harness, canvas>>

ContextReady ==
  /\ pc = "context"
  /\ work' = work
  /\ RunTurn(Push(conv, Message("user")))
  /\ UNCHANGED <<turn, canvas>>

InspectionEnds ==
  /\ pc = "inspecting"
  /\ LET h == [harness EXCEPT !.inspected = TRUE]
     IN  IF h.cancelled THEN Fail(conv) /\ harness' = h
         ELSE Submit(conv, h) /\ UNCHANGED <<conv, batch, outcome, emitted>>
  /\ UNCHANGED <<turn, work, canvas>>

\* The turn fails: not submitted, no result, invalid JSON, or an answer the phase forbids.
TurnFails ==
  /\ pc \in {"inspecting", "asking"}
  /\ Fail(conv)
  /\ UNCHANGED <<turn, work, harness, canvas>>

\* An answer with no calls: in the build it ends the loop unless planned refs are missing.
NoCalls(c, w, m) ==
  CASE w.phase = "finalize" -> Finish(c, "completed", w.text) /\ work' = w
    [] w.phase = "review"   -> Finalize(c, w)
    [] w.phase = "build"    ->
         IF missingDiagramRefs(c) # {} /\ w.iter < MAX_ITERATIONS - 1
         THEN NextIteration(Push(c, Message("user")), w)
         ELSE FinishBuild(c, w)

\* Mutant of TakeAnswer: the answer is used although the request was cancelled meanwhile.
TakeAnswerAnyway(c, w, m, calls) ==
  IF m.question THEN Finish(c, "question", FALSE) /\ work' = w
  ELSE IF calls = <<>> THEN NoCalls(c, w, m)
  ELSE processToolCalls(c, w, calls)

\* A cancellation since the request is noticed before the answer is used.
TakeAnswer(c, w, m, calls) ==
  IF conv.cancelled THEN Fail(conv) /\ work' = work /\ harness' = Settled
  ELSE IF m.question THEN Finish(c, "question", FALSE) /\ work' = w
  ELSE IF calls = <<>> THEN NoCalls(c, w, m)
  ELSE processToolCalls(c, w, calls)

\* The turn settles with an acceptable answer.
ModelAnswers ==
  /\ pc = "asking"
  /\ \E m \in Answers(work.phase) :
       /\ Acceptable(m, work.phase, SawTool)
       /\ Cardinality(minted) + Cardinality({i \in DOMAIN m.calls : m.calls[i].op \in CreatingOps}) <= Cardinality(Ids)
       /\ \E calls \in {Numbered(m.calls, Len(conv.history) + 1)} :
          \E c \in {Push(conv, AssistantMessage({calls[i].id : i \in DOMAIN calls}))},
            w \in {[work EXCEPT !.text = m.text \/ @]} :
              TakeAnswer(c, w, m, calls)
  /\ UNCHANGED <<turn, canvas>>

\* port.apply returns: it writes what it made of the scene it read before its await.  A
\* stage with no operations and no scope does not reach the port.
StageApplies ==
  /\ pc \in {"early", "late"}
  /\ IF StageOps = <<>> /\ batch.scope = NoScope
     THEN /\ \E f \in {Feedback(conv, work, <<>>)}, diagnostics \in {FALSE, batch.didApply} :
               AfterStage(f.conv, f.work, diagnostics)
          /\ UNCHANGED <<turn, canvas>>
     ELSE \E done \in {Apply(batch.base, minted, StageOps, batch.scope)} :
              /\ scene' = done.scene /\ minted' = done.minted
              /\ batch' = [batch EXCEPT !.results = done.results, !.edited = done.edited,
                                        !.laidOut = done.laidOut]
              /\ pc' = IF pc = "early" THEN "earlySave" ELSE "lateSave"
              /\ UNCHANGED <<turn, conv, work, harness, saved, clipboard, edits, delivered, outcome, emitted>>

\* Mutant of StageSaved: the results are reported before the scene is saved.
StageReported ==
  /\ pc \in {"earlySave", "lateSave"}
  /\ \E f \in {Feedback(conv, work, batch.results)}, diagnostics \in BOOLEAN :
       AfterStage(f.conv, f.work, diagnostics)
  /\ UNCHANGED <<turn, canvas>>

\* The saving port commits the scene before the results reach the conversation.
StageSaved ==
  /\ pc \in {"earlySave", "lateSave"}
  /\ saved' = scene
  /\ \E f \in {Feedback(conv, work, batch.results)}, diagnostics \in BOOLEAN :
       AfterStage(f.conv, f.work, diagnostics)
  /\ UNCHANGED <<turn, scene, minted, clipboard, edits>>

\* Saving, or recording the context after it, fails.
SaveFails ==
  /\ pc \in {"earlySave", "lateSave"}
  /\ saved' \in {saved, scene}
  /\ Fail(conv)
  /\ UNCHANGED <<turn, work, harness, scene, minted, clipboard, edits>>

\* Mutant of ReviewRendered: without an image the request does not go on.
ReviewNeedsImage ==
  /\ pc = "rendering"
  /\ work.changed \cap DOMAIN scene # {} /\ work' = work /\ RunTurn(Push(conv, Message("user")))
  /\ UNCHANGED <<turn, canvas>>

\* The review image, or none: nothing left to show, or the export failed.
ReviewRendered ==
  /\ pc = "rendering"
  /\ \/ work.changed \cap DOMAIN scene # {} /\ work' = work /\ RunTurn(Push(conv, Message("user")))
     \/ Finalize(conv, work)
  /\ UNCHANGED <<turn, canvas>>

\* Conversation.cancel, then HarnessTurn.cancel.
Cancel ==
  /\ pc # "idle" /\ ~conv.cancelled
  /\ conv' = [conv EXCEPT !.cancelled = TRUE] /\ harness' = [harness EXCEPT !.cancelled = TRUE]
  /\ UNCHANGED <<pc, turn, work, batch, canvas, delivered, outcome, emitted>>

\* The canvas stays editable: the user deletes an element or brings one back.
UserEdits ==
  /\ pc # "idle" /\ edits < MaxUserEdits
  /\ edits' = edits + 1
  /\ \/ \E id \in Edited \cap DOMAIN scene :
          /\ scene' = Restrict(scene, DOMAIN scene \ {id})
          /\ clipboard' = Over(Only(id, scene[id]), clipboard)
     \/ \E id \in (Edited \cap DOMAIN clipboard) \ DOMAIN scene :
          /\ scene' = Over(scene, Only(id, clipboard[id]))
          /\ UNCHANGED clipboard
  /\ UNCHANGED <<pc, turn, conv, work, batch, harness, saved, minted, delivered, outcome, emitted>>

Workflow == \/ ContextReady \/ InspectionEnds \/ TurnFails \/ ModelAnswers
            \/ StageApplies \/ StageSaved \/ SaveFails \/ ReviewRendered

Next == Send \/ Workflow \/ Cancel \/ UserEdits

\* Every await ends: a turn has a deadline in the harness, and fonts, saves and exports settle.
Spec == Init /\ [][Next]_vars /\ WF_vars(Workflow)

-----------------------------------------------------------------------------
(* Properties.                                                             *)

\* Every variable keeps its type.
TypeOK ==
  /\ pc \in Parked \cup {"idle"} /\ turn \in 0 .. MaxSends
  /\ work.phase \in Phase /\ work.iter \in 0 .. MAX_ITERATIONS - 1
  /\ work.changed \subseteq Ids /\ work.editable \subseteq Ids
  /\ DOMAIN scene \subseteq minted /\ DOMAIN saved \subseteq minted /\ minted \subseteq Ids
  /\ DOMAIN conv.refMap \subseteq Refs /\ Range(conv.refMap) \subseteq minted
  /\ conv.diagramPlan \subseteq Refs
  /\ \A r \in conv.pendingRelations : r.nodes \subseteq Keys
  /\ outcome \in {"none", "completed", "failed", "question"} /\ emitted \in 0 .. 1

\* When the model is asked again, every tool call it has made has exactly one result, and
\* the results of an answer follow it before anything else is said: the next request never
\* carries a dangling, doubled or displaced result, whatever was refused, rejected or left
\* unresolved (processToolCalls, compileDiagramPlan, applyOpCalls).
CallsAnsweredOnce ==
  pc = "asking" =>
    LET h == conv.history
        results(i) == {j \in DOMAIN h : h[j].role = "tool" /\ h[j].call \in h[i].calls}
    IN  \A i \in DOMAIN h :
          /\ h[i].role = "assistant" =>
               /\ results(i) = i + 1 .. i + Cardinality(h[i].calls)
               /\ {h[j].call : j \in results(i)} = h[i].calls
          /\ h[i].role = "tool" => \E j \in 1 .. i : h[i].call \in h[j].calls

\* The review changes nothing but what the build made: neither its operations nor the
\* layout they trigger touch a context-only shape.  The exception is a declaration of the
\* build still waiting for a shape, which the review activates without the access check
\* when the user has brought that shape back in the meantime.
ReviewStaysInScope ==
  pc = "lateSave" /\ work.phase = "review" =>
    batch.edited \cup batch.laidOut \subseteq work.editable \cup batch.leftover

\* After a cancellation no further turn is submitted and no further batch is begun: a batch
\* that is being applied finishes its two stages and the request then fails, wherever the
\* cancellation fell (checkCancelled before and after every turn, HarnessTurn.cancelled).
NothingAfterCancel ==
  [][conv.cancelled /\ turn' = turn =>
       /\ delivered' = delivered
       /\ pc' \in {"inspecting", "early"} => pc' = pc]_vars

\* A result the model is told of is already in the saved scene, so a restart cannot lose a
\* shape the model believes in, unless the user has removed it (CanvasEngine's saving port).
ReportedIsSaved ==
  pc = "asking" =>
    \A i \in DOMAIN conv.history :
      (conv.history[i].ids \cap DOMAIN scene) \ DOMAIN clipboard \subseteq DOMAIN saved

\* If the model ends the build before its last iteration, a create of this request made a
\* shape for every planned ref and its result was reported; an incomplete plan passes only
\* at the iteration limit (missingDiagramRefs).
PlanIsMaterialized ==
  [][pc = "asking" /\ work.phase = "build" /\ work.iter < MAX_ITERATIONS - 1
       /\ (pc' = "rendering" \/ (pc' = "idle" /\ outcome' = "completed")) =>
       \A r \in conv.diagramPlan :
         /\ r \in DOMAIN conv.refMap
         /\ \E i \in DOMAIN conv.history : conv.refMap[r] \in conv.history[i].ids]_vars

\* A node the model has frozen in this request is not moved by the layout of a later build
\* batch, even when an older or a newer flow names it (resolveScope, mergeScope).
FrozenStayPut ==
  pc = "lateSave" /\ work.phase = "build" =>
    batch.laidOut \cap NodesOf(conv.turnScope.relations, {"freeze"}) = {}

\* The model gets every message of the request once and in order, over all phases and after
\* earlier requests on the same HarnessTurn (its delivery cursor).
MessagesDeliveredOnce ==
  pc = "asking" => delivered = [i \in 1 .. Len(conv.history) |-> i]

\* Every request ends, however often the model leaves its plan incomplete.
SendEnds == pc # "idle" ~> pc = "idle"
=============================================================================
