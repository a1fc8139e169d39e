--------------------------- MODULE ThreadsProofs ---------------------------
(***************************************************************************)
(* Theorems about Threads, for any number of segments, requests, turns and *)
(* crashes.                                                                *)
(*                                                                         *)
(* The argument: a request reaches the kernel only from a handler that     *)
(* found no receipt of it, put its input into a journal that was not       *)
(* deleted, and wrote the receipt.  A receipt goes away only after the     *)
(* tombstone, and then no input can be recorded any more; so nothing that  *)
(* a crash, a retry or a deletion does brings the request back.            *)
(***************************************************************************)
EXTENDS Threads, JournalProofs

----------------------------------------------------------------------------
(* Types.                                                                  *)

\* The handler of a run goes on.
LEMMA MovedRun ==
  ASSUME NEW x \in Run, NEW at \in Step
  PROVE  [x EXCEPT !.at = at] \in Run
BY DEF Run

\* A handler that ends with an outcome, and one that wrote it to the journal, keep the type.
LEMMA EndedRun ==
  ASSUME NEW x \in Run, NEW at \in Step, NEW how \in Outcome
  PROVE  /\ [x EXCEPT !.at = at, !.result = how] \in Run
         /\ \A native \in BOOLEAN : [x EXCEPT !.at = at, !.native = native, !.result = how] \in Run
<1>1. ASSUME NEW y \in Run, NEW native \in BOOLEAN PROVE [y EXCEPT !.native = native] \in Run
  BY <1>1 DEF Run
<1>2. ASSUME NEW y \in Run PROVE [y EXCEPT !.result = how] \in Run
  BY <1>2 DEF Run
<1>3. [x EXCEPT !.at = at] \in Run
  BY MovedRun
<1>4. [x EXCEPT !.at = at, !.result = how] \in Run
  BY <1>2, <1>3
<1>5. ASSUME NEW native \in BOOLEAN
      PROVE  [x EXCEPT !.at = at, !.native = native, !.result = how] \in Run
  BY <1>1, <1>2, <1>3
<1>6. QED
  BY <1>4, <1>5

\* The steps at which a handler goes on or leaves keep runs typed.
LEMMA GoesTyped ==
  ASSUME runs \subseteq Run, NEW x \in runs, NEW at \in Step, Goes(x, at)
  PROVE  runs' \subseteq Run
BY MovedRun DEF Goes

\* A handler that leaves takes its run away and frees the client that waits for it.
LEMMA LeaveTyped ==
  ASSUME TypeOK, NEW x \in runs, Leave(x)
  PROVE  /\ runs' \subseteq Run
         /\ client' \in [thread: Thread \cup {None}, request: Key \cup {None}]
BY DEF TypeOK, Leave, Idle

\* A revision is the number of a row, or 0.
LEMMA RevisionTyped ==
  ASSUME NEW ev \in Seq(Event)
  PROVE  Revision(ev) \in Nat
<1> DEFINE at == {i \in DOMAIN ev : ev[i].kind \in {"model_result", "legacy_context"}}
<1>1. CASE at = {}
  BY <1>1 DEF Revision
<1>2. CASE at # {}
  <2>1. Len(ev) \in Nat /\ at \in SUBSET (1 .. Len(ev))
    OBVIOUS
  <2>2. \E i \in at : \A j \in at : j <= i
    <3> HIDE DEF at
    <3> QED BY <1>2, <2>1, LastOfRows
  <2>3. (CHOOSE i \in at : \A j \in at : j <= i) \in at
    <3> HIDE DEF at
    <3> QED BY <2>2
  <2>4. ASSUME NEW i \in at PROVE ev[i].seq \in Nat
    <3>1. ev[i] \in Event
      OBVIOUS
    <3>2. QED
      BY <3>1 DEF Event
  <2>5. Revision(ev) = ev[CHOOSE i \in at : \A j \in at : j <= i].seq
    BY <1>2 DEF Revision
  <2>6. QED
    BY <2>3, <2>4, <2>5
<1>3. QED
  BY <1>1, <1>2

\* The result a handler writes is a draft.
LEMMA AnswerTyped ==
  ASSUME NEW x \in Run, x.result \in Outcome
  PROVE  AnswerDraft(x) \in Drafts /\ AnswerDraft(x).id = <<"result", x.request>>
<1>1. ResultDraft(x.turn, x.request) \in Drafts /\ x.request \in Key
  BY BuiltDrafts DEF Run
<1>2. <<x.result, None>> \in Data
  BY DEF Data, Word
<1>3. ResultDraft(x.turn, x.request).id = <<"result", x.request>>
  BY DEF ResultDraft, Draft
<1>4. QED
  BY <1>1, <1>2, <1>3 DEF AnswerDraft, Drafts

\* What the types leave open: what is bound names its connection and credentials, a live
\* segment and a running handler have a binding, and a removal is of a deleted conversation.
Named(binding) == binding = NoBinding \/ binding.frozen \in Frozen

Bindings ==
  /\ \A th \in Thread : Named(bound[th]) /\ Named(state[th])
  /\ opening.thread # None => opening.binding.frozen \in Frozen
  /\ phase # "up" => \A th \in Thread : live[th] = 0
  /\ removing.at # "no" => ~Live(journal)
  /\ Live(journal) => /\ \A th \in Thread : live[th] # 0 => bound[th].frozen \in Frozen
                      /\ \A x \in runs : x.frozen \in Frozen

Typed == TypeOK /\ Bindings

\* A row that append or finish writes to a journal it found live.
Writing == Live(journal) /\ \E draft \in Drafts : Appends(draft)

\* What a step of a handler does to the journal.
LEMMA HandlerJournal ==
  ASSUME Typed, NEW x \in runs, Advance(x)
  PROVE  UNCHANGED journal \/ Writing
<1> SUFFICES ASSUME ~UNCHANGED journal PROVE Writing
  OBVIOUS
<1> USE DEF durable, Takes, Puts
<1>0. x \in Run /\ x.request \in Key /\ x.turn \in Turn
  BY DEF Typed, TypeOK, Run
<1>1. CASE BeginOwn(x)
  <2>1. Live(journal) /\ Appends(BeginDraft(x.turn, RoleOf[x.frozen], None))
    BY <1>1 DEF BeginOwn
  <2>2. RoleOf[x.frozen] \in Role
    BY <2>1, ThreadsAreNames DEF Typed, Bindings
  <2>3. BeginDraft(x.turn, RoleOf[x.frozen], None) \in Drafts
    BY <1>0, <2>2, BuiltDrafts
  <2>4. QED
    BY <2>1, <2>3 DEF Writing
<1>2. CASE Record(x)
  <2>1. Live(journal) /\ Appends(InputDraft(x.turn, x.request))
    BY <1>2 DEF Record
  <2>2. QED
    BY <1>0, <2>1, BuiltDrafts DEF Writing
<1>3. CASE Conclude(x)
  <2> DEFINE native == receipts[x.request].native
             result == IF x.result = "completed" THEN "completed" ELSE IF native THEN "interrupted" ELSE "failed"
             y == [x EXCEPT !.at = "journaled", !.native = native \/ result = "completed", !.result = result]
  <2>1. Live(journal) /\ Appends(AnswerDraft(y))
    BY <1>3 DEF Conclude
  <2>2. result \in Outcome /\ "journaled" \in Step /\ (native \/ result = "completed") \in BOOLEAN
    BY <1>0 DEF Outcome, Step, Typed, TypeOK, Receipt
  <2>3. y \in Run
    <3> HIDE DEF result
    <3> QED BY <1>0, <2>2, EndedRun
  <2>4. y.result = result
    BY <1>0 DEF Run
  <2>5. AnswerDraft(y) \in Drafts
    <3> HIDE DEF y, result
    <3> QED BY <2>2, <2>3, <2>4, AnswerTyped
  <2>6. QED
    BY <2>1, <2>5 DEF Writing
<1>4. CASE FinishOwn(x)
  <2>1. PICK status \in Outcome : Live(journal) /\ Appends(EndDraft(x.turn, status))
    BY <1>4 DEF FinishOwn, Outcome
  <2>2. QED
    BY <1>0, <2>1, BuiltDrafts DEF Writing
<1>5. QED
  BY <1>1, <1>2, <1>3, <1>4 DEF Advance, Admit, Accept, Submit, MarkRunning, Collect, WriteReceipt,
     NoteContext, SaveContext, Block, SaveBlock

\* What any step does to it: nothing, one row more, or the tombstone alone.
LEMMA JournalStep ==
  ASSUME Typed, [Next]_vars
  PROVE  UNCHANGED journal \/ Writing \/ journal' = TombstoneRows
<1> SUFFICES ASSUME Next, ~UNCHANGED journal PROVE Writing \/ journal' = TombstoneRows
  BY DEF vars, durable
<1> USE DEF durable, Takes, Puts
<1>1. CASE Recovery
  <2>1. EndTurns
    BY <1>1 DEF Recovery, LoadState, SaveRecovered, Serve, RecoverReceipt, Reconcile
  <2>2. PICK t \in ActiveTurns(journal) : Live(journal) /\ Appends(EndDraft(t, "interrupted"))
    BY <2>1 DEF EndTurns
  <2>3. EndDraft(t, "interrupted") \in Drafts
    BY BuiltDrafts DEF ActiveTurns, Outcome
  <2>4. QED
    BY <2>2, <2>3 DEF Writing
<1>2. CASE Deletion \/ Crash
  BY <1>2 DEF Deletion, Crash, Delete, RemoveThreads, RemoveReceipts, RemoveBindings, TombstoneRows
<1>3. CASE Stopping
  <2>1. Live(journal) /\ stopping.turn # None /\ Appends(EndDraft(stopping.turn, "interrupted"))
    BY <1>3 DEF Stopping, StopWaited, StopTimesOut, StopTurn, StopThread, StopFinish
  <2>2. EndDraft(stopping.turn, "interrupted") \in Drafts
    BY <2>1, BuiltDrafts DEF Typed, TypeOK, Outcome
  <2>3. QED
    BY <2>1, <2>2 DEF Writing
<1>4. CASE Requests
  <2>1. \/ \E t \in Turn, role \in Role : BeginTurn(t, role)
        \/ \E t \in Turn, status \in {"completed", "failed"} : FinishTurn(t, status)
    BY <1>4 DEF Requests, StartKernel, Opened, OpenFails, GiveUp, Open, Close, Cancel, Start
  <2>2. CASE \E t \in Turn, role \in Role : BeginTurn(t, role)
    <3>1. PICK t \in Turn, role \in Role : Live(journal) /\ Appends(BeginDraft(t, role, None))
      BY <2>2 DEF BeginTurn
    <3>2. QED
      BY <3>1, BuiltDrafts DEF Writing
  <2>3. CASE \E t \in Turn, status \in {"completed", "failed"} : FinishTurn(t, status)
    <3>1. PICK t \in Turn, status \in Outcome : Live(journal) /\ Appends(EndDraft(t, status))
      BY <2>3 DEF FinishTurn, Outcome
    <3>2. QED
      BY <3>1, BuiltDrafts DEF Writing
  <2>4. QED
    BY <2>1, <2>2, <2>3
<1>5. CASE \E x \in runs : Advance(x)
  BY <1>5, HandlerJournal
<1>6. QED
  BY <1>1, <1>2, <1>3, <1>4, <1>5 DEF Next

\* So a journal that is live was, and has all its rows still.
LEMMA JournalKept ==
  ASSUME Typed, [Next]_vars
  PROVE  /\ journal' \in Seq(Event)
         /\ Live(journal)' => Live(journal) /\ \A id : HasId(journal, id) => HasId(journal, id)'
<1>1. CASE UNCHANGED journal
  BY <1>1 DEF Typed, TypeOK
<1>2. CASE Writing
  <2>1. PICK draft \in Drafts : journal' = Extended(journal, draft)
    BY <1>2 DEF Writing, Appends
  <2>2. journal \in Seq(Event)
    BY DEF Typed, TypeOK
  <2>3. /\ journal' \in Seq(Event) /\ DOMAIN journal = 1 .. Len(journal)
        /\ DOMAIN journal' = 1 .. Len(journal) + 1 /\ Len(journal) \in Nat
        /\ \A i \in 1 .. Len(journal) : journal'[i] = journal[i]
    BY <2>1, <2>2, ExtendedRows
  <2>4. \A id : HasId(journal, id) => HasId(journal', id)
    BY <2>3 DEF HasId
  <2>5. Live(journal)
    BY <1>2 DEF Writing
  <2>6. QED
    BY <2>3, <2>4, <2>5
<1>3. CASE journal' = TombstoneRows
  BY <1>3, TombstoneWellFormed DEF Live
<1>4. QED
  BY <1>1, <1>2, <1>3, JournalStep

\* The least number not taken.
LEMMA LeastTyped ==
  ASSUME NEW th, FreeInstances(th) # {}
  PROVE  (CHOOSE n \in FreeInstances(th) : \A m \in FreeInstances(th) : n <= m) \in 1 .. MaxInstances
<1>1. FreeInstances(th) \subseteq 1 .. MaxInstances /\ FreeInstances(th) \in SUBSET Nat
  BY ThreadBounds DEF FreeInstances
<1>2. \E n \in FreeInstances(th) : \A m \in FreeInstances(th) : n <= m
  BY <1>1, LeastNumber
<1>3. QED
  BY <1>1, <1>2

\* Recovery changes the status of a receipt.
LEMMA RestatedReceipt ==
  ASSUME NEW p \in Receipt, NEW status \in Settled
  PROVE  [p EXCEPT !.status = status] \in Receipt
BY DEF Receipt

\* Recovery keeps the types.
LEMMA RecoveryTyped == ASSUME TypeOK, journal' \in Seq(Event), Recovery PROVE TypeOK'
<1> USE DEF durable, memory
<1>1. ASSUME LoadState PROVE TypeOK'
  BY <1>1 DEF LoadState, TypeOK
<1>2. ASSUME SaveRecovered PROVE TypeOK'
  BY <1>2 DEF SaveRecovered, TypeOK
<1>3. ASSUME EndTurns PROVE TypeOK'
  BY <1>3 DEF EndTurns, TypeOK
<1>4. ASSUME Serve PROVE TypeOK'
  BY <1>4 DEF Serve, TypeOK
<1>5. ASSUME NEW r \in Key, RecoverReceipt(r) PROVE TypeOK'
  <2>1. receipts' \in [Key -> Receipt]
    <3>1. receipts[r] \in Receipt /\ "uncertain" \in Settled
      BY DEF TypeOK, Settled
    <3>2. [receipts[r] EXCEPT !.status = "uncertain"] \in Receipt
      BY <3>1, RestatedReceipt
    <3>3. receipts' = [receipts EXCEPT ![r] = [receipts[r] EXCEPT !.status = "uncertain"]]
      BY <1>5 DEF RecoverReceipt, TypeOK
    <3>4. QED
      BY <3>2, <3>3 DEF TypeOK
  <2>2. bound' \in [Thread -> Binding]
    BY <1>5 DEF RecoverReceipt, TypeOK, Binding
  <2>3. QED
    BY <1>5, <2>1, <2>2 DEF RecoverReceipt, TypeOK
<1>6. ASSUME NEW r \in Key, Reconcile(r) PROVE TypeOK'
  <2>1. receipts' \in [Key -> Receipt]
    <3>1. [receipts[r] EXCEPT !.status = "completed"] \in Receipt
      <4>1. receipts[r] \in Receipt /\ "completed" \in Settled
        BY DEF TypeOK, Settled, Outcome
      <4>2. QED
        BY <4>1, RestatedReceipt
    <3>2. receipts' = [receipts EXCEPT ![r] = [[receipts[r] EXCEPT !.status = "completed"] EXCEPT !.native = TRUE]]
      BY <1>6 DEF Reconcile, TypeOK
    <3>3. \A p \in Receipt : [p EXCEPT !.native = TRUE] \in Receipt
      BY DEF Receipt
    <3>4. QED
      BY <3>1, <3>2, <3>3 DEF TypeOK
  <2>2. bound' \in [Thread -> Binding]
    BY <1>6 DEF Reconcile, TypeOK, Binding
  <2>3. QED
    BY <1>6, <2>1, <2>2 DEF Reconcile, TypeOK
<1>7. QED
  BY <1>1, <1>2, <1>3, <1>4, <1>5, <1>6 DEF Recovery

\* What the registry holds is an instance.
LEMMA HeldIsInstance ==
  ASSUME TypeOK, NEW th \in Thread, live[th] # 0
  PROVE  Holds(th) \in Instance
<1>1. live[th] \in 1 .. MaxInstances
  BY ThreadBounds DEF TypeOK
<1>2. QED
  BY <1>1 DEF Holds, Instance

\* Deletion and a crash keep the types.
LEMMA DeletionTyped == ASSUME TypeOK, journal' \in Seq(Event), Deletion \/ Crash PROVE TypeOK'
<1> USE DEF durable, memory
<1>1. ASSUME Delete PROVE TypeOK'
  BY <1>1 DEF Delete, TypeOK
<1>2. ASSUME RemoveThreads PROVE TypeOK'
  <2>1. live' \in [Thread -> 0 .. MaxInstances] /\ rollout' \in [Thread -> SUBSET Key]
    BY <1>2, ThreadBounds DEF RemoveThreads, TypeOK
  <2>2. cancelled' \subseteq Instance
    BY <1>2, HeldIsInstance DEF RemoveThreads, TypeOK
  <2>3. QED
    BY <1>2, <2>1, <2>2 DEF RemoveThreads, TypeOK
<1>3. ASSUME RemoveReceipts PROVE TypeOK'
  BY <1>3 DEF RemoveReceipts, TypeOK, NoReceipt, Receipt
<1>4. ASSUME RemoveBindings PROVE TypeOK'
  BY <1>4 DEF RemoveBindings, TypeOK, NotRemoving, NoBinding, Binding
<1>5. ASSUME Crash PROVE TypeOK'
  BY <1>5, ThreadBounds DEF Crash, TypeOK, NoBindings, NoBinding, Binding, NotOpening, NotStopping, NotRemoving, Idle
<1>6. QED
  BY <1>1, <1>2, <1>3, <1>4, <1>5 DEF Deletion

\* session/cancel keeps the types.
LEMMA StoppingTyped == ASSUME TypeOK, journal' \in Seq(Event), Stopping PROVE TypeOK'
<1> USE DEF durable, memory
<1>1. ASSUME StopWaited \/ StopTimesOut PROVE TypeOK'
  <2>1. stopping' \in [turn: Turn \cup {None}, left: SUBSET Instance, waits: SUBSET Instance]
    <3>1. CASE StopWaited
      BY <3>1 DEF StopWaited, TypeOK
    <3>2. CASE StopTimesOut
      BY <3>2 DEF StopTimesOut, NotStopping
    <3>3. QED
      BY <1>1, <3>1, <3>2
  <2>2. QED
    BY <1>1, <2>1 DEF StopWaited, StopTimesOut, TypeOK
<1>2. ASSUME NEW t \in Turn, StopTurn(t) PROVE TypeOK'
  <2>1. {Holds(th) : th \in {th \in Thread : live[th] # 0}} \subseteq Instance
    BY HeldIsInstance
  <2>2. QED
    BY <1>2, <2>1 DEF StopTurn, TypeOK
<1>3. ASSUME NEW inst \in Instance, StopThread(inst) PROVE TypeOK'
  <2>1. cancelled' \subseteq Instance
    BY <1>3 DEF StopThread, TypeOK
  <2>2. stopping' \in [turn: Turn \cup {None}, left: SUBSET Instance, waits: SUBSET Instance]
    <3>1. [stopping EXCEPT !.left = @ \ {inst}] \in [turn: Turn \cup {None}, left: SUBSET Instance, waits: SUBSET Instance]
      BY DEF TypeOK
    <3>2. PICK waits \in SUBSET Instance : stopping' = [[stopping EXCEPT !.left = @ \ {inst}] EXCEPT !.waits = waits]
      BY <1>3 DEF StopThread, TypeOK
    <3>3. QED
      BY <3>1, <3>2
  <2>3. QED
    BY <1>3, <2>1, <2>2 DEF StopThread, TypeOK
<1>4. ASSUME StopFinish PROVE TypeOK'
  BY <1>4 DEF StopFinish, TypeOK, NotStopping
<1>5. QED
  BY <1>1, <1>2, <1>3, <1>4 DEF Stopping

\* What the client asks for keeps the types.
LEMMA RequestsTyped == ASSUME TypeOK, journal' \in Seq(Event), Requests PROVE TypeOK'
<1> USE DEF durable, memory
<1>1. ASSUME StartKernel PROVE TypeOK'
  <2>1. Answered \subseteq Key
    BY DEF Answered
  <2>2. rollout' \in [Thread -> SUBSET Key]
    BY <1>1, <2>1 DEF StartKernel, TypeOK
  <2>3. QED
    BY <1>1, <2>2 DEF StartKernel, TypeOK
<1>2. ASSUME Opened PROVE TypeOK'
  <2> DEFINE th == opening.thread
             n == CHOOSE n \in FreeInstances(th) : \A m \in FreeInstances(th) : n <= m
  <2>1. n \in 1 .. MaxInstances
    BY <1>2, LeastTyped DEF Opened
  <2>2. live' = [live EXCEPT ![th] = n] /\ cancelled' \subseteq cancelled
    BY <1>2 DEF Opened
  <2>3. live' \in [Thread -> 0 .. MaxInstances] /\ cancelled' \subseteq Instance
    <3>1. n \in 0 .. MaxInstances
      <4> HIDE DEF n
      <4> QED BY <2>1, ThreadBounds
    <3>2. live' \in [Thread -> 0 .. MaxInstances]
      <4> HIDE DEF n, th
      <4> QED BY <2>2, <3>1 DEF TypeOK
    <3>3. QED
      BY <2>2, <3>2 DEF TypeOK
  <2>4. bound' \in [Thread -> Binding] /\ state' = bound'
    BY <1>2 DEF Opened, TypeOK
  <2>5. client' \in [thread: Thread \cup {None}, request: Key \cup {None}]
    BY <1>2 DEF Opened, TypeOK
  <2>6. opening' \in [thread: Thread \cup {None}, binding: Binding, started: BOOLEAN]
    BY <1>2 DEF Opened, NotOpening, NoBinding, Binding
  <2>7. QED
    BY <1>2, <2>3, <2>4, <2>5, <2>6 DEF Opened, TypeOK
<1>3. ASSUME OpenFails PROVE TypeOK'
  BY <1>3 DEF OpenFails, TypeOK, NotOpening, NoBinding, Binding
<1>4. ASSUME GiveUp PROVE TypeOK'
  BY <1>4 DEF GiveUp, TypeOK, Idle
<1>5. ASSUME NEW f \in Frozen, NEW t \in Turn \cup {None}, Open(f, t) PROVE TypeOK'
  <2>1. PICK th \in Thread :
          IF live[th] # 0
            THEN client' = [client EXCEPT !.thread = th] /\ UNCHANGED opening
            ELSE /\ opening' = [thread |-> th, started |-> FALSE, binding |->
                                  IF bound[th] # NoBinding THEN bound[th]
                                  ELSE [frozen |-> f, context |-> Revision(journal), blocked |-> None]]
                 /\ UNCHANGED client
    BY <1>5 DEF Open, Fitting, Unused
  <2>2. Revision(journal) \in Nat
    BY RevisionTyped DEF TypeOK
  <2>3. client' \in [thread: Thread \cup {None}, request: Key \cup {None}]
    BY <2>1 DEF TypeOK
  <2>4. opening' \in [thread: Thread \cup {None}, binding: Binding, started: BOOLEAN]
    <3>1. bound[th] \in Binding /\ [frozen |-> f, context |-> Revision(journal), blocked |-> None] \in Binding
      BY <2>2 DEF TypeOK, Binding
    <3>2. CASE UNCHANGED opening
      BY <3>2 DEF TypeOK
    <3>3. CASE \E binding \in Binding : opening' = [thread |-> th, started |-> FALSE, binding |-> binding]
      BY <3>3
    <3>4. QED
      BY <2>1, <3>1, <3>2, <3>3
  <2>5. QED
    BY <1>5, <2>3, <2>4 DEF Open, TypeOK
<1>6. ASSUME NEW th \in Thread, Close(th) \/ Cancel(th) PROVE TypeOK'
  <2>1. cancelled' \subseteq Instance
    BY <1>6, HeldIsInstance DEF Close, Cancel, TypeOK
  <2>2. live' \in [Thread -> 0 .. MaxInstances]
    BY <1>6, ThreadBounds DEF Close, Cancel, TypeOK
  <2>3. QED
    BY <1>6, <2>1, <2>2 DEF Close, Cancel, TypeOK, Idle
<1>7. ASSUME NEW t \in Turn, NEW role \in Role, BeginTurn(t, role) PROVE TypeOK'
  BY <1>7 DEF BeginTurn, TypeOK
<1>8. ASSUME NEW t \in Turn, NEW status \in {"completed", "failed"}, FinishTurn(t, status) PROVE TypeOK'
  BY <1>8 DEF FinishTurn, TypeOK, Idle
<1>9. ASSUME NEW t \in Turn, NEW r \in Key, Start(t, r) PROVE TypeOK'
  <2>1. runs' \subseteq Run
    <3> DEFINE th == client.thread
               x == [thread |-> th, inst |-> live[th], frozen |-> bound[th].frozen, request |-> r,
                     turn |-> t, at |-> "locked", native |-> FALSE, result |-> "none"]
    <3>1. CASE UNCHANGED runs
      BY <3>1 DEF TypeOK
    <3>2. CASE ~UNCHANGED runs
      <4>1. live[th] # 0 /\ runs' = runs \cup {x} /\ th \in Thread
        BY <1>9, <3>2 DEF Start, TypeOK
      <4>2. live[th] \in 1 .. MaxInstances /\ bound[th].frozen \in Frozen \cup {None}
        BY <4>1, ThreadBounds DEF TypeOK, Binding
      <4>3. x \in Run
        BY <4>1, <4>2 DEF Run, Step
      <4>4. QED
        BY <4>1, <4>3 DEF TypeOK
    <3>3. QED
      BY <3>1, <3>2
  <2>2. client' \in [thread: Thread \cup {None}, request: Key \cup {None}]
    <3>1. client' = [client EXCEPT !.request = r] \/ client' = Idle
      BY <1>9 DEF Start
    <3>2. CASE client' = Idle
      BY <3>2 DEF Idle
    <3>3. CASE client' = [client EXCEPT !.request = r]
      BY <3>3 DEF TypeOK
    <3>4. QED
      BY <3>1, <3>2, <3>3
  <2>3. QED
    BY <1>9, <2>1, <2>2 DEF Start, TypeOK
<1>10. QED
  BY <1>1, <1>2, <1>3, <1>4, <1>5, <1>6, <1>7, <1>8, <1>9 DEF Requests

\* A receipt that a handler writes.
LEMMA WritesTyped ==
  ASSUME TypeOK, NEW x \in Run, NEW native \in BOOLEAN,
         NEW status \in {"none", "accepted", "running"} \cup Settled, Writes(x, status, native)
  PROVE  receipts' \in [Key -> Receipt]
<1>1. [status |-> status, thread |-> x.thread, native |-> native] \in Receipt
  BY DEF Receipt, Run
<1>2. QED
  BY <1>1 DEF Writes, TypeOK

\* A handler that goes on leaves the client alone, one that leaves frees it.
LEMMA HandlerTyped ==
  ASSUME TypeOK, NEW x \in runs, NEW at \in Step, (Goes(x, at) /\ UNCHANGED client) \/ Leave(x)
  PROVE  /\ runs' \subseteq Run
         /\ client' \in [thread: Thread \cup {None}, request: Key \cup {None}]
<1>1. CASE Leave(x)
  BY <1>1, LeaveTyped
<1>2. CASE Goes(x, at) /\ UNCHANGED client
  BY <1>2, GoesTyped DEF TypeOK
<1>3. QED
  BY <1>1, <1>2

\* Each step of a handler keeps the types.
LEMMA AdvanceTyped ==
  ASSUME TypeOK, journal' \in Seq(Event), NEW x \in runs, Advance(x)
  PROVE  TypeOK'
<1> USE DEF durable, memory
<1> DEFINE ClientState == [thread: Thread \cup {None}, request: Key \cup {None}]
<1>0. /\ x \in Run /\ x.request \in Key /\ x.thread \in Thread
      /\ receipts[x.request] \in Receipt /\ receipts[x.request].native \in BOOLEAN
      /\ "completed" \in Outcome /\ "failed" \in Outcome
  BY DEF TypeOK, Run, Receipt, Outcome
<1>1. /\ {"locked", "admitted", "begun", "recorded", "accepted", "submitted"} \subseteq Step
      /\ {"collecting", "ended", "journaled", "written", "noted", "saved", "finished", "blocked"} \subseteq Step
  BY DEF Step
<1>2. ASSUME NEW at \in Step, NEW how \in Outcome,
             runs' = (runs \ {x}) \cup {[x EXCEPT !.at = at, !.result = how]}
      PROVE  runs' \subseteq Run
  <2>1. [x EXCEPT !.at = at, !.result = how] \in Run
    BY <1>0, EndedRun
  <2>2. QED
    BY <1>2, <2>1 DEF TypeOK
<1>3. ASSUME Admit(x) \/ BeginOwn(x) \/ Record(x) PROVE TypeOK'
  <2>1. runs' \subseteq Run /\ client' \in ClientState
    BY <1>1, <1>3, HandlerTyped DEF Admit, BeginOwn, Record
  <2>2. cancelled' \subseteq Instance
    BY <1>3 DEF Admit, BeginOwn, Record, TypeOK
  <2>3. QED
    BY <1>3, <2>1, <2>2 DEF Admit, BeginOwn, Record, TypeOK
<1>4. ASSUME Accept(x) PROVE TypeOK'
  <2>1. runs' \subseteq Run
    BY <1>1, <1>4, GoesTyped DEF Accept, TypeOK
  <2>2. receipts' \in [Key -> Receipt]
    BY <1>0, <1>4, WritesTyped DEF Accept
  <2>3. QED
    BY <1>4, <2>1, <2>2 DEF Accept, TypeOK
<1>5. ASSUME Submit(x) PROVE TypeOK'
  <2>1. runs' \subseteq Run
    BY <1>0, <1>1, <1>2, <1>5, GoesTyped DEF Submit, TypeOK
  <2>2. submitted' \in [Key -> Nat]
    BY <1>0, <1>5 DEF Submit, TypeOK
  <2>3. QED
    BY <1>5, <2>1, <2>2 DEF Submit, TypeOK
<1>6. ASSUME MarkRunning(x) PROVE TypeOK'
  <2>1. runs' \subseteq Run
    BY <1>0, <1>1, <1>2, <1>6, GoesTyped DEF MarkRunning, TypeOK
  <2>2. receipts' \in [Key -> Receipt]
    BY <1>0, <1>6, WritesTyped DEF MarkRunning, TypeOK
  <2>3. QED
    BY <1>6, <2>1, <2>2 DEF MarkRunning, TypeOK
<1>7. ASSUME Collect(x) PROVE TypeOK'
  <2>1. PICK how \in {"completed", "failed"} :
          /\ runs' = (runs \ {x}) \cup {[x EXCEPT !.at = "ended", !.result = how]}
          /\ rollout' = IF how = "completed" THEN [rollout EXCEPT ![x.thread] = @ \cup {x.request}] ELSE rollout
    BY <1>7 DEF Collect
  <2>2. runs' \subseteq Run
    BY <1>0, <1>1, <1>2, <2>1
  <2>3. rollout' \in [Thread -> SUBSET Key]
    BY <1>0, <2>1 DEF TypeOK
  <2>4. QED
    BY <1>7, <2>2, <2>3 DEF Collect, TypeOK
<1>8. ASSUME Conclude(x) PROVE TypeOK'
  <2> DEFINE native == receipts[x.request].native
             result == IF x.result = "completed" THEN "completed" ELSE IF native THEN "interrupted" ELSE "failed"
             proven == native \/ result = "completed"
             y == [x EXCEPT !.at = "journaled", !.native = proven, !.result = result]
  <2>1. result \in Outcome /\ "journaled" \in Step /\ proven \in BOOLEAN
    BY <1>0, <1>1 DEF Outcome
  <2>2. y \in Run
    <3> HIDE DEF result, proven
    <3> QED BY <1>0, <2>1, EndedRun
  <2>3. (runs' = (runs \ {x}) \cup {y} /\ UNCHANGED client) \/ Leave(x)
    BY <1>8 DEF Conclude
  <2>4. runs' \subseteq Run /\ client' \in ClientState
    <3>1. CASE Leave(x)
      BY <3>1, LeaveTyped
    <3>2. CASE runs' = (runs \ {x}) \cup {y} /\ UNCHANGED client
      <4> HIDE DEF y
      <4> QED BY <2>2, <3>2 DEF TypeOK
    <3>3. QED
      BY <2>3, <3>1, <3>2
  <2>5. QED
    BY <1>8, <2>4 DEF Conclude, TypeOK
<1>9. ASSUME WriteReceipt(x) PROVE TypeOK'
  <2>1. runs' \subseteq Run
    BY <1>1, <1>9, GoesTyped DEF WriteReceipt, TypeOK
  <2>2. x.result \in {"none", "accepted", "running"} \cup Settled /\ x.native \in BOOLEAN
    BY <1>0 DEF Run, Settled
  <2>3. receipts' \in [Key -> Receipt]
    BY <1>0, <1>9, <2>2, WritesTyped DEF WriteReceipt
  <2>4. QED
    BY <1>9, <2>1, <2>3 DEF WriteReceipt, TypeOK
<1>10. ASSUME NoteContext(x) PROVE TypeOK'
  <2>1. runs' \subseteq Run /\ client' \in ClientState
    BY <1>1, <1>10, HandlerTyped DEF NoteContext
  <2>2. Revision(journal) \in Nat
    BY RevisionTyped DEF TypeOK
  <2>3. [bound[x.thread] EXCEPT !.context = Revision(journal)] \in Binding
    BY <1>0, <2>2 DEF TypeOK, Binding
  <2>4. bound' \in [Thread -> Binding]
    BY <1>0, <1>10, <2>3 DEF NoteContext, TypeOK
  <2>5. QED
    BY <1>10, <2>1, <2>4 DEF NoteContext, TypeOK
<1>11. ASSUME SaveContext(x) PROVE TypeOK'
  <2>1. runs' \subseteq Run
    BY <1>1, <1>11, GoesTyped DEF SaveContext, TypeOK
  <2>2. QED
    BY <1>11, <2>1 DEF SaveContext, TypeOK
<1>12. ASSUME FinishOwn(x) PROVE TypeOK'
  <2>1. runs' \subseteq Run /\ client' \in ClientState
    BY <1>1, <1>12, HandlerTyped DEF FinishOwn
  <2>2. QED
    BY <1>12, <2>1 DEF FinishOwn, TypeOK
<1>13. ASSUME Block(x) PROVE TypeOK'
  <2>1. runs' \subseteq Run /\ client' \in ClientState
    BY <1>1, <1>13, HandlerTyped DEF Block
  <2>2. [bound[x.thread] EXCEPT !.blocked = x.request] \in Binding
    BY <1>0 DEF TypeOK, Binding
  <2>3. bound' \in [Thread -> Binding]
    BY <1>0, <1>13, <2>2 DEF Block, TypeOK
  <2>4. QED
    BY <1>13, <2>1, <2>3 DEF Block, TypeOK
<1>14. ASSUME SaveBlock(x) PROVE TypeOK'
  <2>1. runs' \subseteq Run /\ client' \in ClientState
    BY <1>14, LeaveTyped DEF SaveBlock
  <2>2. QED
    BY <1>14, <2>1 DEF SaveBlock, TypeOK
<1>15. QED
  BY <1>3, <1>4, <1>5, <1>6, <1>7, <1>8, <1>9, <1>10, <1>11, <1>12, <1>13, <1>14 DEF Advance

----------------------------------------------------------------------------
(* Bindings.                                                               *)

\* Changing what a binding has heard, or what blocks it, leaves its name.
LEMMA NamedChanges ==
  ASSUME TypeOK, Bindings, NEW th, bound[th] # NoBinding
  PROVE  /\ \A c : LET new == [bound EXCEPT ![th].context = c]
                   IN  \A o \in Thread : Named(new[o]) /\ (bound[o].frozen \in Frozen => new[o].frozen \in Frozen)
         /\ \A k : LET new == [bound EXCEPT ![th].blocked = k]
                   IN  \A o \in Thread : Named(new[o]) /\ (bound[o].frozen \in Frozen => new[o].frozen \in Frozen)
BY DEF TypeOK, Bindings, Named, Binding

\* A step that leaves bindings, live segments and openings alone.
LEMMA BindingsStutter ==
  ASSUME Bindings, Live(journal)' => Live(journal),
         UNCHANGED <<phase, bound, live, opening, removing>>,
         state' = state \/ state' = bound,
         \A x \in runs' : Live(journal) => x.frozen \in Frozen
  PROVE  Bindings'
BY DEF Bindings

\* Recovery, deletion and a crash.
LEMMA RecoveryBindings ==
  ASSUME TypeOK, Bindings, Live(journal)' => Live(journal), Recovery \/ Deletion \/ Crash
  PROVE  Bindings'
<1> USE DEF durable, memory
<1>1. ASSUME LoadState PROVE Bindings'
  BY <1>1 DEF LoadState, Bindings
<1>2. ASSUME SaveRecovered \/ Serve \/ EndTurns PROVE Bindings'
  BY <1>2 DEF SaveRecovered, Serve, EndTurns, Bindings
<1>3. ASSUME NEW r \in Key, RecoverReceipt(r) \/ Reconcile(r) PROVE Bindings'
  <2>1. \A th \in Thread : Named(bound'[th]) /\ (bound[th].frozen \in Frozen => bound'[th].frozen \in Frozen)
    <3>1. CASE UNCHANGED bound
      BY <3>1 DEF Bindings
    <3>2. CASE \E th : bound[th] # NoBinding /\ \E k : bound' = [bound EXCEPT ![th].blocked = k]
      BY <3>2, NamedChanges
    <3>3. QED
      BY <1>3, <3>1, <3>2 DEF RecoverReceipt, Reconcile, Proven
  <2>2. QED
    BY <1>3, <2>1 DEF RecoverReceipt, Reconcile, Bindings
<1>4. ASSUME Delete PROVE Bindings'
  <2>1. ~Live(journal)'
    BY <1>4, TombstoneWellFormed DEF Delete, TombstoneRows, Live
  <2>2. QED
    BY <1>4, <2>1 DEF Delete, Bindings
<1>5. ASSUME RemoveThreads \/ RemoveReceipts PROVE Bindings'
  BY <1>5 DEF RemoveThreads, RemoveReceipts, Bindings
<1>6. ASSUME RemoveBindings PROVE Bindings'
  <2>1. ~Live(journal)'
    BY <1>6 DEF RemoveBindings, Bindings
  <2>2. \A th \in Thread : Named(bound'[th])
    BY <1>6 DEF RemoveBindings, Bindings, Named
  <2>3. QED
    BY <1>6, <2>1, <2>2 DEF RemoveBindings, Bindings, NotRemoving
<1>7. ASSUME Crash PROVE Bindings'
  BY <1>7 DEF Crash, Bindings, NoBindings, NotOpening, NotRemoving, Named
<1>8. QED
  BY <1>1, <1>2, <1>3, <1>4, <1>5, <1>6, <1>7 DEF Recovery, Deletion

\* What the client asks for, and session/cancel.
LEMMA RequestsBindings ==
  ASSUME TypeOK, Bindings, Live(journal)' => Live(journal), Requests \/ Stopping
  PROVE  Bindings'
<1> USE DEF durable, memory
<1>1. ASSUME Stopping PROVE Bindings'
  BY <1>1, BindingsStutter
     DEF Stopping, StopWaited, StopTimesOut, StopFinish, StopTurn, StopThread, Bindings
<1>2. ASSUME StartKernel PROVE Bindings'
  BY <1>2 DEF StartKernel, TypeOK, Bindings
<1>3. ASSUME Opened PROVE Bindings'
  <2> DEFINE th == opening.thread
             n == CHOOSE n \in FreeInstances(th) : \A m \in FreeInstances(th) : n <= m
  <2>1. /\ live' = [live EXCEPT ![th] = n] /\ bound' = [bound EXCEPT ![th] = opening.binding]
        /\ state' = bound' /\ opening' = NotOpening /\ Up
        /\ UNCHANGED <<phase, journal, runs, removing>>
    BY <1>3 DEF Opened
  <2>2. \A o \in Thread : Named(bound'[o])
    BY <2>1, ThreadsAreNames DEF TypeOK, Bindings, Named
  <2>3. Live(journal) => \A o \in Thread : live'[o] # 0 => bound'[o].frozen \in Frozen
    <3> HIDE DEF n
    <3> QED BY <2>1, ThreadsAreNames DEF TypeOK, Bindings
  <2>4. QED
    BY <2>1, <2>2, <2>3 DEF Bindings, NotOpening, Up
<1>4. ASSUME OpenFails PROVE Bindings'
  BY <1>4 DEF OpenFails, Bindings, NotOpening
<1>5. ASSUME GiveUp PROVE Bindings'
  BY <1>5, BindingsStutter DEF GiveUp, Bindings
<1>6. ASSUME NEW f \in Frozen, NEW t \in Turn \cup {None}, Open(f, t) PROVE Bindings'
  <2>1. opening'.thread # None => opening'.binding.frozen \in Frozen
    BY <1>6 DEF Open, Bindings, Named, Fitting, Unused
  <2>2. QED
    BY <1>6, <2>1 DEF Open, Bindings
<1>7. ASSUME NEW th \in Thread, Close(th) \/ Cancel(th) PROVE Bindings'
  BY <1>7 DEF Close, Cancel, TypeOK, Bindings
<1>8. ASSUME NEW t \in Turn, \/ \E role \in Role : BeginTurn(t, role)
                             \/ \E status \in {"completed", "failed"} : FinishTurn(t, status)
      PROVE  Bindings'
  BY <1>8, BindingsStutter DEF BeginTurn, FinishTurn, Bindings
<1>9. ASSUME NEW t \in Turn, NEW r \in Key, Start(t, r) PROVE Bindings'
  <2>1. \A x \in runs' : Live(journal) => x.frozen \in Frozen
    BY <1>9 DEF Start, TypeOK, Bindings
  <2>2. QED
    BY <1>9, <2>1, BindingsStutter DEF Start
<1>10. QED
  BY <1>1, <1>2, <1>3, <1>4, <1>5, <1>6, <1>7, <1>8, <1>9 DEF Requests

\* y is x, further on.
Follows(x, y) == y.request = x.request /\ y.frozen = x.frozen /\ y.thread = x.thread /\ y.inst = x.inst

\* The run of a handler that went on.
LEMMA MovedFields ==
  ASSUME NEW x \in Run, NEW at
  PROVE  Follows(x, [x EXCEPT !.at = at]) /\ [x EXCEPT !.at = at].at = at
BY DEF Follows, Run

\* The run of a handler that ended.
LEMMA EndedFields ==
  ASSUME NEW x \in Run, NEW at, NEW how
  PROVE  /\ Follows(x, [x EXCEPT !.at = at, !.result = how])
         /\ [x EXCEPT !.at = at, !.result = how].at = at
BY DEF Follows, Run

\* The run of a handler whose outcome is in the journal.
LEMMA ConcludedFields ==
  ASSUME NEW x \in Run, NEW at, NEW how, NEW native
  PROVE  /\ Follows(x, [x EXCEPT !.at = at, !.native = native, !.result = how])
         /\ [x EXCEPT !.at = at, !.native = native, !.result = how].at = at
         /\ [x EXCEPT !.at = at, !.native = native, !.result = how].result = how
BY DEF Follows, Run

\* A handler leaves, or goes on as the same handler.
LEMMA AdvanceRuns ==
  ASSUME TypeOK, NEW x \in runs, Advance(x)
  PROVE  Leave(x) \/ \E y : Follows(x, y) /\ runs' = (runs \ {x}) \cup {y}
<1>0. x \in Run
  BY DEF TypeOK
<1>1. ASSUME NEW at, Goes(x, at)
      PROVE  \E y : Follows(x, y) /\ runs' = (runs \ {x}) \cup {y}
  BY <1>0, <1>1, MovedFields DEF Goes
<1>2. ASSUME NEW at, NEW how, runs' = (runs \ {x}) \cup {[x EXCEPT !.at = at, !.result = how]}
      PROVE  \E y : Follows(x, y) /\ runs' = (runs \ {x}) \cup {y}
  BY <1>0, <1>2, EndedFields
<1>3. ASSUME NEW at, NEW how, NEW native,
             runs' = (runs \ {x}) \cup {[x EXCEPT !.at = at, !.native = native, !.result = how]}
      PROVE  \E y : Follows(x, y) /\ runs' = (runs \ {x}) \cup {y}
  BY <1>0, <1>3, ConcludedFields
<1>4. CASE Admit(x) \/ BeginOwn(x) \/ Record(x)
  BY <1>1, <1>4 DEF Admit, BeginOwn, Record
<1>5. CASE Accept(x) \/ Submit(x) \/ MarkRunning(x) \/ Collect(x)
  BY <1>1, <1>2, <1>5 DEF Accept, Submit, MarkRunning, Collect
<1>6. CASE Conclude(x)
  BY <1>3, <1>6 DEF Conclude
<1>7. CASE WriteReceipt(x) \/ NoteContext(x) \/ SaveContext(x) \/ FinishOwn(x) \/ Block(x) \/ SaveBlock(x)
  BY <1>1, <1>7 DEF WriteReceipt, NoteContext, SaveContext, FinishOwn, Block, SaveBlock
<1>8. QED
  BY <1>4, <1>5, <1>6, <1>7 DEF Advance

\* Each step of a handler keeps the bindings.
LEMMA AdvanceBindings ==
  ASSUME TypeOK, Bindings, Live(journal)' => Live(journal), NEW x \in runs, Advance(x)
  PROVE  Bindings'
<1> USE DEF durable, memory
<1>1. \A z \in runs' : Live(journal) => z.frozen \in Frozen
  BY AdvanceRuns DEF Leave, Follows, Bindings
<1>2. UNCHANGED <<phase, live, opening, removing>>
  BY DEF Advance, Admit, BeginOwn, Record, Accept, Submit, MarkRunning, Collect, Conclude, WriteReceipt,
         NoteContext, SaveContext, FinishOwn, Block, SaveBlock
<1>3. CASE UNCHANGED bound
  <2>1. state' = state \/ state' = bound
    BY DEF Advance, Admit, BeginOwn, Record, Accept, Submit, MarkRunning, Collect, Conclude, WriteReceipt,
           NoteContext, SaveContext, FinishOwn, Block, SaveBlock
  <2>2. QED
    BY <1>1, <1>2, <1>3, <2>1, BindingsStutter
<1>4. CASE ~UNCHANGED bound
  <2>1. NoteContext(x) \/ Block(x)
    BY <1>4 DEF Advance, Admit, BeginOwn, Record, Accept, Submit, MarkRunning, Collect, Conclude,
                WriteReceipt, SaveContext, FinishOwn, SaveBlock
  <2>2. /\ UNCHANGED state
        /\ bound[x.thread] # NoBinding
        /\ \/ \E c : bound' = [bound EXCEPT ![x.thread].context = c]
           \/ \E k : bound' = [bound EXCEPT ![x.thread].blocked = k]
    BY <1>4, <2>1 DEF NoteContext, Block
  <2>3. \A o \in Thread : Named(bound'[o]) /\ (bound[o].frozen \in Frozen => bound'[o].frozen \in Frozen)
    BY <2>2, NamedChanges
  <2>4. QED
    BY <1>1, <1>2, <2>2, <2>3 DEF Bindings
<1>5. QED
  BY <1>3, <1>4

----------------------------------------------------------------------------
(* Type correctness.                                                       *)

\* The initial state has the types, and no binding.
LEMMA TypedInit == Init => Typed
<1> SUFFICES ASSUME Init PROVE Typed
  OBVIOUS
<1>1. NoRows \in Seq(Event) /\ CreatedDraft("local") \in Drafts
  BY BuiltDrafts DEF NoRows
<1>2. journal \in Seq(Event)
  BY <1>1, ExtendedRows DEF Init
<1>3. NoBinding \in Binding /\ NoReceipt \in Receipt
  BY DEF NoBinding, Binding, NoReceipt, Receipt
<1>4. TypeOK
  BY <1>2, <1>3, ThreadBounds DEF Init, TypeOK, NoBindings, NotOpening, NotStopping, NotRemoving, Idle
<1>5. Bindings
  BY DEF Init, Bindings, Named, NoBindings, NotOpening, NotRemoving
<1>6. QED
  BY <1>4, <1>5 DEF Typed

\* Every step keeps types and bindings.
LEMMA TypedNext == Typed /\ [Next]_vars => Typed'
<1> SUFFICES ASSUME Typed, [Next]_vars PROVE TypeOK' /\ Bindings'
  BY DEF Typed
<1>1. TypeOK /\ Bindings /\ journal' \in Seq(Event) /\ (Live(journal)' => Live(journal))
  BY JournalKept DEF Typed
<1>2. CASE UNCHANGED vars
  BY <1>1, <1>2 DEF vars, durable, memory, TypeOK, Bindings
<1>3. CASE Recovery
  BY <1>1, <1>3, RecoveryTyped, RecoveryBindings
<1>4. CASE Crash \/ Deletion
  BY <1>1, <1>4, DeletionTyped, RecoveryBindings
<1>5. CASE Stopping
  BY <1>1, <1>5, StoppingTyped, RequestsBindings
<1>6. CASE Requests
  BY <1>1, <1>6, RequestsTyped, RequestsBindings
<1>7. CASE \E x \in runs : Advance(x)
  BY <1>1, <1>7, AdvanceTyped, AdvanceBindings
<1>8. QED
  BY <1>2, <1>3, <1>4, <1>5, <1>6, <1>7 DEF Next

\* The state, the bindings and the handlers keep their types, and what may be written to a
\* live journal is known.
THEOREM TypesAreKept == Spec => []Typed
<1>1. Init => Typed
  BY TypedInit
<1>2. Typed /\ [Next]_vars => Typed'
  BY TypedNext
<1>3. QED
  BY <1>1, <1>2, PTL DEF Spec

\* Requests, receipts, bindings and handlers are well-typed in every reachable state.
THEOREM ThreadsTypeCorrect == Spec => []TypeOK
<1>1. Typed => TypeOK
  BY DEF Typed
<1>2. QED
  BY <1>1, TypesAreKept, PTL

----------------------------------------------------------------------------
(* No request is replayed.                                                 *)

OneHandler == \A x, y \in runs : x.request = y.request => x = y

\* What a handler knows of its request: between looking for the receipt and the input row
\* nobody else gave it to the kernel, unless the conversation was deleted, and then there
\* will be no input row.
Attempt(x) ==
  /\ x.at \in {"recorded", "accepted"} => submitted[x.request] = 0
  /\ Live(journal) =>
       /\ x.at \in {"admitted", "begun"} => submitted[x.request] = 0
       /\ x.at \in {"recorded", "accepted"} => HasId(journal, <<"input", x.request>>)
       /\ x.at = "accepted" => receipts[x.request].status # "none"
  /\ x.at = "journaled" => x.result # "none"

\* What is known of a request the kernel has.
Given(r) ==
  /\ submitted[r] <= 1
  /\ submitted[r] > 0 /\ Live(journal) =>
       HasId(journal, <<"input", r>>) /\ receipts[r].status # "none"

\* The strengthening of NoReplay and SubmittedIsRecorded.
Attempts == /\ OneHandler
            /\ \A x \in runs : Attempt(x)
            /\ \A r \in Key : Given(r)

\* A step that does not give r to the kernel and takes no receipt of a conversation away.
Spares(r) ==
  /\ submitted'[r] = submitted[r]
  /\ Live(journal)' /\ receipts[r].status # "none" => receipts'[r].status # "none"

RowsStay == Live(journal)' => Live(journal) /\ \A id : HasId(journal, id) => HasId(journal, id)'

\* Such a step leaves what is known of r.
LEMMA SparedIsKept ==
  ASSUME RowsStay, NEW r, Spares(r)
  PROVE  /\ Given(r) => Given(r)'
         /\ \A x : x.request = r /\ Attempt(x) => Attempt(x)'
BY DEF RowsStay, Spares, Given, Attempt

\* A step that spares all requests and starts no handler.
LEMMA QuietStep ==
  ASSUME Typed, Attempts, RowsStay, \A r \in Key : Spares(r), runs' \subseteq runs
  PROVE  Attempts'
<1>1. \A x \in runs : x.request \in Key
  BY DEF Typed, TypeOK, Run
<1>2. \A r \in Key : Given(r)'
  BY SparedIsKept DEF Attempts
<1>3. \A x \in runs : Attempt(x)'
  BY <1>1, SparedIsKept DEF Attempts
<1>4. QED
  BY <1>2, <1>3 DEF Attempts, OneHandler

\* A handler's step that keeps what is known of its request.
LEMMA HandlerStep ==
  ASSUME Typed, Attempts, RowsStay, NEW x \in runs, NEW y, Follows(x, y),
         runs' = (runs \ {x}) \cup {y}, \A r \in Key \ {x.request} : Spares(r),
         Given(x.request)', Attempt(y)'
  PROVE  Attempts'
<1>1. \A z \in runs : z.request \in Key
  BY DEF Typed, TypeOK, Run
<1>2. \A r \in Key : Given(r)'
  BY SparedIsKept DEF Attempts
<1>3. ASSUME NEW z \in runs \ {x} PROVE z.request # x.request /\ Attempt(z)'
  <2>1. z.request # x.request
    BY DEF Attempts, OneHandler
  <2>2. QED
    BY <1>1, <2>1, SparedIsKept DEF Attempts
<1>4. OneHandler'
  BY <1>3 DEF Attempts, OneHandler, Follows
<1>5. QED
  BY <1>2, <1>3, <1>4 DEF Attempts

\* Recovery, deletion, stopping and a crash give no request to the kernel, and take receipts
\* of deleted conversations only.
LEMMA SurroundingsAreQuiet ==
  ASSUME Typed, Attempts, RowsStay, Recovery \/ Deletion \/ Stopping \/ Crash
  PROVE  Attempts'
<1> USE DEF durable, memory
<1>1. UNCHANGED submitted /\ runs' \subseteq runs
  BY DEF Recovery, LoadState, SaveRecovered, EndTurns, Serve, RecoverReceipt, Reconcile, Deletion,
         Delete, RemoveThreads, RemoveReceipts, RemoveBindings, Stopping, StopWaited, StopTimesOut,
         StopFinish, StopTurn, StopThread, Crash
<1>2. CASE UNCHANGED receipts
  BY <1>1, <1>2, QuietStep DEF Spares
<1>3. CASE \E q \in Key : RecoverReceipt(q) \/ Reconcile(q)
  <2>1. \A r \in Key : receipts[r].status # "none" => receipts'[r].status # "none"
    BY <1>3 DEF RecoverReceipt, Reconcile, Typed, TypeOK, Receipt
  <2>2. QED
    BY <1>1, <2>1, QuietStep DEF Spares
<1>4. CASE RemoveReceipts
  <2>1. ~Live(journal)'
    BY <1>4 DEF RemoveReceipts, Typed, Bindings
  <2>2. QED
    BY <1>1, <2>1, QuietStep DEF Spares
<1>5. QED
  BY <1>2, <1>3, <1>4
     DEF Recovery, LoadState, SaveRecovered, EndTurns, Serve, Deletion, Delete, RemoveThreads,
         RemoveBindings, Stopping, StopWaited, StopTimesOut, StopFinish, StopTurn, StopThread, Crash

\* A request starts with a handler that knows nothing yet, the only one of its request.
LEMMA RequestsAreQuiet ==
  ASSUME Typed, Attempts, RowsStay, Requests
  PROVE  Attempts'
<1> USE DEF durable, memory
<1>1. UNCHANGED <<submitted, receipts>>
  BY DEF Requests, StartKernel, Opened, OpenFails, GiveUp, Open, Close, Cancel, BeginTurn, FinishTurn, Start
<1>2. \A r : Spares(r)
  BY <1>1 DEF Spares
<1>3. CASE runs' \subseteq runs
  BY <1>2, <1>3, QuietStep
<1>4. CASE \E t \in Turn, r \in Key : Start(t, r)
  <2>1. PICK t \in Turn, r \in Key : Start(t, r)
    BY <1>4
  <2>2. CASE UNCHANGED runs
    BY <1>3, <2>2
  <2>3. CASE ~UNCHANGED runs
    <3> DEFINE th == client.thread
               x == [thread |-> th, inst |-> live[th], frozen |-> bound[th].frozen, request |-> r,
                     turn |-> t, at |-> "locked", native |-> FALSE, result |-> "none"]
    <3>1. runs' = runs \cup {x} /\ x.request = r /\ x.at = "locked"
      BY <2>1, <2>3 DEF Start
    <3>2. \A y \in runs : y.request # r
      BY <2>1 DEF Start
    <3> HIDE DEF x
    <3>3. OneHandler'
      BY <3>1, <3>2 DEF Attempts, OneHandler
    <3>4. \A y \in {x} : Attempt(y)'
      BY <3>1 DEF Attempt
    <3>5. \A y \in runs : Attempt(y)'
      BY <1>2, SparedIsKept DEF Attempts
    <3>6. \A q \in Key : Given(q)'
      BY <1>2, SparedIsKept DEF Attempts
    <3>7. QED
      BY <3>1, <3>3, <3>4, <3>5, <3>6 DEF Attempts
  <2>4. QED
    BY <2>2, <2>3
<1>5. QED
  BY <1>3, <1>4 DEF Requests, StartKernel, Opened, OpenFails, GiveUp, Open, Close, Cancel, BeginTurn, FinishTurn

\* An input row that was put is there.
LEMMA PutIsThere ==
  ASSUME Typed, NEW draft \in Drafts, Puts(draft)
  PROVE  HasId(journal, draft.id)'
<1>1. journal \in Seq(Event)
  BY DEF Typed, TypeOK
<1>2. CASE HasId(journal, draft.id)
  BY <1>2 DEF Puts
<1>3. CASE ~HasId(journal, draft.id)
  <2>1. journal' = Extended(journal, draft)
    BY <1>3 DEF Puts, Appends
  <2>2. /\ DOMAIN journal' = 1 .. Len(journal) + 1 /\ Len(journal) \in Nat
        /\ journal'[Len(journal) + 1] = Numbered(draft, Len(journal) + 1)
    BY <1>1, <2>1, ExtendedRows
  <2>3. journal'[Len(journal) + 1].id = draft.id
    BY <2>2, NumberedFields
  <2>4. QED
    BY <2>2, <2>3 DEF HasId
<1>4. QED
  BY <1>2, <1>3

\* Each step of a handler: the receipt is looked for before the input is put, the input is
\* there before the receipt is written, the receipt is there before the kernel is asked.
LEMMA AttemptsAdvance ==
  ASSUME Typed, Attempts, RowsStay, NEW x \in runs, Advance(x)
  PROVE  Attempts'
<1> DEFINE r == x.request
<1> USE DEF durable, memory
<1>0. /\ x \in Run /\ r \in Key /\ x.turn \in Turn /\ Attempt(x) /\ Given(r)
      /\ submitted \in [Key -> Nat] /\ receipts \in [Key -> Receipt]
  BY DEF Typed, TypeOK, Run, Attempts
<1>1. ASSUME Leave(x), UNCHANGED <<submitted, receipts>> PROVE Attempts'
  BY <1>1, QuietStep DEF Leave, Spares
<1>2. ASSUME NEW at \in Step, Goes(x, at)
      PROVE  \E y : Follows(x, y) /\ runs' = (runs \ {x}) \cup {y} /\ y.at = at
  <2> DEFINE y == [x EXCEPT !.at = at]
  <2>1. Follows(x, y) /\ y.at = at /\ runs' = (runs \ {x}) \cup {y}
    BY <1>0, <1>2, MovedFields DEF Goes
  <2>2. QED
    BY <2>1
<1>3. ASSUME NEW at \in Step, NEW how \in Outcome,
             runs' = (runs \ {x}) \cup {[x EXCEPT !.at = at, !.result = how]}
      PROVE  \E y : Follows(x, y) /\ runs' = (runs \ {x}) \cup {y} /\ y.at = at
  <2> DEFINE y == [x EXCEPT !.at = at, !.result = how]
  <2>1. Follows(x, y) /\ y.at = at /\ runs' = (runs \ {x}) \cup {y}
    BY <1>0, <1>3, EndedFields
  <2>2. QED
    BY <2>1
<1>4. /\ {"locked", "admitted", "begun", "recorded", "accepted", "submitted"} \subseteq Step
      /\ {"collecting", "ended", "journaled", "written", "noted", "saved", "finished", "blocked"} \subseteq Step
      /\ {"completed", "failed", "interrupted"} \subseteq Outcome
  BY DEF Step, Outcome
<1>5. ASSUME UNCHANGED <<submitted, receipts>> PROVE (\A q : Spares(q)) /\ Given(r)'
  <2>1. \A q : Spares(q)
    BY <1>5 DEF Spares
  <2>2. QED
    BY <1>0, <2>1, SparedIsKept
<1>6. CASE Admit(x)
  <2>1. UNCHANGED <<submitted, receipts, journal>>
    BY <1>6 DEF Admit
  <2>2. CASE Leave(x)
    BY <1>1, <2>1, <2>2
  <2>3. CASE ~Leave(x)
    <3>1. Goes(x, "admitted") /\ receipts[r].status = "none"
      BY <1>6, <2>3 DEF Admit
    <3>2. PICK y : Follows(x, y) /\ runs' = (runs \ {x}) \cup {y} /\ y.at = "admitted"
      BY <1>2, <1>4, <3>1
    <3>3. Live(journal) => submitted[r] = 0
      BY <1>0, <3>1 DEF Given
    <3>4. Attempt(y)'
      BY <2>1, <3>2, <3>3 DEF Attempt, Follows
    <3>5. QED
      BY <1>5, <2>1, <3>2, <3>4, HandlerStep
  <2>4. QED
    BY <2>2, <2>3
<1>7. CASE BeginOwn(x)
  <2>1. UNCHANGED <<submitted, receipts>>
    BY <1>7 DEF BeginOwn
  <2>2. CASE Leave(x)
    BY <1>1, <2>1, <2>2
  <2>3. CASE ~Leave(x)
    <3>1. Goes(x, "begun") /\ x.at = "admitted"
      BY <1>7, <2>3 DEF BeginOwn
    <3>2. PICK y : Follows(x, y) /\ runs' = (runs \ {x}) \cup {y} /\ y.at = "begun"
      BY <1>2, <1>4, <3>1
    <3>3. Live(journal)' => submitted[r] = 0
      BY <1>0, <3>1 DEF Attempt, RowsStay
    <3>4. Attempt(y)'
      BY <2>1, <3>2, <3>3 DEF Attempt, Follows
    <3>5. QED
      BY <1>5, <2>1, <3>2, <3>4, HandlerStep
  <2>4. QED
    BY <2>2, <2>3
<1>8. CASE Record(x)
  <2>1. UNCHANGED <<submitted, receipts>>
    BY <1>8 DEF Record
  <2>2. CASE Leave(x)
    BY <1>1, <2>1, <2>2
  <2>3. CASE ~Leave(x)
    <3>1. /\ Goes(x, "recorded") /\ x.at \in {"admitted", "begun"}
          /\ Live(journal) /\ Puts(InputDraft(x.turn, r))
      BY <1>8, <2>3 DEF Record, Takes
    <3>2. PICK y : Follows(x, y) /\ runs' = (runs \ {x}) \cup {y} /\ y.at = "recorded"
      BY <1>2, <1>4, <3>1
    <3>3. submitted[r] = 0
      BY <1>0, <3>1 DEF Attempt
    <3>4. HasId(journal, <<"input", r>>)'
      <4>1. InputDraft(x.turn, r) \in Drafts /\ InputDraft(x.turn, r).id = <<"input", r>>
        BY <1>0, BuiltDrafts DEF InputDraft, Draft
      <4>2. QED
        BY <3>1, <4>1, PutIsThere
    <3>5. Attempt(y)'
      BY <2>1, <3>2, <3>3, <3>4 DEF Attempt, Follows
    <3>6. QED
      BY <1>5, <2>1, <3>2, <3>5, HandlerStep
  <2>4. QED
    BY <2>2, <2>3
<1>9. CASE Accept(x)
  <2>1. Goes(x, "accepted") /\ Writes(x, "accepted", FALSE) /\ UNCHANGED <<submitted, journal>> /\ x.at = "recorded"
    BY <1>9 DEF Accept
  <2>2. PICK y : Follows(x, y) /\ runs' = (runs \ {x}) \cup {y} /\ y.at = "accepted"
    BY <1>2, <1>4, <2>1
  <2>3. receipts'[r].status # "none" /\ \A q \in Key \ {r} : receipts'[q] = receipts[q]
    BY <1>0, <2>1 DEF Writes
  <2>4. \A q \in Key : Spares(q)
    BY <2>1, <2>3 DEF Spares
  <2>5. Given(r)'
    BY <1>0, <2>4, SparedIsKept
  <2>6. Attempt(y)'
    BY <1>0, <2>1, <2>2, <2>3 DEF Attempt, Follows
  <2>7. QED
    BY <2>2, <2>4, <2>5, <2>6, HandlerStep
<1>10. CASE Submit(x)
  <2>1. UNCHANGED <<journal, receipts>> /\ x.at = "accepted"
    BY <1>10 DEF Submit
  <2>2. PICK y : Follows(x, y) /\ runs' = (runs \ {x}) \cup {y} /\ y.at \in {"submitted", "ended"}
    BY <1>2, <1>3, <1>4, <1>10 DEF Submit
  <2>3. submitted' = submitted \/ submitted' = [submitted EXCEPT ![r] = @ + 1]
    BY <1>10 DEF Submit
  <2>4. \A q \in Key \ {r} : Spares(q)
    BY <1>0, <2>1, <2>3 DEF Spares
  <2>5. submitted[r] = 0 /\ (Live(journal) => HasId(journal, <<"input", r>>) /\ receipts[r].status # "none")
    BY <1>0, <2>1 DEF Attempt
  <2>6. Given(r)'
    BY <1>0, <2>1, <2>3, <2>5 DEF Given
  <2>7. Attempt(y)'
    BY <2>2 DEF Attempt
  <2>8. QED
    BY <2>2, <2>4, <2>6, <2>7, HandlerStep
<1>11. CASE MarkRunning(x)
  <2>1. UNCHANGED <<submitted, journal>>
    BY <1>11 DEF MarkRunning
  <2>2. PICK y : Follows(x, y) /\ runs' = (runs \ {x}) \cup {y} /\ y.at \in {"collecting", "ended"}
    BY <1>2, <1>3, <1>4, <1>11 DEF MarkRunning
  <2>3. UNCHANGED receipts \/ Writes(x, "running", TRUE)
    BY <1>11 DEF MarkRunning
  <2>4. \A q \in Key : Spares(q)
    BY <1>0, <2>1, <2>3 DEF Spares, Writes
  <2>5. Given(r)' /\ Attempt(y)'
    BY <1>0, <2>2, <2>4, SparedIsKept DEF Attempt
  <2>6. QED
    BY <2>2, <2>4, <2>5, HandlerStep
<1>12. CASE Collect(x)
  <2>1. UNCHANGED <<submitted, receipts>>
    BY <1>12 DEF Collect
  <2>2. PICK y : Follows(x, y) /\ runs' = (runs \ {x}) \cup {y} /\ y.at = "ended"
    BY <1>3, <1>4, <1>12 DEF Collect
  <2>3. Attempt(y)'
    BY <2>2 DEF Attempt
  <2>4. QED
    BY <1>5, <2>1, <2>2, <2>3, HandlerStep
<1>13. CASE Conclude(x)
  <2>1. UNCHANGED <<submitted, receipts>>
    BY <1>13 DEF Conclude
  <2>2. CASE Leave(x)
    BY <1>1, <2>1, <2>2
  <2>3. CASE ~Leave(x)
    <3>1. PICK y : Follows(x, y) /\ runs' = (runs \ {x}) \cup {y} /\ y.at = "journaled" /\ y.result # "none"
      <4> DEFINE native == receipts[r].native
                 result == IF x.result = "completed" THEN "completed"
                           ELSE IF native THEN "interrupted" ELSE "failed"
                 proven == native \/ result = "completed"
                 y == [x EXCEPT !.at = "journaled", !.native = proven, !.result = result]
      <4>1. runs' = (runs \ {x}) \cup {y}
        BY <1>13, <2>3 DEF Conclude
      <4>2. result # "none"
        OBVIOUS
      <4>3. Follows(x, y) /\ y.at = "journaled" /\ y.result = result
        <5> HIDE DEF result, proven
        <5> QED BY <1>0 DEF Follows, Run
      <4>4. QED
        <5> HIDE DEF y, result
        <5> QED BY <4>1, <4>2, <4>3
    <3>2. Attempt(y)'
      BY <3>1 DEF Attempt
    <3>3. QED
      BY <1>5, <2>1, <3>1, <3>2, HandlerStep
  <2>4. QED
    BY <2>2, <2>3
<1>14. CASE WriteReceipt(x)
  <2>1. /\ UNCHANGED <<submitted, journal>> /\ Goes(x, "written")
        /\ Writes(x, x.result, x.native) /\ x.at = "journaled"
    BY <1>14 DEF WriteReceipt
  <2>2. PICK y : Follows(x, y) /\ runs' = (runs \ {x}) \cup {y} /\ y.at = "written"
    BY <1>2, <1>4, <2>1
  <2>3. x.result # "none"
    BY <1>0, <2>1 DEF Attempt
  <2>4. \A q \in Key : Spares(q)
    BY <1>0, <2>1, <2>3 DEF Spares, Writes
  <2>5. Given(r)' /\ Attempt(y)'
    BY <1>0, <2>2, <2>4, SparedIsKept DEF Attempt
  <2>6. QED
    BY <2>2, <2>4, <2>5, HandlerStep
<1>15. CASE NoteContext(x) \/ SaveContext(x) \/ FinishOwn(x) \/ Block(x) \/ SaveBlock(x)
  <2>1. UNCHANGED <<submitted, receipts>>
    BY <1>15 DEF NoteContext, SaveContext, FinishOwn, Block, SaveBlock
  <2>2. CASE Leave(x)
    BY <1>1, <2>1, <2>2
  <2>3. CASE ~Leave(x)
    <3>1. PICK at \in {"noted", "saved", "finished", "blocked"} : Goes(x, at)
      BY <1>15, <2>3 DEF NoteContext, SaveContext, FinishOwn, Block, SaveBlock
    <3>2. PICK y : Follows(x, y) /\ runs' = (runs \ {x}) \cup {y} /\ y.at = at
      BY <1>2, <1>4, <3>1
    <3>3. Attempt(y)'
      BY <3>1, <3>2 DEF Attempt
    <3>4. QED
      BY <1>5, <2>1, <3>2, <3>3, HandlerStep
  <2>4. QED
    BY <2>2, <2>3
<1>16. QED
  BY <1>6, <1>7, <1>8, <1>9, <1>10, <1>11, <1>12, <1>13, <1>14, <1>15 DEF Advance

\* The strengthened invariant holds in every reachable state.
THEOREM AttemptsAreKept == Spec => []Attempts
<1>1. Init => Attempts
  BY DEF Init, Attempts, OneHandler, Given
<1>2. Typed /\ Attempts /\ [Next]_vars => Attempts'
  <2> SUFFICES ASSUME Typed, Attempts, [Next]_vars PROVE Attempts'
    OBVIOUS
  <2>1. RowsStay
    BY JournalKept DEF RowsStay
  <2>2. CASE UNCHANGED vars
    BY <2>1, <2>2, QuietStep DEF vars, durable, memory, Spares
  <2>3. QED
    BY <2>1, <2>2, SurroundingsAreQuiet, RequestsAreQuiet, AttemptsAdvance DEF Next
<1>3. QED
  BY <1>1, <1>2, TypesAreKept, PTL DEF Spec

\* No request is given to the kernel twice: turn/start looks for the receipt first, and a
\* receipt outlives every crash, cancellation and retry.
THEOREM RequestsAreNotReplayed == Spec => []NoReplay
<1>1. Attempts => NoReplay
  BY DEF Attempts, Given, NoReplay
<1>2. QED
  BY <1>1, AttemptsAreKept, PTL

\* What the kernel was given has its input row and its receipt on disk until the
\* conversation is deleted.
THEOREM SubmittedStaysRecorded == Spec => []SubmittedIsRecorded
<1>1. Attempts => SubmittedIsRecorded
  BY DEF Attempts, Given, SubmittedIsRecorded
<1>2. QED
  BY <1>1, AttemptsAreKept, PTL

----------------------------------------------------------------------------
(* Receipts say what the journal says.                                     *)

\* What a segment has in memory is what it was saved as: receipts and handlers belong to
\* segments that recovery will find again.
Home(th) == th \in Thread /\ state[th] # NoBinding

Homes ==
  /\ phase # "up" => runs = {}
  /\ Live(journal) =>
       /\ \A th \in Thread : phase # "down" /\ state[th] # NoBinding => bound[th] # NoBinding
       /\ \A th \in Thread : live[th] # 0 => Home(th)
       /\ \A x \in runs : Home(x.thread)
       /\ \A r \in Key : receipts[r].status # "none" => Home(receipts[r].thread)

\* A binding is empty or names what it is bound to, never both.
LEMMA BoundIsNamed == Typed => \A th \in Thread : bound[th] # NoBinding <=> bound[th].frozen \in Frozen
BY ThreadsAreNames DEF Typed, Bindings, Named, NoBinding

\* A step that forgets no binding, and gives receipts and runs to segments that have one.
LEMMA HomesKept ==
  ASSUME Typed, Homes, Live(journal)' => Live(journal), phase' # "up" => runs' = {},
         phase = "down" <=> phase' = "down", state' = state \/ (state' = bound' /\ phase # "down"),
         \A th \in Thread : Live(journal)' /\ bound[th] # NoBinding => bound'[th] # NoBinding,
         \A th \in Thread : Live(journal)' /\ live'[th] # 0 => live[th] # 0 \/ state'[th] # NoBinding,
         \A x \in runs' : Live(journal)' =>
           x.thread \in Thread /\ (live[x.thread] # 0 \/ \E y \in runs : y.thread = x.thread),
         \A r \in Key : Live(journal)' /\ receipts'[r].status # "none" =>
           \/ receipts[r].status # "none" /\ receipts'[r].thread = receipts[r].thread
           \/ \E y \in runs : receipts'[r].thread = y.thread
  PROVE  Homes'
<1>1. SUFFICES ASSUME Live(journal)', Live(journal)
               PROVE  /\ \A th \in Thread : phase' # "down" /\ state'[th] # NoBinding => bound'[th] # NoBinding
                      /\ \A th \in Thread : live'[th] # 0 => Home(th)'
                      /\ \A x \in runs' : Home(x.thread)'
                      /\ \A r \in Key : receipts'[r].status # "none" => Home(receipts[r].thread)'
  BY DEF Homes
<1>2. \A th \in Thread : state[th] # NoBinding => state'[th] # NoBinding
  BY <1>1 DEF Homes
<1>3. \A th \in Thread : phase' # "down" /\ state'[th] # NoBinding => bound'[th] # NoBinding
  BY <1>1 DEF Homes
<1>4. \A th \in Thread : live'[th] # 0 => state'[th] # NoBinding
  BY <1>1, <1>2 DEF Homes, Home
<1>5. \A x \in runs' : x.thread \in Thread /\ state'[x.thread] # NoBinding
  BY <1>1, <1>2 DEF Homes, Home
<1>6. \A r \in Key : receipts'[r].status # "none" =>
        receipts'[r].thread \in Thread /\ state'[receipts'[r].thread] # NoBinding
  BY <1>1, <1>2 DEF Homes, Home
<1>7. QED
  BY <1>3, <1>4, <1>5, <1>6 DEF Home

\* Recovery loads the segments before it looks at receipts; deletion forgets them only after
\* the tombstone.
LEMMA SurroundingsKeepHomes ==
  ASSUME Typed, Typed', Homes, Live(journal)' => Live(journal), Recovery \/ Deletion \/ Stopping \/ Crash
  PROVE  Homes'
<1> USE DEF durable, memory
<1>1. CASE Stopping
  <2>1. UNCHANGED <<phase, receipts, state, bound, live, runs>>
    BY <1>1 DEF Stopping, StopWaited, StopTimesOut, StopFinish, StopTurn, StopThread
  <2>2. QED
    BY <2>1 DEF Homes, Home
<1>2. CASE LoadState \/ Crash
  BY <1>2 DEF LoadState, Crash, Homes, Home
<1>3. CASE SaveRecovered \/ Serve \/ EndTurns
  <2>1. /\ runs' = runs /\ live' = live /\ bound' = bound /\ receipts' = receipts
        /\ (state' = state \/ state' = bound) /\ phase # "down" /\ phase' # "down" /\ phase # "up"
    BY <1>3 DEF SaveRecovered, Serve, EndTurns
  <2>2. runs = {}
    BY <2>1 DEF Homes
  <2>3. QED
    BY <2>1, <2>2, HomesKept
<1>4. CASE \E r \in Key : RecoverReceipt(r) \/ Reconcile(r)
  <2>1. /\ runs' = runs /\ live' = live /\ state' = state /\ phase' = phase /\ phase # "down" /\ phase # "up"
    BY <1>4 DEF RecoverReceipt, Reconcile
  <2>2. runs = {}
    BY <2>1 DEF Homes
  <2>3. \A r \in Key : receipts'[r].status # "none" =>
          receipts[r].status # "none" /\ receipts'[r].thread = receipts[r].thread
    BY <1>4 DEF RecoverReceipt, Reconcile, Proven, Unsettled, Typed, TypeOK, Receipt
  <2>4. \A th \in Thread : bound[th] # NoBinding => bound'[th] # NoBinding
    <3>1. CASE UNCHANGED bound
      BY <3>1
    <3>2. CASE \E th : bound[th] # NoBinding /\ \E k : bound' = [bound EXCEPT ![th].blocked = k]
      <4>1. \A o \in Thread : bound[o].frozen \in Frozen => bound'[o].frozen \in Frozen
        BY <3>2, NamedChanges DEF Typed
      <4>2. \A o \in Thread : bound'[o] # NoBinding <=> bound'[o].frozen \in Frozen
        BY ThreadsAreNames DEF Typed, Bindings, Named, NoBinding
      <4>3. QED
        BY <4>1, <4>2, BoundIsNamed
    <3>3. QED
      BY <1>4, <3>1, <3>2 DEF RecoverReceipt, Reconcile, Proven
  <2>5. QED
    BY <2>1, <2>2, <2>3, <2>4, HomesKept
<1>5. CASE Delete \/ RemoveReceipts \/ RemoveBindings \/ RemoveThreads
  <2>1. ~Live(journal)'
    BY <1>5, TombstoneWellFormed
       DEF Delete, RemoveReceipts, RemoveBindings, RemoveThreads, Typed, Bindings, Live, TombstoneRows
  <2>2. phase' = phase /\ runs' = runs
    BY <1>5 DEF Delete, RemoveReceipts, RemoveBindings, RemoveThreads
  <2>3. QED
    BY <2>1, <2>2 DEF Homes
<1>6. QED
  BY <1>1, <1>2, <1>3, <1>4, <1>5 DEF Recovery, Deletion

\* A segment becomes live after its binding was saved, and takes requests while it is.
LEMMA RequestsKeepHomes ==
  ASSUME Typed, Typed', Homes, Live(journal)' => Live(journal), Requests
  PROVE  Homes'
<1> USE DEF durable, memory
<1>1. ASSUME Opened PROVE Homes'
  <2> DEFINE th == opening.thread
             n == CHOOSE n \in FreeInstances(th) : \A m \in FreeInstances(th) : n <= m
  <2>1. /\ live' = [live EXCEPT ![th] = n] /\ bound' = [bound EXCEPT ![th] = opening.binding]
        /\ state' = bound' /\ phase' = phase /\ phase = "up"
        /\ UNCHANGED <<journal, runs, receipts>>
    BY <1>1 DEF Opened, Up
  <2>2. \A o \in Thread : live'[o] # 0 => bound'[o].frozen \in Frozen \/ live[o] # 0
    <3> HIDE DEF n
    <3>1. Live(journal)' = Live(journal)
      BY <2>1 DEF Live
    <3>2. th \in Thread => opening.binding.frozen \in Frozen
      BY ThreadsAreNames DEF Typed, Bindings
    <3>3. QED
      BY <2>1, <3>2 DEF Typed, TypeOK
  <2>3. \A o \in Thread : bound'[o] # NoBinding <=> bound'[o].frozen \in Frozen
    BY ThreadsAreNames DEF Typed, Bindings, Named, NoBinding
  <2>4. \A o \in Thread : bound[o] # NoBinding => bound'[o] # NoBinding
    <3>1. th \in Thread => opening.binding.frozen \in Frozen
      BY ThreadsAreNames DEF Typed, Bindings
    <3>2. QED
      BY <2>1, <2>3, <3>1 DEF Typed, TypeOK
  <2> HIDE DEF n
  <2>5. \A x \in runs : x.thread \in Thread
    BY DEF Typed, TypeOK, Run
  <2>6. QED
    BY <2>1, <2>2, <2>3, <2>4, <2>5, HomesKept
<1>2. ASSUME NEW t \in Turn, NEW r \in Key, Start(t, r) PROVE Homes'
  <2>1. /\ UNCHANGED <<phase, state, bound, live, receipts, journal>> /\ phase = "up"
        /\ \A x \in runs' \ runs : x.thread = client.thread /\ live[client.thread] # 0
    BY <1>2 DEF Start, Up
  <2>2. \A x \in runs' : x.thread \in Thread
    BY DEF Typed, TypeOK, Run
  <2>3. QED
    BY <2>1, <2>2, HomesKept
<1>3. CASE \/ \E f \in Frozen, t \in Turn \cup {None} : Open(f, t)
           \/ \E t \in Turn, role \in Role : BeginTurn(t, role)
           \/ \E t \in Turn, status \in {"completed", "failed"} : FinishTurn(t, status)
           \/ StartKernel \/ OpenFails \/ GiveUp \/ \E th \in Thread : Close(th) \/ Cancel(th)
  <2>1. /\ UNCHANGED <<phase, state, bound, runs, receipts>>
        /\ \A th \in Thread : live'[th] # 0 => live[th] # 0
    BY <1>3 DEF StartKernel, OpenFails, GiveUp, Open, Close, Cancel, BeginTurn, FinishTurn, Typed, TypeOK
  <2>2. QED
    BY <2>1 DEF Homes, Home
<1>4. QED
  BY <1>1, <1>2, <1>3 DEF Requests

\* A handler writes the receipt of its own segment.
LEMMA HandlersKeepHomes ==
  ASSUME Typed, Typed', Homes, Live(journal)' => Live(journal), NEW x \in runs, Advance(x)
  PROVE  Homes'
<1> USE DEF durable, memory
<1>1. UNCHANGED <<phase, live>> /\ (state' = state \/ state' = bound')
  BY DEF Advance, Admit, BeginOwn, Record, Accept, Submit, MarkRunning, Collect, Conclude, WriteReceipt,
         NoteContext, SaveContext, FinishOwn, Block, SaveBlock
<1>2. phase = "up" /\ (\A y \in runs : y.thread \in Thread) /\ receipts \in [Key -> Receipt]
  BY DEF Homes, Typed, TypeOK, Run
<1>3. \A z \in runs' : z.thread \in Thread /\ \E y \in runs : y.thread = z.thread
  <2>1. Leave(x) \/ \E y : Follows(x, y) /\ runs' = (runs \ {x}) \cup {y}
    BY AdvanceRuns DEF Typed
  <2>2. QED
    BY <1>2, <2>1 DEF Leave, Follows
<1>4. \A r \in Key : receipts'[r].status # "none" =>
           \/ receipts[r].status # "none" /\ receipts'[r].thread = receipts[r].thread
           \/ \E y \in runs : receipts'[r].thread = y.thread
  <2>1. CASE UNCHANGED receipts
    BY <2>1
  <2>2. CASE \E status, native : Writes(x, status, native)
    BY <1>2, <2>2 DEF Writes
  <2>3. QED
    BY <2>1, <2>2 DEF Advance, Admit, BeginOwn, Record, Accept, Submit, MarkRunning, Collect, Conclude,
         WriteReceipt, NoteContext, SaveContext, FinishOwn, Block, SaveBlock
<1>5. \A th \in Thread : bound[th] # NoBinding => bound'[th] # NoBinding
  <2>1. CASE UNCHANGED bound
    BY <2>1
  <2>2. CASE /\ bound[x.thread] # NoBinding
             /\ \/ \E c : bound' = [bound EXCEPT ![x.thread].context = c]
                \/ \E k : bound' = [bound EXCEPT ![x.thread].blocked = k]
    <3>1. \A o \in Thread : bound[o].frozen \in Frozen => bound'[o].frozen \in Frozen
      BY <2>2, NamedChanges DEF Typed
    <3>2. \A o \in Thread : bound'[o] # NoBinding <=> bound'[o].frozen \in Frozen
      BY ThreadsAreNames DEF Typed, Bindings, Named, NoBinding
    <3>3. QED
      BY <3>1, <3>2, BoundIsNamed
  <2>3. NoteContext(x) \/ Block(x) \/ UNCHANGED bound
    BY DEF Advance, Admit, BeginOwn, Record, Accept, Submit, MarkRunning, Collect, Conclude,
           WriteReceipt, SaveContext, FinishOwn, SaveBlock
  <2>4. QED
    BY <2>1, <2>2, <2>3 DEF NoteContext, Block
<1>6. QED
  BY <1>1, <1>2, <1>3, <1>4, <1>5, HomesKept

\* Every step keeps receipts and handlers with segments that are saved.
LEMMA HomesNext == Typed /\ Homes /\ [Next]_vars => Homes'
<1> SUFFICES ASSUME Typed, Homes, [Next]_vars PROVE Homes'
  OBVIOUS
<1>1. Typed' /\ (Live(journal)' => Live(journal))
  BY TypedNext, JournalKept
<1>2. CASE UNCHANGED vars
  BY <1>2 DEF vars, durable, memory, Homes, Home
<1>3. QED
  BY <1>1, <1>2, SurroundingsKeepHomes, RequestsKeepHomes, HandlersKeepHomes DEF Next

\* A row that is appended answers the request it is the completed result of, and no other.
LEMMA AnsweredAfter ==
  ASSUME journal \in Seq(Event), NEW draft \in Drafts, Appends(draft), NEW r \in Key
  PROVE  r \in Answered' <=> r \in Answered \/ (draft.id = <<"result", r>> /\ draft.data[1] = "completed")
<1>1. /\ DOMAIN journal = 1 .. Len(journal) /\ DOMAIN journal' = 1 .. Len(journal) + 1
      /\ Len(journal) \in Nat /\ \A i \in 1 .. Len(journal) : journal'[i] = journal[i]
      /\ journal'[Len(journal) + 1] = Numbered(draft, Len(journal) + 1)
  BY ExtendedRows DEF Appends
<1>2. journal'[Len(journal) + 1].id = draft.id /\ journal'[Len(journal) + 1].data = draft.data
  BY <1>1, NumberedFields
<1>3. QED
  BY <1>1, <1>2 DEF Answered

\* Begins, ends and inputs of requests answer none.
LEMMA NotAnAnswer ==
  /\ \A t, role, to : BeginDraft(t, role, to).id[1] # "result"
  /\ \A t, status : EndDraft(t, status).id[1] # "result"
  /\ \A t, r : InputDraft(t, r).id[1] # "result"
BY DEF BeginDraft, EndDraft, InputDraft, Draft

\* A step that appends such a row, or none.
Unanswering ==
  \/ UNCHANGED journal
  \/ \E draft \in Drafts : draft.id[1] # "result" /\ Appends(draft)

LEMMA UnansweringKeeps ==
  ASSUME journal \in Seq(Event), Unanswering
  PROVE  Answered' = Answered
<1>1. CASE UNCHANGED journal
  BY <1>1 DEF Answered
<1>2. CASE \E draft \in Drafts : draft.id[1] # "result" /\ Appends(draft)
  <2>1. PICK draft \in Drafts : draft.id[1] # "result" /\ Appends(draft)
    BY <1>2
  <2>2. \A r \in Key : draft.id # <<"result", r>>
    BY <2>1
  <2>3. \A r \in Key : r \in Answered' <=> r \in Answered
    BY <2>1, <2>2, AnsweredAfter
  <2>4. QED
    BY <2>3 DEF Answered
<1>3. QED
  BY <1>1, <1>2 DEF Unanswering

\* Only the handler that concludes a request answers it.
LEMMA SurroundingsUnanswering ==
  ASSUME Typed, Recovery \/ Deletion \/ Stopping \/ Crash \/ Requests, Live(journal)'
  PROVE  Unanswering
<1> SUFFICES ASSUME ~UNCHANGED journal PROVE Unanswering
  BY DEF Unanswering
<1> USE DEF durable, Takes, Puts
<1>1. CASE Recovery
  <2>1. EndTurns
    BY <1>1 DEF Recovery, LoadState, SaveRecovered, Serve, RecoverReceipt, Reconcile
  <2>2. PICK t \in ActiveTurns(journal) : Appends(EndDraft(t, "interrupted"))
    BY <2>1 DEF EndTurns
  <2>3. EndDraft(t, "interrupted") \in Drafts
    BY BuiltDrafts DEF ActiveTurns, Outcome
  <2>4. QED
    BY <2>2, <2>3, NotAnAnswer DEF Unanswering
<1>2. CASE Deletion \/ Crash
  <2>1. journal' = TombstoneRows
    BY <1>2 DEF Deletion, Crash, Delete, RemoveThreads, RemoveReceipts, RemoveBindings, TombstoneRows
  <2>2. QED
    BY <2>1, TombstoneWellFormed DEF Live
<1>3. CASE Stopping
  <2>1. stopping.turn # None /\ Appends(EndDraft(stopping.turn, "interrupted"))
    BY <1>3 DEF Stopping, StopWaited, StopTimesOut, StopTurn, StopThread, StopFinish
  <2>2. EndDraft(stopping.turn, "interrupted") \in Drafts
    BY <2>1, BuiltDrafts DEF Typed, TypeOK, Outcome
  <2>3. QED
    BY <2>1, <2>2, NotAnAnswer DEF Unanswering
<1>4. CASE Requests
  <2>1. \/ \E t \in Turn, role \in Role : BeginTurn(t, role)
        \/ \E t \in Turn, status \in {"completed", "failed"} : FinishTurn(t, status)
    BY <1>4 DEF Requests, StartKernel, Opened, OpenFails, GiveUp, Open, Close, Cancel, Start
  <2>2. CASE \E t \in Turn, role \in Role : BeginTurn(t, role)
    <3>1. PICK t \in Turn, role \in Role : Appends(BeginDraft(t, role, None))
      BY <2>2 DEF BeginTurn
    <3>2. QED
      BY <3>1, BuiltDrafts, NotAnAnswer DEF Unanswering
  <2>3. CASE \E t \in Turn, status \in {"completed", "failed"} : FinishTurn(t, status)
    <3>1. PICK t \in Turn, status \in Outcome : Appends(EndDraft(t, status))
      BY <2>3 DEF FinishTurn, Outcome
    <3>2. QED
      BY <3>1, BuiltDrafts, NotAnAnswer DEF Unanswering
  <2>4. QED
    BY <2>1, <2>2, <2>3
<1>5. QED
  BY <1>1, <1>2, <1>3, <1>4

LEMMA HandlersUnanswering ==
  ASSUME Typed, NEW x \in runs, Advance(x), ~Conclude(x), Live(journal)
  PROVE  Unanswering
<1> SUFFICES ASSUME ~UNCHANGED journal PROVE Unanswering
  BY DEF Unanswering
<1> USE DEF durable, Takes, Puts
<1>0. x \in Run /\ x.request \in Key /\ x.turn \in Turn
  BY DEF Typed, TypeOK, Run
<1>1. CASE BeginOwn(x)
  <2>1. Appends(BeginDraft(x.turn, RoleOf[x.frozen], None))
    BY <1>1 DEF BeginOwn
  <2>2. RoleOf[x.frozen] \in Role
    BY ThreadsAreNames DEF Typed, Bindings
  <2>3. QED
    BY <1>0, <2>1, <2>2, BuiltDrafts, NotAnAnswer DEF Unanswering
<1>2. CASE Record(x)
  <2>1. Appends(InputDraft(x.turn, x.request))
    BY <1>2 DEF Record
  <2>2. QED
    BY <1>0, <2>1, BuiltDrafts, NotAnAnswer DEF Unanswering
<1>3. CASE FinishOwn(x)
  <2>1. PICK status \in Outcome : Appends(EndDraft(x.turn, status))
    BY <1>3 DEF FinishOwn, Outcome
  <2>2. QED
    BY <1>0, <2>1, BuiltDrafts, NotAnAnswer DEF Unanswering
<1>4. QED
  BY <1>1, <1>2, <1>3 DEF Advance, Admit, Accept, Submit, MarkRunning, Collect, WriteReceipt,
     NoteContext, SaveContext, Block, SaveBlock

\* Before a request is handled and after: its receipt says completed if and only if the
\* journal answers it.
Match(r) == receipts[r].status = "completed" <=> r \in Answered

Pending(r) == receipts[r].status \in {"accepted", "running"}

\* What holds of every request, a process that stopped included: recovery can find the
\* receipt of what the journal answers.
Loose(r) ==
  /\ receipts[r].status = "completed" => r \in Answered
  /\ r \in Answered => receipts[r].status \in {"accepted", "running", "uncertain", "completed"}

\* How far a handler is with the receipt and the result of its request.
Answering(x) ==
  /\ x.at \in {"admitted", "begun", "recorded"} => receipts[x.request].status = "none" /\ x.request \notin Answered
  /\ x.at \in {"accepted", "submitted", "collecting", "ended"} => Pending(x.request) /\ x.request \notin Answered
  /\ x.at = "journaled" => Pending(x.request) /\ (x.request \in Answered <=> x.result = "completed")
  /\ x.at \in {"locked", "written", "noted", "saved", "finished", "blocked"} => Match(x.request)

\* The strengthening of ReceiptsMatchResults.
Results ==
  Live(journal) =>
    /\ \A r \in Key : Loose(r)
    /\ \A x \in runs : Answering(x)
    /\ Up => \A r \in Key : ~InFlight(r) => Match(r)

\* A step that writes no receipt and answers nothing.
LEMMA ResultsStay ==
  ASSUME Results, Live(journal)' => Live(journal) /\ Answered' = Answered,
         UNCHANGED <<receipts, runs>>, Up' => Up
  PROVE  Results'
BY DEF Results, Loose, Answering, Match, Pending, InFlight

\* A handler's step that keeps what is known of its request.
LEMMA HandlerResults ==
  ASSUME Typed, Attempts, Results, UNCHANGED phase, NEW x \in runs, NEW y, Follows(x, y),
         runs' = (runs \ {x}) \cup {y}, Live(journal)' => Live(journal),
         Live(journal)' => /\ \A r \in Key \ {x.request} :
                                receipts'[r] = receipts[r] /\ (r \in Answered' <=> r \in Answered)
                           /\ Loose(x.request)' /\ Answering(y)'
  PROVE  Results'
<1> SUFFICES ASSUME Live(journal)', Live(journal)
             PROVE  /\ \A r \in Key : Loose(r)'
                    /\ \A z \in runs' : Answering(z)'
                    /\ Up' => \A r \in Key : ~InFlight(r)' => Match(r)'
  BY DEF Results
<1>1. \A z \in runs : z.request \in Key
  BY DEF Typed, TypeOK, Run
<1>2. \A r \in Key : Loose(r)'
  BY DEF Results, Loose
<1>3. ASSUME NEW z \in runs \ {x} PROVE Answering(z)'
  <2>1. z.request # x.request
    BY DEF Attempts, OneHandler
  <2>2. QED
    BY <1>1, <2>1 DEF Results, Answering, Match, Pending
<1>4. ASSUME Up', NEW r \in Key, ~InFlight(r)' PROVE Match(r)'
  <2>1. r # x.request
    BY <1>4 DEF InFlight, Follows
  <2>2. ~InFlight(r)
    BY <1>4, <2>1 DEF InFlight
  <2>3. QED
    BY <1>4, <2>1, <2>2 DEF Results, Match, Up
<1>5. QED
  BY <1>2, <1>3, <1>4

\* A handler leaves with its request matched.
LEMMA LeaveResults ==
  ASSUME Typed, Attempts, Results, UNCHANGED <<phase, receipts>>, NEW x \in runs,
         runs' = runs \ {x}, Live(journal)' => Live(journal) /\ Answered' = Answered /\ Match(x.request)
  PROVE  Results'
<1> SUFFICES ASSUME Live(journal)', Live(journal)
             PROVE  /\ \A r \in Key : Loose(r)'
                    /\ \A z \in runs' : Answering(z)'
                    /\ Up' => \A r \in Key : ~InFlight(r)' => Match(r)'
  BY DEF Results
<1>1. \A r \in Key : Loose(r)'
  BY DEF Results, Loose
<1>2. \A z \in runs' : Answering(z)'
  BY DEF Results, Answering, Match, Pending
<1>3. ASSUME Up', NEW r \in Key, ~InFlight(r)' PROVE Match(r)'
  <2>1. CASE r = x.request
    BY <2>1 DEF Match
  <2>2. CASE r # x.request
    BY <1>3, <2>2 DEF InFlight, Results, Match, Up
  <2>3. QED
    BY <2>1, <2>2
<1>4. QED
  BY <1>1, <1>2, <1>3

\* Recovery makes every receipt agree before it serves requests: what it cannot know is
\* uncertain, what the journal answers is completed.
LEMMA SurroundingsKeepResults ==
  ASSUME Typed, Homes, Attempts, Results, Live(journal)' => Live(journal),
         Recovery \/ Deletion \/ Stopping \/ Crash
  PROVE  Results'
<1> USE DEF durable, memory
<1>1. Live(journal)' => Answered' = Answered
  BY SurroundingsUnanswering, UnansweringKeeps DEF Typed, TypeOK
<1>2. CASE Stopping \/ LoadState \/ SaveRecovered \/ EndTurns
  <2>1. UNCHANGED <<receipts, runs>> /\ (Up' => Up)
    BY <1>2 DEF Stopping, StopWaited, StopTimesOut, StopFinish, StopTurn, StopThread, LoadState,
                SaveRecovered, EndTurns, Up
  <2>2. QED
    BY <1>1, <2>1, ResultsStay
<1>3. CASE Crash
  <2>1. receipts' = receipts /\ runs' = {} /\ ~Up'
    BY <1>3 DEF Crash, Up
  <2>2. QED
    BY <1>1, <2>1 DEF Results, Loose
<1>4. CASE Deletion
  <2>1. CASE Delete
    <3>1. ~Live(journal)'
      BY <2>1, TombstoneWellFormed DEF Delete, Live, TombstoneRows
    <3>2. QED
      BY <3>1 DEF Results
  <2>2. CASE RemoveThreads \/ RemoveReceipts \/ RemoveBindings
    <3>1. ~Live(journal)'
      BY <2>2 DEF RemoveThreads, RemoveReceipts, RemoveBindings, Typed, Bindings
    <3>2. QED
      BY <3>1 DEF Results
  <2>3. QED
    BY <1>4, <2>1, <2>2 DEF Deletion
<1>5. CASE \E r \in Key : RecoverReceipt(r) \/ Reconcile(r)
  <2>1. PICK r \in Key : RecoverReceipt(r) \/ Reconcile(r)
    BY <1>5
  <2>2. runs = {} /\ runs' = {} /\ ~Up' /\ receipts \in [Key -> Receipt] /\ receipts[r].status # "completed"
    BY <2>1 DEF RecoverReceipt, Reconcile, Homes, Up, Unsettled, Proven, Typed, TypeOK
  <2>3. ASSUME Live(journal)', Live(journal), NEW q \in Key PROVE Loose(q)'
    <3>1. Answered' = Answered /\ Loose(q)
      BY <1>1, <2>3 DEF Results
    <3>2. CASE RecoverReceipt(r)
      <4>1. receipts'[q] = IF q = r THEN [receipts[r] EXCEPT !.status = "uncertain"] ELSE receipts[q]
        BY <2>2, <3>2 DEF RecoverReceipt
      <4>2. receipts'[q].status = IF q = r THEN "uncertain" ELSE receipts[q].status
        BY <2>2, <4>1 DEF Receipt
      <4>3. QED
        BY <3>1, <4>2 DEF Loose
    <3>3. CASE Reconcile(r)
      <4>1. r \in Answered /\ (q # r => receipts'[q] = receipts[q]) /\ receipts'[r].status = "completed"
        BY <2>2, <2>3, <3>3 DEF Reconcile, Proven, Receipt
      <4>2. QED
        BY <3>1, <4>1 DEF Loose
    <3>4. QED
      BY <2>1, <3>2, <3>3
  <2>4. QED
    BY <2>2, <2>3 DEF Results
<1>6. CASE Serve
  <2>1. runs = {} /\ UNCHANGED <<receipts, runs, bound, journal>> /\ Proven = {} /\ phase = "results"
    BY <1>6 DEF Serve, Homes
  <2>2. ASSUME Live(journal)', Live(journal), NEW q \in Key PROVE Match(q)'
    <3>1. Answered' = Answered /\ Loose(q)
      BY <1>1, <2>2 DEF Results
    <3>2. ASSUME q \in Answered, receipts[q].status # "completed" PROVE FALSE
      <4>1. receipts[q].status \in {"accepted", "running", "uncertain"}
        BY <3>1, <3>2 DEF Loose
      <4>2. receipts[q].thread \in Thread /\ bound[receipts[q].thread] # NoBinding
        BY <2>1, <2>2, <4>1 DEF Homes, Home
      <4>3. QED
        BY <2>1, <2>2, <3>2, <4>1, <4>2 DEF Proven
    <3>3. QED
      BY <2>1, <3>1, <3>2 DEF Match, Loose
  <2>3. QED
    BY <1>1, <2>1, <2>2 DEF Results, Loose
<1>7. QED
  BY <1>2, <1>3, <1>4, <1>5, <1>6 DEF Recovery

\* A request starts with a handler that has done nothing yet.
LEMMA RequestsKeepResults ==
  ASSUME Typed, Attempts, Results, Live(journal)' => Live(journal), Requests
  PROVE  Results'
<1> USE DEF durable, memory
<1>1. UNCHANGED <<phase, receipts>> /\ (Live(journal)' => Answered' = Answered)
  <2>1. UNCHANGED <<phase, receipts>>
    BY DEF Requests, StartKernel, Opened, OpenFails, GiveUp, Open, Close, Cancel, BeginTurn, FinishTurn, Start
  <2>2. QED
    BY <2>1, SurroundingsUnanswering, UnansweringKeeps DEF Typed, TypeOK
<1>2. CASE UNCHANGED runs
  BY <1>1, <1>2, ResultsStay DEF Up
<1>3. CASE \E t \in Turn, r \in Key : Start(t, r) /\ ~UNCHANGED runs
  <2>1. PICK t \in Turn, r \in Key : Start(t, r) /\ ~UNCHANGED runs
    BY <1>3
  <2>2. PICK x : runs' = runs \cup {x} /\ x.request = r /\ x.at = "locked"
    <3> DEFINE th == client.thread
               y == [thread |-> th, inst |-> live[th], frozen |-> bound[th].frozen, request |-> r,
                     turn |-> t, at |-> "locked", native |-> FALSE, result |-> "none"]
    <3>1. runs' = runs \cup {y}
      BY <2>1 DEF Start
    <3>2. y.request = r /\ y.at = "locked"
      OBVIOUS
    <3> HIDE DEF y
    <3>3. QED
      BY <3>1, <3>2
  <2>3. Up /\ ~InFlight(r)
    BY <2>1 DEF Start, InFlight
  <2>4. ASSUME Live(journal)', Live(journal)
        PROVE  /\ \A q \in Key : Loose(q)'
               /\ \A z \in runs' : Answering(z)'
               /\ \A q \in Key : ~InFlight(q)' => Match(q)'
    <3>1. Answered' = Answered /\ receipts' = receipts /\ Match(r)
      BY <1>1, <2>3, <2>4 DEF Results
    <3>2. \A q \in Key : Loose(q)'
      BY <2>4, <3>1 DEF Results, Loose
    <3>3. \A z \in runs : Answering(z)'
      BY <2>4, <3>1 DEF Results, Answering, Match, Pending
    <3>4. Answering(x)'
      BY <2>2, <3>1 DEF Answering, Match
    <3>5. \A q \in Key : ~InFlight(q)' => Match(q)'
      BY <2>2, <2>3, <2>4, <3>1 DEF InFlight, Match, Results
    <3>6. QED
      BY <2>2, <3>2, <3>3, <3>4, <3>5
  <2>5. QED
    BY <2>4 DEF Results
<1>4. QED
  BY <1>2, <1>3 DEF Requests, StartKernel, Opened, OpenFails, GiveUp, Open, Close, Cancel, BeginTurn, FinishTurn

\* Each step of a handler: the journal gets the result, then the receipt.
LEMMA HandlersKeepResults ==
  ASSUME Typed, Homes, Attempts, Results, Live(journal)' => Live(journal), NEW x \in runs, Advance(x)
  PROVE  Results'
<1> DEFINE r == x.request
<1> USE DEF durable, memory
<1>0. /\ x \in Run /\ r \in Key /\ journal \in Seq(Event) /\ receipts \in [Key -> Receipt] /\ UNCHANGED phase
  BY DEF Typed, TypeOK, Run, Advance, Admit, BeginOwn, Record, Accept, Submit, MarkRunning, Collect, Conclude,
         WriteReceipt, NoteContext, SaveContext, FinishOwn, Block, SaveBlock
<1>1. Live(journal)' /\ ~Conclude(x) => Answered' = Answered
  BY <1>0, HandlersUnanswering, UnansweringKeeps
<1>2. Live(journal)' => Loose(r) /\ Answering(x)
  BY <1>0 DEF Results
<1>3. ASSUME Leave(x), UNCHANGED receipts, ~Conclude(x), Live(journal)' => Match(r) PROVE Results'
  BY <1>0, <1>1, <1>3, LeaveResults DEF Leave
<1>4. ASSUME NEW y, Follows(x, y), runs' = (runs \ {x}) \cup {y}, UNCHANGED receipts, ~Conclude(x),
             Live(journal)' => Answering(y)
      PROVE  Results'
  <2>1. ASSUME Live(journal)' PROVE Loose(r)' /\ Answering(y)'
    BY <1>1, <1>2, <1>4, <2>1 DEF Loose, Answering, Match, Pending
  <2>2. Live(journal)' => \A q \in Key \ {r} :
                            receipts'[q] = receipts[q] /\ (q \in Answered' <=> q \in Answered)
    BY <1>1, <1>4
  <2>3. QED
    BY <1>0, <1>4, <2>1, <2>2, HandlerResults
<1>5. ASSUME NEW at, Goes(x, at), UNCHANGED receipts, ~Conclude(x),
             Live(journal)' => \A y : (Follows(x, y) /\ y.at = at) => Answering(y)
      PROVE  Results'
  <2>1. PICK y : Follows(x, y) /\ y.at = at /\ runs' = (runs \ {x}) \cup {y}
    BY <1>0, <1>5, MovedFields DEF Goes
  <2>2. QED
    BY <1>4, <1>5, <2>1
<1>6. ASSUME NEW at, NEW how, runs' = (runs \ {x}) \cup {[x EXCEPT !.at = at, !.result = how]},
             UNCHANGED receipts, ~Conclude(x),
             Live(journal)' => \A y : (Follows(x, y) /\ y.at = at) => Answering(y)
      PROVE  Results'
  <2>1. PICK y : Follows(x, y) /\ y.at = at /\ runs' = (runs \ {x}) \cup {y}
    BY <1>0, <1>6, EndedFields
  <2>2. QED
    BY <1>4, <1>6, <2>1
<1>7. ASSUME NEW at, NEW status, NEW native, Goes(x, at), Writes(x, status, native), ~Conclude(x),
             Live(journal)' =>
               /\ status = "completed" <=> r \in Answered
               /\ at \in {"accepted", "collecting", "written"}
               /\ at # "written" => status \in {"accepted", "running"}
      PROVE  Results'
  <2>1. PICK y : Follows(x, y) /\ y.at = at /\ runs' = (runs \ {x}) \cup {y}
    BY <1>0, <1>7, MovedFields DEF Goes
  <2>2. (\A q \in Key \ {r} : receipts'[q] = receipts[q]) /\ receipts'[r].status = status
    BY <1>0, <1>7 DEF Writes
  <2>3. ASSUME Live(journal)' PROVE Loose(r)' /\ Answering(y)'
    <3>1. Answered' = Answered
      BY <1>1, <1>7, <2>3
    <3>2. Loose(r)'
      BY <1>7, <2>2, <2>3, <3>1 DEF Loose
    <3>3. Answering(y)'
      BY <1>7, <2>1, <2>2, <2>3, <3>1 DEF Answering, Match, Pending, Follows
    <3>4. QED
      BY <3>2, <3>3
  <2>4. QED
    BY <1>0, <1>1, <1>7, <2>1, <2>2, <2>3, HandlerResults
<1>8. CASE Admit(x)
  <2>1. x.at = "locked" /\ UNCHANGED receipts /\ ~Conclude(x)
    BY <1>8 DEF Admit, Conclude
  <2>2. Live(journal)' => Match(r)
    BY <1>2, <2>1 DEF Answering
  <2>3. CASE Leave(x)
    BY <1>3, <2>1, <2>2, <2>3
  <2>4. CASE ~Leave(x)
    <3>1. Goes(x, "admitted") /\ receipts[r].status = "none"
      BY <1>8, <2>4 DEF Admit
    <3>2. Live(journal)' => \A y : (Follows(x, y) /\ y.at = "admitted") => Answering(y)
      BY <1>2, <3>1 DEF Answering, Follows, Loose
    <3>3. QED
      BY <1>5, <2>1, <3>1, <3>2
  <2>5. QED
    BY <2>3, <2>4
<1>9. CASE BeginOwn(x) \/ Record(x)
  <2>1. x.at \in {"admitted", "begun"} /\ UNCHANGED receipts /\ ~Conclude(x)
        /\ (Leave(x) \/ \E at \in {"begun", "recorded"} : Goes(x, at))
    BY <1>9 DEF BeginOwn, Record, Conclude
  <2>2. Live(journal)' => receipts[r].status = "none" /\ r \notin Answered
    BY <1>2, <2>1 DEF Answering
  <2>3. CASE Leave(x)
    BY <1>3, <2>1, <2>2, <2>3 DEF Match
  <2>4. CASE \E at \in {"begun", "recorded"} : Goes(x, at)
    <3>1. PICK at \in {"begun", "recorded"} : Goes(x, at)
      BY <2>4
    <3>2. Live(journal)' => \A y : (Follows(x, y) /\ y.at = at) => Answering(y)
      BY <2>2, <3>1 DEF Answering, Follows
    <3>3. QED
      BY <1>5, <2>1, <3>1, <3>2
  <2>5. QED
    BY <2>1, <2>3, <2>4
<1>10. CASE Accept(x)
  <2>1. x.at = "recorded" /\ ~Conclude(x) /\ Goes(x, "accepted") /\ Writes(x, "accepted", FALSE)
    BY <1>10 DEF Accept, Conclude
  <2>2. Live(journal)' => r \notin Answered
    BY <1>2, <2>1 DEF Answering
  <2>3. QED
    BY <1>7, <2>1, <2>2
<1>11. CASE Submit(x) \/ Collect(x)
  <2>1. /\ x.at \in {"accepted", "collecting"} /\ UNCHANGED receipts /\ ~Conclude(x)
        /\ \/ Goes(x, "submitted")
           \/ \E how : runs' = (runs \ {x}) \cup {[x EXCEPT !.at = "ended", !.result = how]}
    BY <1>11 DEF Submit, Collect, Conclude
  <2>2. Live(journal)' => Pending(r) /\ r \notin Answered
    BY <1>2, <2>1 DEF Answering
  <2>3. \A at \in {"submitted", "ended"} :
          Live(journal)' => \A y : (Follows(x, y) /\ y.at = at) => Answering(y)
    BY <2>2 DEF Answering, Follows
  <2>4. QED
    BY <1>5, <1>6, <2>1, <2>3
<1>12. CASE MarkRunning(x)
  <2>1. x.at = "submitted" /\ ~Conclude(x)
    BY <1>12 DEF MarkRunning, Conclude
  <2>2. Live(journal)' => Pending(r) /\ r \notin Answered
    BY <1>2, <2>1 DEF Answering
  <2>3. CASE receipts[r].status = "none"
    <3>1. ~Live(journal)'
      BY <2>2, <2>3 DEF Pending
    <3>2. QED
      BY <3>1 DEF Results
  <2>4. CASE receipts[r].status # "none"
    <3>1. Writes(x, "running", TRUE) /\ Goes(x, "collecting")
      BY <1>12, <2>4 DEF MarkRunning
    <3>2. QED
      BY <1>7, <2>1, <2>2, <3>1
  <2>5. QED
    BY <2>3, <2>4
<1>13. CASE Conclude(x)
  <2> DEFINE native == receipts[r].native
             result == IF x.result = "completed" THEN "completed" ELSE IF native THEN "interrupted" ELSE "failed"
             known == native \/ result = "completed"
             z == [x EXCEPT !.at = "journaled", !.native = known, !.result = result]
  <2>1. x.at = "ended" /\ UNCHANGED receipts
    BY <1>13 DEF Conclude
  <2>2. Live(journal)' => Pending(r) /\ r \notin Answered
    BY <1>2, <2>1 DEF Answering
  <2>3. CASE Leave(x) /\ UNCHANGED journal
    <3>1. Answered' = Answered
      BY <2>3 DEF Answered
    <3>2. QED
      BY <1>0, <2>1, <2>2, <2>3, <3>1, LeaveResults DEF Leave, Match, Pending
  <2>4. CASE Appends(AnswerDraft(z)) /\ runs' = (runs \ {x}) \cup {z}
    <3>1. result \in Outcome /\ "journaled" \in Step /\ known \in BOOLEAN
      BY <1>0 DEF Outcome, Step, Receipt
    <3> HIDE DEF result, known
    <3>2. PICK how \in Outcome, told \in BOOLEAN : how = result /\ told = known
      BY <3>1
    <3>3. PICK y : y = [x EXCEPT !.at = "journaled", !.native = told, !.result = how]
      OBVIOUS
    <3>4. y = z
      BY <3>2, <3>3
    <3>5. y \in Run /\ Follows(x, y) /\ y.at = "journaled" /\ y.result = how
      <4>1. y \in Run
        BY <1>0, <3>1, <3>2, <3>3, EndedRun
      <4>2. Follows(x, y)
        BY <1>0, <3>3, ConcludedFields
      <4>3. y.at = "journaled"
        BY <1>0, <3>3 DEF Run
      <4>4. y.result = how
        BY <1>0, <3>3 DEF Run
      <4>5. QED
        BY <4>1, <4>2, <4>3, <4>4
    <3>6. Appends(AnswerDraft(y)) /\ runs' = (runs \ {x}) \cup {y}
      BY <2>4, <3>4
    <3> HIDE DEF z
    <3>7. AnswerDraft(y) \in Drafts /\ AnswerDraft(y).id = <<"result", r>> /\ AnswerDraft(y).data[1] = how
      <4>1. AnswerDraft(y) \in Drafts /\ AnswerDraft(y).id = <<"result", y.request>>
        BY <3>5, AnswerTyped
      <4>2. AnswerDraft(y).data[1] = how
        BY <3>5 DEF AnswerDraft, ResultDraft, Draft
      <4>3. QED
        BY <3>5, <4>1, <4>2 DEF Follows
    <3>8. \A q \in Key : q \in Answered' <=> q \in Answered \/ (q = r /\ how = "completed")
      BY <1>0, <3>6, <3>7, AnsweredAfter
    <3>9. ASSUME Live(journal)' PROVE Loose(r)' /\ Answering(y)'
      <4>1. (r \in Answered' <=> how = "completed") /\ receipts' = receipts /\ Pending(r)
        BY <1>0, <2>1, <2>2, <3>8, <3>9
      <4>2. y.request = x.request
        BY <3>5 DEF Follows
      <4>3. Loose(r)'
        BY <4>1 DEF Loose, Pending
      <4>4. QED
        BY <3>5, <4>1, <4>2, <4>3 DEF Answering, Pending
    <3>10. \A q \in Key \ {r} : receipts'[q] = receipts[q] /\ (q \in Answered' <=> q \in Answered)
      BY <2>1, <3>8
    <3>11. QED
      BY <1>0, <3>5, <3>6, <3>9, <3>10, HandlerResults
  <2>5. QED
    BY <1>13, <2>3, <2>4 DEF Conclude
<1>14. CASE WriteReceipt(x)
  <2>1. x.at = "journaled" /\ ~Conclude(x) /\ Goes(x, "written") /\ Writes(x, x.result, x.native)
    BY <1>14 DEF WriteReceipt, Conclude
  <2>2. Live(journal)' => (x.result = "completed" <=> r \in Answered)
    BY <1>2, <2>1 DEF Answering
  <2>3. PICK status, native : status = x.result /\ native = x.native
    OBVIOUS
  <2>4. QED
    BY <1>7, <2>1, <2>2, <2>3
<1>15. CASE NoteContext(x) \/ SaveContext(x) \/ FinishOwn(x) \/ Block(x) \/ SaveBlock(x)
  <2>1. /\ x.at \in {"written", "noted", "saved", "finished", "blocked"} /\ ~Conclude(x) /\ UNCHANGED receipts
        /\ Leave(x) \/ \E at \in {"noted", "saved", "finished", "blocked"} : Goes(x, at)
    BY <1>15 DEF NoteContext, SaveContext, FinishOwn, Block, SaveBlock, Conclude
  <2>2. Live(journal)' => Match(r)
    BY <1>2, <2>1 DEF Answering
  <2>3. CASE Leave(x)
    BY <1>3, <2>1, <2>2, <2>3
  <2>4. CASE \E at \in {"noted", "saved", "finished", "blocked"} : Goes(x, at)
    <3>1. PICK at \in {"noted", "saved", "finished", "blocked"} : Goes(x, at)
      BY <2>4
    <3>2. Live(journal)' => \A y : (Follows(x, y) /\ y.at = at) => Answering(y)
      BY <2>2, <3>1 DEF Answering, Follows
    <3>3. QED
      BY <1>5, <2>1, <3>1, <3>2
  <2>5. QED
    BY <2>1, <2>3, <2>4
<1>16. QED
  BY <1>8, <1>9, <1>10, <1>11, <1>12, <1>13, <1>14, <1>15 DEF Advance

\* A receipt says completed if and only if the journal has the result, in every state that
\* serves requests, however often the process was stopped between the two writes.
THEOREM ReceiptsMatch == Spec => []ReceiptsMatchResults
<1>1. Init => Homes /\ Results
  <2> SUFFICES ASSUME Init PROVE Homes /\ Results
    OBVIOUS
  <2>1. /\ runs = {} /\ phase = "down" /\ \A th \in Thread : live[th] = 0
        /\ \A r \in Key : receipts[r].status = "none"
    BY DEF Init, NoReceipt
  <2>2. Answered = {}
    <3>1. NoRows \in Seq(Event) /\ CreatedDraft("local") \in Drafts /\ Len(NoRows) + 1 = 1
      BY BuiltDrafts DEF NoRows
    <3>2. PICK draft \in Drafts : draft = CreatedDraft("local")
      BY <3>1
    <3>3. DOMAIN journal = 1 .. 1 /\ journal[1] = Numbered(draft, 1)
      <4>1. journal = Extended(NoRows, draft)
        BY <3>2 DEF Init
      <4>2. DOMAIN journal = 1 .. Len(NoRows) + 1 /\ journal[Len(NoRows) + 1] = Numbered(draft, Len(NoRows) + 1)
        BY <3>1, <4>1, ExtendedRows
      <4>3. QED
        BY <3>1, <4>2
    <3>4. \A i \in DOMAIN journal : journal[i].id = draft.id
      BY <3>3, NumberedFields
    <3>5. QED
      BY <3>2, <3>4 DEF Answered, CreatedDraft, Draft
  <2>3. QED
    BY <2>1, <2>2 DEF Homes, Results, Loose, Up
<1>2. Typed /\ Attempts /\ Homes /\ Results /\ [Next]_vars => Homes' /\ Results'
  <2> SUFFICES ASSUME Typed, Attempts, Homes, Results, [Next]_vars PROVE Homes' /\ Results'
    OBVIOUS
  <2>1. Live(journal)' => Live(journal)
    BY JournalKept
  <2>2. ASSUME UNCHANGED vars PROVE Results'
    BY <2>2, ResultsStay DEF vars, durable, memory, Answered, Up
  <2>3. Results'
    BY <2>1, <2>2, SurroundingsKeepResults, RequestsKeepResults, HandlersKeepResults DEF Next
  <2>4. QED
    BY <2>3, HomesNext
<1>3. Results => ReceiptsMatchResults
  BY DEF Results, ReceiptsMatchResults, Match
<1>4. QED
  BY <1>1, <1>2, <1>3, TypesAreKept, AttemptsAreKept, PTL DEF Spec
============================================================================
