------------------------------ MODULE Threads ------------------------------
(***************************************************************************)
(* Model requests of one conversation: turn/start in harness/src/server.rs, *)
(* the execution segments (bindings, live threads) of harness/src/kernel.rs *)
(* and the receipts and bindings that harness/src/state.rs keeps on disk.   *)
(*                                                                         *)
(* A turn/start handler writes the journal, a receipt per request and the   *)
(* state file, each durable by itself, one after the other.  Every write is *)
(* a step, so a crash, a cancellation, a deletion or another handler can    *)
(* fall between any two.  The journal is the one Sessions describes; here   *)
(* an append is one step, which the theorem DurableReads about Sessions     *)
(* justifies.  The kernel is external: it takes a request or refuses it,    *)
(* and a request it took ends with a text or an error.                      *)
(***************************************************************************)
EXTENDS Journal, FiniteSets

CONSTANTS
  Thread,       \* execution segments: binding ids
  Frozen,       \* what a segment is bound to: connection, credentials, model, instructions
  RoleOf,       \* RoleOf[f]: the role a segment of f runs under
  MaxInstances, \* bound: LiveThreads of one binding that have a handler at the same time
  MaxRows,      \* bound: rows at which no turn begins any more
  MaxCrashes    \* bound: crashes

ASSUME ThreadsAreNames == None \notin Thread /\ None \notin Frozen /\ RoleOf \in [Frozen -> Role]
ASSUME ThreadBounds == MaxInstances \in Nat \ {0} /\ MaxRows \in Nat /\ MaxCrashes \in Nat

VARIABLES
  phase,     \* "down", the three parts of serve's recovery, or "up"
  journal,   \* the conversation's rows (durable)
  receipts,  \* receipts/<request>.json (durable)
  state,     \* the bindings in state.json (durable)
  rollout,   \* rollout[th]: results in the private history of th's kernel thread (durable)
  bound,     \* the bindings in memory
  live,      \* live[th]: which LiveThread of th the registry holds, 0 for none
  cancelled, \* LiveThreads whose cancelled flag is set
  runs,      \* turn/start handlers that hold the run lock of their LiveThread
  opening,   \* the thread/open that has chosen its binding and waits for the kernel
  stopping,  \* the session/cancel in progress
  removing,  \* what session/delete still has to do after the tombstone
  client,    \* the thread the client opened last, and the request it waits for
  submitted, \* how often the kernel took each request
  crashes

durable == <<journal, receipts, state, rollout>>
memory  == <<bound, live, cancelled, runs, opening, stopping, removing>>
vars    == <<phase, durable, memory, client, submitted, crashes>>

NoReceipt == [status |-> "none", thread |-> None, native |-> FALSE]
NoBinding == [frozen |-> None, context |-> 0, blocked |-> None]
NotOpening == [thread |-> None, binding |-> NoBinding, started |-> FALSE]
NotStopping == [turn |-> None, left |-> {}, waits |-> {}]
NotRemoving == [at |-> "no", threads |-> {}]
Idle == [thread |-> None, request |-> None]

Settled == Outcome \cup {"uncertain"}
Receipt == [status: {"none", "accepted", "running"} \cup Settled, thread: Thread \cup {None}, native: BOOLEAN]
Binding == [frozen: Frozen \cup {None}, context: Nat, blocked: Key \cup {None}]
Instance == Thread \X (1 .. MaxInstances)

\* Where a turn/start handler is: named for the last thing it did.
Step == {"locked", "admitted", "begun", "recorded", "accepted", "submitted", "collecting",
         "ended", "journaled", "written", "noted", "saved", "finished", "blocked"}
Run == [thread: Thread, inst: 1 .. MaxInstances, frozen: Frozen \cup {None}, request: Key, turn: Turn, at: Step,
        native: BOOLEAN, result: Outcome \cup {"none"}]

TypeOK ==
  /\ phase \in {"down", "receipts", "journal", "results", "up"}
  /\ journal \in Seq(Event)
  /\ receipts \in [Key -> Receipt]
  /\ state \in [Thread -> Binding] /\ bound \in [Thread -> Binding]
  /\ rollout \in [Thread -> SUBSET Key]
  /\ live \in [Thread -> 0 .. MaxInstances] /\ cancelled \subseteq Instance
  /\ runs \subseteq Run
  /\ opening \in [thread: Thread \cup {None}, binding: Binding, started: BOOLEAN]
  /\ stopping \in [turn: Turn \cup {None}, left: SUBSET Instance, waits: SUBSET Instance]
  /\ removing \in [at: {"no", "close", "receipts", "save"}, threads: SUBSET Thread]
  /\ client \in [thread: Thread \cup {None}, request: Key \cup {None}]
  /\ submitted \in [Key -> Nat] /\ crashes \in 0 .. MaxCrashes

NoBindings == [th \in Thread |-> NoBinding]

Init ==
  /\ phase = "down"
  /\ bound = NoBindings /\ live = [th \in Thread |-> 0]
  /\ cancelled = {} /\ runs = {} /\ opening = NotOpening /\ stopping = NotStopping /\ removing = NotRemoving
  /\ journal = Extended(NoRows, CreatedDraft("local"))
  /\ receipts = [r \in Key |-> NoReceipt] /\ state = NoBindings
  /\ rollout = [th \in Thread |-> {}]
  /\ client = Idle /\ submitted = [r \in Key |-> 0] /\ crashes = 0

----------------------------------------------------------------------------
(* The journal, as the handlers write it.                                  *)

\* A model result carries the status of its receipt.
AnswerDraft(x) == [ResultDraft(x.turn, x.request) EXCEPT !.data = <<x.result, None>>]

\* The requests whose completed result is in the journal.
Answered == {r \in Key : \E i \in DOMAIN journal :
               journal[i].id = <<"result", r>> /\ journal[i].data[1] = "completed"}

\* The turn was begun under this role.
BegunAs(t, role) ==
  \E i \in DOMAIN journal :
    journal[i].kind = "turn_begin" /\ journal[i].turn = t /\ journal[i].data[1] = role

Appends(draft) == journal' = Extended(journal, draft)

\* append takes a draft when the same event is there already, or its request is active.
IsThere(draft) ==
  \E i \in DOMAIN journal :
    /\ journal[i].id = draft.id /\ journal[i].kind = draft.kind
    /\ journal[i].turn = draft.turn /\ journal[i].data = draft.data

Takes(draft) ==
  Live(journal) /\ IF HasId(journal, draft.id) THEN IsThere(draft) ELSE MayRecord(journal, draft)

Puts(draft) == IF HasId(journal, draft.id) THEN UNCHANGED journal ELSE Appends(draft)

----------------------------------------------------------------------------
(* Opening and closing execution segments.                                 *)

Up == phase = "up"

Locked(inst) == \E x \in runs : <<x.thread, x.inst>> = inst

Holds(th) == <<th, live[th]>>

\* Segments bound to f that contain the latest shared context and are not blocked.
Fitting(f) ==
  {th \in Thread : /\ bound[th].frozen = f
                   /\ bound[th].context = Revision(journal)
                   /\ bound[th].blocked = None}

Unused == {th \in Thread : bound[th] = NoBinding /\ rollout[th] = {} /\ state[th] = NoBinding}

\* thread/open, for the active turn or for none, chooses a binding or makes a new one.  A
\* live one is returned at once; the creation lock is held until the kernel has answered.
Open(f, t) ==
  /\ Up /\ client.request = None /\ opening = NotOpening
  /\ Live(journal)
  /\ t # None => t \in ActiveTurns(journal) /\ BegunAs(t, RoleOf[f])
  /\ \E th \in IF Fitting(f) # {} THEN Fitting(f)
               ELSE IF Unused # {} THEN {CHOOSE th \in Unused : TRUE} ELSE {} :
       IF live[th] # 0
         THEN client' = [client EXCEPT !.thread = th] /\ UNCHANGED opening
         ELSE /\ opening' = [thread |-> th, started |-> FALSE, binding |->
                               IF bound[th] # NoBinding THEN bound[th]
                               ELSE [frozen |-> f, context |-> Revision(journal), blocked |-> None]]
              /\ UNCHANGED client
  /\ UNCHANGED <<phase, durable, bound, live, cancelled, runs, stopping, removing, submitted, crashes>>

\* The segment's private history is where a deletion has not removed it.
HasHistory(th) == Live(journal) \/ (removing.at = "close" /\ th \in removing.threads)

\* The kernel thread starts: from its private history, or from the journal's completed
\* results when the binding is new.
StartKernel ==
  /\ Up /\ opening.thread # None /\ ~opening.started
  /\ LET th == opening.thread IN
       IF bound[th] # NoBinding
         THEN HasHistory(th) /\ UNCHANGED rollout
         ELSE Live(journal) /\ rollout' = [rollout EXCEPT ![th] = Answered]
  /\ opening' = [opening EXCEPT !.started = TRUE]
  /\ UNCHANGED <<phase, journal, receipts, state, bound, live, cancelled, runs, stopping, removing,
                 client, submitted, crashes>>

FreeInstances(th) == {n \in 1 .. MaxInstances : ~Locked(<<th, n>>)}

\* The binding read at the start goes back into the map and is saved; the thread is live.
Opened ==
  /\ Up /\ opening.started
  /\ LET th == opening.thread IN
       /\ FreeInstances(th) # {}
       /\ LET n == CHOOSE n \in FreeInstances(th) : \A m \in FreeInstances(th) : n <= m IN
            /\ live' = [live EXCEPT ![th] = n]
            /\ cancelled' = cancelled \ {<<th, n>>}
       /\ bound' = [bound EXCEPT ![th] = opening.binding]
       /\ state' = bound'
       /\ client' = IF client.request = None THEN [client EXCEPT !.thread = th] ELSE client
  /\ opening' = NotOpening
  /\ UNCHANGED <<phase, journal, receipts, rollout, runs, stopping, removing, submitted, crashes>>

\* The kernel does not start the thread, the models or credentials are not to
\* be had, or the history is gone.
OpenFails ==
  /\ Up /\ opening # NotOpening /\ ~opening.started
  /\ opening' = NotOpening
  /\ UNCHANGED <<phase, durable, bound, live, cancelled, runs, stopping, removing, client, submitted, crashes>>

\* thread/close takes the LiveThread out of the registry, sets its flag and stops the
\* kernel thread.  Its handler, if there is one, runs on.
Close(th) ==
  /\ Up /\ live[th] # 0
  /\ cancelled' = cancelled \cup {Holds(th)}
  /\ live' = [live EXCEPT ![th] = 0]
  /\ client' = Idle
  /\ UNCHANGED <<phase, durable, bound, runs, opening, stopping, removing, submitted, crashes>>

----------------------------------------------------------------------------
(* User requests, by session/begin, session/finish, turn/cancel and        *)
(* session/cancel.                                                         *)

BeginTurn(t, role) ==
  /\ Up /\ client = Idle /\ Len(journal) < MaxRows
  /\ LET draft == BeginDraft(t, role, None)
     IN  Takes(draft) /\ Puts(draft)
  /\ UNCHANGED <<phase, receipts, state, rollout, memory, client, submitted, crashes>>

\* The client finishes the user request when it waits for no model request.
FinishTurn(t, status) ==
  /\ Up /\ client.request = None /\ Live(journal)
  /\ LET draft == EndDraft(t, status)
     IN  ~HasId(journal, draft.id) /\ MayRecord(journal, draft) /\ Appends(draft)
  /\ client' = Idle
  /\ UNCHANGED <<phase, receipts, state, rollout, memory, submitted, crashes>>

\* turn/cancel sets the flag and interrupts the kernel; then it waits for the handler to
\* leave, which changes nothing.
Cancel(th) ==
  /\ Up /\ live[th] # 0
  /\ cancelled' = cancelled \cup {Holds(th)}
  /\ UNCHANGED <<phase, durable, bound, live, runs, opening, stopping, removing, client, submitted, crashes>>

\* session/cancel notes the active turn and the threads that are live at that moment ...
StopTurn(t) ==
  /\ Up /\ stopping = NotStopping /\ Live(journal) /\ t \in ActiveTurns(journal)
  /\ stopping' = [turn |-> t, left |-> {Holds(th) : th \in {th \in Thread : live[th] # 0}}, waits |-> {}]
  /\ UNCHANGED <<phase, durable, bound, live, cancelled, runs, opening, removing, client, submitted, crashes>>

\* ... cancels, one after the other, those whose run lock is taken, and waits for each ...
StopThread(inst) ==
  /\ Up /\ inst \in stopping.left /\ stopping.waits = {}
  /\ LET busy == Locked(inst) /\ Holds(inst[1]) = inst IN
       /\ cancelled' = IF busy THEN cancelled \cup {inst} ELSE cancelled
       /\ stopping' = [stopping EXCEPT !.left = @ \ {inst}, !.waits = IF busy THEN {inst} ELSE {}]
  /\ UNCHANGED <<phase, durable, bound, live, runs, opening, removing, client, submitted, crashes>>

StopWaited ==
  /\ Up /\ stopping.waits # {} /\ \A inst \in stopping.waits : ~Locked(inst)
  /\ stopping' = [stopping EXCEPT !.waits = {}]
  /\ UNCHANGED <<phase, durable, bound, live, cancelled, runs, opening, removing, client, submitted, crashes>>

\* ... for at most 15 seconds ...
StopTimesOut ==
  /\ Up /\ stopping.waits # {}
  /\ stopping' = NotStopping
  /\ UNCHANGED <<phase, durable, bound, live, cancelled, runs, opening, removing, client, submitted, crashes>>

\* ... and finishes the turn, unless it ended by itself.
StopFinish ==
  /\ Up /\ stopping.turn # None /\ stopping.left = {} /\ stopping.waits = {}
  /\ LET draft == EndDraft(stopping.turn, "interrupted") IN
       IF Live(journal) /\ ~HasId(journal, draft.id) /\ MayRecord(journal, draft)
         THEN Appends(draft) ELSE UNCHANGED journal
  /\ stopping' = NotStopping
  /\ UNCHANGED <<phase, receipts, state, rollout, bound, live, cancelled, runs, opening, removing,
                 client, submitted, crashes>>

----------------------------------------------------------------------------
(* turn/start.                                                             *)

\* The client stops waiting: a timeout, a closed session, a lost connection.
GiveUp ==
  /\ client.request # None
  /\ client' = Idle
  /\ UNCHANGED <<phase, durable, memory, submitted, crashes>>

\* The handler of run x goes on to step `at`.
Goes(x, at) == runs' = (runs \ {x}) \cup {[x EXCEPT !.at = at]}

\* The handler of run x returns, with or without an error, and releases the run lock.
Leave(x) ==
  /\ runs' = runs \ {x}
  /\ client' = IF client.request = x.request THEN Idle ELSE client

\* Mutant of Start: a thread that is no longer live is not refused.
StartWithoutThread(t, r) ==
  /\ Up /\ client.thread # None /\ client.request = None
  /\ t = r \/ HasId(journal, <<"begin", t>>)
  /\ runs' = runs \cup {[thread |-> client.thread, inst |-> live[client.thread], request |-> r,
                         frozen |-> bound[client.thread].frozen, turn |-> t, at |-> "locked",
                         native |-> FALSE, result |-> "none"]}
  /\ client' = [client EXCEPT !.request = r]
  /\ UNCHANGED <<phase, durable, bound, live, cancelled, opening, stopping, removing, submitted, crashes>>

\* The client starts a request on the thread it opened, in a user turn it has begun or as a
\* turn of its own.  It uses a request id again only when that request's handler is gone.
Start(t, r) ==
  /\ Up /\ client.thread # None /\ client.request = None /\ \A x \in runs : x.request # r
  /\ t = r \/ HasId(journal, <<"begin", t>>)
  /\ LET th == client.thread IN
       IF live[th] # 0 /\ ~Locked(Holds(th))
         THEN /\ runs' = runs \cup {[thread |-> th, inst |-> live[th], frozen |-> bound[th].frozen,
                                     request |-> r, turn |-> t, at |-> "locked", native |-> FALSE, result |-> "none"]}
              /\ client' = [client EXCEPT !.request = r]
         ELSE client' = Idle /\ UNCHANGED runs
  /\ UNCHANGED <<phase, durable, bound, live, cancelled, opening, stopping, removing, submitted, crashes>>

\* Mutant of Admit: the receipt of an earlier attempt is not looked for.
AdmitWithoutReceipt(x) ==
  /\ x.at = "locked"
  /\ IF bound[x.thread].blocked # None
       THEN Leave(x) /\ UNCHANGED cancelled
       ELSE /\ cancelled' = cancelled \ {<<x.thread, x.inst>>}
            /\ Goes(x, "admitted") /\ UNCHANGED client
  /\ UNCHANGED <<phase, durable, bound, live, opening, stopping, removing, submitted, crashes>>

\* A request with a receipt is not replayed, and a blocked thread takes none.
Admit(x) ==
  /\ x.at = "locked"
  /\ IF receipts[x.request].status # "none" \/ bound[x.thread].blocked # None
       THEN Leave(x) /\ UNCHANGED cancelled
       ELSE /\ cancelled' = cancelled \ {<<x.thread, x.inst>>}
            /\ Goes(x, "admitted") /\ UNCHANGED client
  /\ UNCHANGED <<phase, durable, bound, live, opening, stopping, removing, submitted, crashes>>

\* Without a user turn the request is a turn of its own, named like the request.
Own(x) == x.turn = x.request

BeginOwn(x) ==
  /\ x.at = "admitted" /\ Own(x)
  /\ LET draft == BeginDraft(x.turn, RoleOf[x.frozen], None) IN
       IF Takes(draft) THEN Puts(draft) /\ Goes(x, "begun") /\ UNCHANGED client
         ELSE Leave(x) /\ UNCHANGED journal
  /\ UNCHANGED <<phase, receipts, state, rollout, bound, live, cancelled, opening, stopping, removing,
                 submitted, crashes>>

\* assert_active, and the input row.
Record(x) ==
  /\ x.at = IF Own(x) THEN "begun" ELSE "admitted"
  /\ LET draft == InputDraft(x.turn, x.request) IN
       IF Takes(draft) /\ x.turn \in ActiveTurns(journal) /\ BegunAs(x.turn, RoleOf[x.frozen])
         THEN Puts(draft) /\ Goes(x, "recorded") /\ UNCHANGED client
         ELSE Leave(x) /\ UNCHANGED journal
  /\ UNCHANGED <<phase, receipts, state, rollout, bound, live, cancelled, opening, stopping, removing,
                 submitted, crashes>>

Writes(x, status, native) ==
  receipts' = [receipts EXCEPT ![x.request] = [status |-> status, thread |-> x.thread, native |-> native]]

\* Mutant of Accept: the receipt is not on disk before the kernel gets the request.
AcceptInMemory(x) ==
  /\ x.at = "recorded"
  /\ Goes(x, "accepted")
  /\ UNCHANGED <<phase, durable, bound, live, cancelled, opening, stopping, removing, client,
                 submitted, crashes>>

Accept(x) ==
  /\ x.at = "recorded"
  /\ Writes(x, "accepted", FALSE) /\ Goes(x, "accepted")
  /\ UNCHANGED <<phase, journal, state, rollout, bound, live, cancelled, opening, stopping, removing,
                 client, submitted, crashes>>

\* The kernel takes the request, unless the flag is set, the kernel thread was stopped, or
\* something else fails first.
Submit(x) ==
  /\ x.at = "accepted"
  /\ \/ /\ <<x.thread, x.inst>> \notin cancelled /\ Holds(x.thread) = <<x.thread, x.inst>>
        /\ submitted' = [submitted EXCEPT ![x.request] = @ + 1]
        /\ Goes(x, "submitted")
     \/ /\ runs' = (runs \ {x}) \cup {[x EXCEPT !.at = "ended", !.result = "failed"]}
        /\ UNCHANGED submitted
  /\ UNCHANGED <<phase, durable, bound, live, cancelled, opening, stopping, removing, client, crashes>>

\* The receipt gets the kernel's turn id, unless deletion took it away.
MarkRunning(x) ==
  /\ x.at = "submitted"
  /\ IF receipts[x.request].status = "none"
       THEN /\ runs' = (runs \ {x}) \cup {[x EXCEPT !.at = "ended", !.result = "failed"]}
            /\ UNCHANGED receipts
       ELSE Writes(x, "running", TRUE) /\ Goes(x, "collecting")
  /\ UNCHANGED <<phase, journal, state, rollout, bound, live, cancelled, opening, stopping, removing,
                 client, submitted, crashes>>

\* The collector returns the kernel's text, which the kernel has flushed to its history, or
\* an error: its own, a cancellation, a timeout or a closed thread.
Collect(x) ==
  /\ x.at = "collecting"
  /\ \E how \in {"completed", "failed"} :
       /\ runs' = (runs \ {x}) \cup {[x EXCEPT !.at = "ended", !.result = how]}
       /\ rollout' = IF how = "completed" THEN [rollout EXCEPT ![x.thread] = @ \cup {x.request}] ELSE rollout
  /\ UNCHANGED <<phase, journal, receipts, state, bound, live, cancelled, opening, stopping, removing,
                 client, submitted, crashes>>

\* The outcome goes into the journal first.
Conclude(x) ==
  /\ x.at = "ended"
  /\ LET native == receipts[x.request].native
         result == IF x.result = "completed" THEN "completed" ELSE IF native THEN "interrupted" ELSE "failed"
         y == [x EXCEPT !.at = "journaled", !.native = native \/ result = "completed", !.result = result]
     IN  IF Live(journal) /\ ~HasId(journal, AnswerDraft(y).id)
           THEN Appends(AnswerDraft(y)) /\ runs' = (runs \ {x}) \cup {y} /\ UNCHANGED client
           ELSE Leave(x) /\ UNCHANGED journal
  /\ UNCHANGED <<phase, receipts, state, rollout, bound, live, cancelled, opening, stopping, removing,
                 submitted, crashes>>

WriteReceipt(x) ==
  /\ x.at = "journaled"
  /\ Writes(x, x.result, x.native) /\ Goes(x, "written")
  /\ UNCHANGED <<phase, journal, state, rollout, bound, live, cancelled, opening, stopping, removing,
                 client, submitted, crashes>>

\* The binding is taken to contain the journal's latest result ...
NoteContext(x) ==
  /\ x.at = "written"
  /\ IF Live(journal)
       THEN /\ bound' = IF bound[x.thread] = NoBinding THEN bound
                        ELSE [bound EXCEPT ![x.thread].context = Revision(journal)]
            /\ Goes(x, "noted") /\ UNCHANGED client
       ELSE Leave(x) /\ UNCHANGED bound
  /\ UNCHANGED <<phase, durable, live, cancelled, opening, stopping, removing, submitted, crashes>>

\* ... and the state file says so.
SaveContext(x) ==
  /\ x.at = "noted"
  /\ state' = bound
  /\ Goes(x, IF Own(x) THEN "saved" ELSE "finished")
  /\ UNCHANGED <<phase, journal, receipts, rollout, bound, live, cancelled, opening, stopping, removing,
                 client, submitted, crashes>>

\* A turn of its own ends with its request.
FinishOwn(x) ==
  /\ x.at = "saved"
  /\ LET draft == EndDraft(x.turn, IF x.result = "completed" THEN "completed" ELSE "failed") IN
       \* finish looks for its end row by id alone.
       IF Live(journal) /\ (HasId(journal, draft.id) \/ MayRecord(journal, draft))
         THEN Puts(draft) /\ Goes(x, "finished") /\ UNCHANGED client
         ELSE Leave(x) /\ UNCHANGED journal
  /\ UNCHANGED <<phase, receipts, state, rollout, bound, live, cancelled, opening, stopping, removing,
                 submitted, crashes>>

\* A request that was interrupted blocks its thread ...
Block(x) ==
  /\ x.at = "finished"
  /\ IF x.result # "completed" /\ (x.native \/ <<x.thread, x.inst>> \in cancelled)
       THEN /\ bound' = IF bound[x.thread] = NoBinding THEN bound
                        ELSE [bound EXCEPT ![x.thread].blocked = x.request]
            /\ Goes(x, "blocked") /\ UNCHANGED client
       ELSE Leave(x) /\ UNCHANGED bound
  /\ UNCHANGED <<phase, durable, live, cancelled, opening, stopping, removing, submitted, crashes>>

\* ... and only now on disk.
SaveBlock(x) ==
  /\ x.at = "blocked"
  /\ state' = bound
  /\ Leave(x)
  /\ UNCHANGED <<phase, journal, receipts, rollout, bound, live, cancelled, opening, stopping, removing,
                 submitted, crashes>>

Advance(x) ==
  \/ Admit(x) \/ BeginOwn(x) \/ Record(x) \/ Accept(x) \/ Submit(x) \/ MarkRunning(x) \/ Collect(x)
  \/ Conclude(x) \/ WriteReceipt(x) \/ NoteContext(x) \/ SaveContext(x) \/ FinishOwn(x)
  \/ Block(x) \/ SaveBlock(x)

----------------------------------------------------------------------------
(* session/delete, after or again after the tombstone.                     *)

Delete ==
  /\ Up /\ removing = NotRemoving
  /\ Deleted(journal) \/ ActiveTurns(journal) = {}
  /\ journal' = <<Numbered(Tombstone, 1)>>
  /\ removing' = [at |-> "close", threads |-> {th \in Thread : bound[th] # NoBinding}]
  /\ UNCHANGED <<phase, receipts, state, rollout, bound, live, cancelled, runs, opening, stopping,
                 client, submitted, crashes>>

\* The conversation's threads are closed and their private histories removed ...
RemoveThreads ==
  /\ Up /\ removing.at = "close"
  /\ LET held == {th \in removing.threads : live[th] # 0} IN
       /\ cancelled' = cancelled \cup {Holds(th) : th \in held}
       /\ live' = [th \in Thread |-> IF th \in held THEN 0 ELSE live[th]]
  /\ rollout' = [th \in Thread |-> IF th \in removing.threads THEN {} ELSE rollout[th]]
  /\ removing' = [removing EXCEPT !.at = "receipts"]
  /\ UNCHANGED <<phase, journal, receipts, state, bound, runs, opening, stopping, client, submitted, crashes>>

\* ... then the receipts of their requests ...
RemoveReceipts ==
  /\ Up /\ removing.at = "receipts"
  /\ receipts' = [r \in Key |-> IF receipts[r].thread \in removing.threads THEN NoReceipt ELSE receipts[r]]
  /\ removing' = [removing EXCEPT !.at = "save"]
  /\ UNCHANGED <<phase, journal, state, rollout, bound, live, cancelled, runs, opening, stopping,
                 client, submitted, crashes>>

\* ... and at last the bindings.
RemoveBindings ==
  /\ Up /\ removing.at = "save"
  /\ bound' = [th \in Thread |-> IF th \in removing.threads THEN NoBinding ELSE bound[th]]
  /\ state' = bound'
  /\ removing' = NotRemoving
  /\ UNCHANGED <<phase, journal, receipts, rollout, live, cancelled, runs, opening, stopping,
                 client, submitted, crashes>>

----------------------------------------------------------------------------
(* Stopping, and what serve does before it takes requests.                 *)

Crash ==
  /\ phase # "down" /\ crashes < MaxCrashes
  /\ phase' = "down" /\ client' = Idle
  /\ bound' = NoBindings /\ live' = [th \in Thread |-> 0] /\ cancelled' = {} /\ runs' = {}
  /\ opening' = NotOpening /\ stopping' = NotStopping /\ removing' = NotRemoving
  /\ crashes' = crashes + 1
  /\ UNCHANGED <<durable, submitted>>

LoadState ==
  /\ phase = "down"
  /\ phase' = "receipts" /\ bound' = state
  /\ UNCHANGED <<durable, live, cancelled, runs, opening, stopping, removing, client, submitted, crashes>>

\* Mutant of Unsettled: only requests the kernel had acknowledged are recovered.
RunningOnly == {r \in Key : receipts[r].status = "running"}

Unsettled == {r \in Key : receipts[r].status \in {"accepted", "running"}}

\* recover_receipts: what was in flight is uncertain, and blocks its thread in memory ...
RecoverReceipt(r) ==
  /\ phase = "receipts" /\ r \in Unsettled
  /\ receipts' = [receipts EXCEPT ![r].status = "uncertain"]
  /\ LET th == receipts[r].thread IN
       bound' = IF bound[th] = NoBinding THEN bound ELSE [bound EXCEPT ![th].blocked = r]
  /\ UNCHANGED <<phase, journal, state, rollout, live, cancelled, runs, opening, stopping, removing,
                 client, submitted, crashes>>

\* ... and on disk after the last receipt.
SaveRecovered ==
  /\ phase = "receipts" /\ Unsettled = {}
  /\ state' = bound /\ phase' = "journal"
  /\ UNCHANGED <<journal, receipts, rollout, memory, client, submitted, crashes>>

\* Sessions::open ends the turn that was open.
EndTurns ==
  /\ phase = "journal"
  /\ LET open == IF Live(journal) THEN ActiveTurns(journal) ELSE {} IN
       IF open = {} THEN UNCHANGED journal
       ELSE Appends(EndDraft(CHOOSE t \in open : TRUE, "interrupted"))
  /\ phase' = "results"
  /\ UNCHANGED <<receipts, state, rollout, memory, client, submitted, crashes>>

\* Journaled completed results whose receipt does not say so, of bindings that exist.
Proven ==
  IF Live(journal)
    THEN {r \in Answered : /\ receipts[r].status \in {"accepted", "running", "uncertain"}
                           /\ bound[receipts[r].thread] # NoBinding}
    ELSE {}

\* A completed result in the journal is proof: the receipt follows, the thread is free.
Reconcile(r) ==
  /\ phase = "results" /\ r \in Proven
  /\ receipts' = [receipts EXCEPT ![r].status = "completed", ![r].native = TRUE]
  /\ LET th == receipts[r].thread IN
       bound' = IF bound[th].blocked = r THEN [bound EXCEPT ![th].blocked = None] ELSE bound
  /\ UNCHANGED <<phase, journal, state, rollout, live, cancelled, runs, opening, stopping, removing,
                 client, submitted, crashes>>

\* Mutant of Serve: the journal is not searched for results without a receipt.
ServeAtOnce ==
  /\ phase = "results"
  /\ state' = bound /\ phase' = "up"
  /\ UNCHANGED <<journal, receipts, rollout, memory, client, submitted, crashes>>

Serve ==
  /\ phase = "results" /\ Proven = {}
  /\ state' = bound /\ phase' = "up"
  /\ UNCHANGED <<journal, receipts, rollout, memory, client, submitted, crashes>>

----------------------------------------------------------------------------
(* The specification.                                                      *)

Recovery ==
  LoadState \/ SaveRecovered \/ EndTurns \/ Serve \/ \E r \in Key : RecoverReceipt(r) \/ Reconcile(r)

Deletion == Delete \/ RemoveThreads \/ RemoveReceipts \/ RemoveBindings

Stopping ==
  \/ StopWaited \/ StopTimesOut \/ StopFinish
  \/ \E t \in Turn : StopTurn(t)
  \/ \E inst \in Instance : StopThread(inst)

Requests ==
  \/ StartKernel \/ Opened \/ OpenFails \/ GiveUp
  \/ \E f \in Frozen, t \in Turn \cup {None} : Open(f, t)
  \/ \E th \in Thread : Close(th) \/ Cancel(th)
  \/ \E t \in Turn :
       \/ \E role \in Role : BeginTurn(t, role)
       \/ \E status \in {"completed", "failed"} : FinishTurn(t, status)
       \/ \E r \in Key : Start(t, r)

Next == Recovery \/ Crash \/ Deletion \/ Stopping \/ Requests \/ \E x \in runs : Advance(x)

\* A handler that started goes on, whatever its client does: a spawned task is not dropped,
\* and the kernel ends every request by its deadline.  The process is started again.
Fairness ==
  /\ WF_vars(Recovery)
  /\ \A th \in Thread, n \in 1 .. MaxInstances :
       WF_vars(\E x \in runs : x.thread = th /\ x.inst = n /\ Advance(x))

Spec == Init /\ [][Next]_vars /\ Fairness

----------------------------------------------------------------------------
(* Properties.                                                             *)

InFlight(r) == \E x \in runs : x.request = r

\* No request is given to the kernel twice, although its id may be sent again on any thread
\* and after any crash.
NoReplay == \A r \in Key : submitted[r] <= 1

\* What the kernel was given is on disk, input and receipt, as long as the conversation is.
SubmittedIsRecorded ==
  \A r \in Key : submitted[r] > 0 /\ Live(journal) =>
    HasId(journal, <<"input", r>>) /\ receipts[r].status # "none"

\* A receipt says completed only when the result is in the journal, and a result in the
\* journal is not forgotten: once serving, its receipt says completed or is about to.
ReceiptsMatchResults ==
  Up /\ Live(journal) =>
    \A r \in Key : ~InFlight(r) => (receipts[r].status = "completed" <=> r \in Answered)

\* Every accepted request is settled, by its handler or by recovery, or its conversation is
\* deleted.
RequestsSettle ==
  \A r \in Key : receipts[r].status \in {"accepted", "running"}
    ~> receipts[r].status \in Settled \/ Deleted(journal)

\* A thread whose request was interrupted or is uncertain takes no other request.
InterruptedThreadsAreBlocked ==
  Up /\ Live(journal) => \A r \in Key :
    receipts[r].status \in {"interrupted", "uncertain"} /\ ~InFlight(r)
      => bound[receipts[r].thread].blocked # None

\* A finished deletion leaves no binding, receipt or private history of the conversation.
DeletionIsComplete ==
  Up /\ Deleted(journal) /\ removing = NotRemoving /\ opening = NotOpening /\ runs = {} =>
    /\ bound = NoBindings /\ state = NoBindings
    /\ \A r \in Key : receipts[r] = NoReceipt
    /\ \A th \in Thread : rollout[th] = {}

\* A segment that open may choose has heard every result of the conversation.
SegmentsHoldContext ==
  Up => \A f \in Frozen : \A th \in Fitting(f) : Answered \subseteq rollout[th]
============================================================================
