--------------------------- MODULE HarnessClient ---------------------------
(***************************************************************************)
(* HarnessClient (src/harness/client.ts) and one HarnessSession            *)
(* (src/harness/session.ts) against a native process that may die: the     *)
(* connection, its pending requests with their timeouts, and the model     *)
(* turn with its recovery through turn/status.                             *)
(*                                                                         *)
(* The session has up to three requests out at once: that of `run`, that   *)
(* of `cancel` and that of `dispose`.  A request waits for the connection  *)
(* ("ready"), is "sent", for a model turn "running", and "answered".       *)
(* Promise reactions run before the next event of the browser, so an       *)
(* answer and what the session does with it are one step.  A process is    *)
(* its number: the code compares generations to tell whose event it hears. *)
(***************************************************************************)
EXTENDS Naturals, FiniteSets

CONSTANTS
  MaxProcesses,  \* bound: native processes started
  MaxRequests,   \* bound: model requests
  MaxUserTurns   \* bound: user turns

ASSUME BoundsAreNumbers == {MaxProcesses, MaxRequests, MaxUserTurns} \subseteq Nat

Users     == {"run", "cancel", "close"}
RequestIds == 1..MaxRequests
Segments  == {"tools", "plain"}  \* a conversation's thread with tools, and that without
Unclear == {"running", "interrupted", "uncertain"}

VARIABLES
  link,     \* HarnessClient: the process heard, the one starting, processes started
  calls,    \* the request each user of the client waits for
  session,  \* the fields of HarnessSession, and the user turn its binding names
  native    \* the living process, its threads, the receipts and the user turn that is open

clientVars == <<link, calls, session, native>>

NoCall   == [stage |-> "none", method |-> "none", process |-> 0, answer |-> "none"]
NoThread == [process |-> 0, segment |-> "none"]

ClientInit ==
  /\ link = [process |-> 0, starting |-> 0, started |-> 0]
  /\ calls = [u \in Users |-> NoCall]
  /\ session = [thread |-> NoThread, inFlight |-> 0, requests |-> 0, disposed |-> FALSE,
                uncertain |-> FALSE, cancelled |-> FALSE, userTurn |-> 0, hostTurn |-> 1]
  /\ native = [alive |-> 0, threads |-> {}, openTurn |-> 1,
               receipt |-> [r \in RequestIds |-> "not-received"],
               place |-> [r \in RequestIds |-> [turn |-> 0, thread |-> NoThread]]]

-----------------------------------------------------------------------------
(* The connection.                                                         *)

\* request(): waits for the start under way, writes, or starts a process and waits for it.
Issue(l, c, u, method) ==
  IF l.process # 0
    THEN [link |-> l, calls |-> [c EXCEPT ![u] =
            [stage |-> "sent", method |-> method, process |-> l.process, answer |-> "none"]]]
    ELSE [link |-> IF l.starting # 0 THEN l ELSE [l EXCEPT !.starting = l.started + 1, !.started = @ + 1],
          calls |-> [c EXCEPT ![u] =
            [stage |-> "ready", method |-> method, process |-> 0, answer |-> "none"]]]

Become(next) == link' = next.link /\ calls' = next.calls /\ session' = next.session

-----------------------------------------------------------------------------
(* What the session does when a request settles; "error" is a rejection.   *)

RunEnds(l, c, s) ==
  [link |-> l, calls |-> [c EXCEPT !["run"] = NoCall], session |-> [s EXCEPT !.inFlight = 0]]
Then(next, u, method) ==
  LET issued == Issue(next.link, next.calls, u, method)
  IN [link |-> issued.link, calls |-> issued.calls, session |-> next.session]
RunCalls(l, c, s, method) == Then([link |-> l, calls |-> c, session |-> s], "run", method)

\* Mutant: a cancellation during the opening is not noticed.
AfterOpenUnaware(l, c, s, answer) ==
  LET opened == IF answer = "error" THEN s
                ELSE [s EXCEPT !.thread = [process |-> c["run"].process, segment |-> answer]]
      ended  == RunEnds(l, c, opened)
  IN IF s.disposed THEN IF opened.thread = NoThread THEN ended ELSE Then(ended, "close", "thread/close")
     ELSE IF answer = "error" THEN ended
     ELSE RunCalls(l, c, opened, "turn/start")

\* After the thread was opened (or not); a disposed session closes the thread it has.
AfterOpen(l, c, s, answer) ==
  LET opened == IF answer = "error" THEN s
                ELSE [s EXCEPT !.thread = [process |-> c["run"].process, segment |-> answer]]
      ended  == RunEnds(l, c, opened)
  IN IF s.disposed THEN IF opened.thread = NoThread THEN ended ELSE Then(ended, "close", "thread/close")
     ELSE IF answer = "error" \/ s.cancelled THEN ended
     ELSE RunCalls(l, c, opened, "turn/start")

\* A turn that was submitted and failed is looked up; one that was not is simply refused.
AfterTurn(l, c, s, answer, submitted) ==
  IF answer = "completed" \/ ~submitted THEN RunEnds(l, c, s) ELSE RunCalls(l, c, s, "turn/status")

\* Mutant: a request found running is not held against the session.
AfterStatusTrusts(l, c, s, answer) ==
  IF answer = "completed" THEN RunCalls(l, c, s, "session/read")
  ELSE RunEnds(l, c, [s EXCEPT !.uncertain = @ \/ answer \in {"uncertain", "error"}])

AfterStatus(l, c, s, answer) ==
  IF answer = "completed" THEN RunCalls(l, c, s, "session/read")
  ELSE RunEnds(l, c, [s EXCEPT !.uncertain = @ \/ answer \in Unclear \cup {"error"}])

AfterRead(l, c, s, answer) == RunEnds(l, c, [s EXCEPT !.uncertain = @ \/ answer # "active"])

Settle(u, l, c, s, answer, submitted) ==
  IF u # "run" THEN [link |-> l, calls |-> [c EXCEPT ![u] = NoCall], session |-> s]
  ELSE CASE c[u].method = "thread/open"  -> AfterOpen(l, c, s, answer)
         [] c[u].method = "turn/start"   -> AfterTurn(l, c, s, answer, submitted)
         [] c[u].method = "turn/status"  -> AfterStatus(l, c, s, answer)
         [] c[u].method = "session/read" -> AfterRead(l, c, s, answer)

\* Mutant: the requests that wait for a start hear nothing of its failure.
RejectSent(stages, l, c, s, submitted) ==
  LET rest == [u \in Users |-> IF u # "run" /\ c[u].stage \in stages THEN NoCall ELSE c[u]]
  IN IF c["run"].stage \in stages \ {"ready"} THEN Settle("run", l, rest, s, "error", submitted)
     ELSE [link |-> l, calls |-> rest, session |-> s]

\* Every request in one of the stages is rejected; run goes on from there.
Reject(stages, l, c, s, submitted) ==
  LET rest == [u \in Users |-> IF u # "run" /\ c[u].stage \in stages THEN NoCall ELSE c[u]]
  IN IF c["run"].stage \in stages THEN Settle("run", l, rest, s, "error", submitted)
     ELSE [link |-> l, calls |-> rest, session |-> s]

-----------------------------------------------------------------------------
(* HarnessClient.                                                          *)

\* ready(): the process is there and answers initialize; every waiting request is written.
Started ==
  /\ link.starting # 0
  /\ link' = [link EXCEPT !.process = link.starting, !.starting = 0]
  /\ calls' = [u \in Users |-> IF calls[u].stage # "ready" THEN calls[u]
                 ELSE [calls[u] EXCEPT !.stage = "sent", !.process = link.starting]]
  /\ native' = [native EXCEPT !.alive = link.starting]
  /\ UNCHANGED session

\* The factory, initialize or the protocol version fails, or initialize times out.
StartFails ==
  /\ link.starting # 0 /\ link.started < MaxProcesses
  /\ Become(Reject({"ready"}, [link EXCEPT !.process = 0, !.starting = 0], calls, session, FALSE))
  /\ UNCHANGED native

Disconnected == Reject({"sent", "running", "answered"}, [link EXCEPT !.process = 0], calls, session, TRUE)

\* The process ends, or writes a line that is no JSON and is stopped.  The next one
\* marks what was running as uncertain, and ends the user turn that was open.
Exit ==
  /\ native.alive # 0 /\ link.started < MaxProcesses
  /\ Become(Disconnected)
  /\ native' = [native EXCEPT !.alive = 0, !.threads = {}, !.openTurn = 0,
                  !.receipt = [r \in RequestIds |-> IF @[r] = "running" THEN "uncertain" ELSE @[r]]]

\* The timer of a request: 60 seconds, 31 minutes for a model turn, 20 seconds for a
\* cancellation.  A turn that was written has been accepted by then.
Timeout(u) ==
  /\ calls[u].stage \in {"sent", "running", "answered"}
  /\ calls[u].method = "turn/start" => calls[u].stage # "sent"
  /\ Become(Settle(u, link, calls, session, "error", TRUE))
  /\ UNCHANGED native

\* The write of a request fails although the process lives, and so it is not received.
WriteFails(u) ==
  /\ calls[u].stage = "sent"
  /\ Become(Settle(u, link, calls, session, "error", TRUE))
  /\ UNCHANGED native

\* receive(): an answer of the process the client listens to.
Receive(u) ==
  /\ calls[u].stage = "answered"
  /\ Become(Settle(u, link, calls, session, calls[u].answer, TRUE))
  /\ UNCHANGED native

-----------------------------------------------------------------------------
(* HarnessSession.                                                         *)

AtRest == session.inFlight = 0

\* run: a binding of another user turn clears the cancellation and the unsettled request.
RunTurn ==
  /\ ~session.disposed /\ AtRest /\ session.requests < MaxRequests
  /\ \E s \in {IF session.userTurn = session.hostTurn THEN session
               ELSE [session EXCEPT !.userTurn = session.hostTurn, !.cancelled = FALSE, !.uncertain = FALSE]} :
       /\ ~s.cancelled /\ ~s.uncertain
       /\ Become(RunCalls(link, calls, [s EXCEPT !.inFlight = s.requests + 1, !.requests = @ + 1],
                          "thread/open"))
  /\ UNCHANGED native

CancelSession ==
  /\ calls["cancel"] = NoCall
  /\ Become(IF session.thread # NoThread /\ ~AtRest
              THEN Then([link |-> link, calls |-> calls, session |-> [session EXCEPT !.cancelled = TRUE]],
                        "cancel", "turn/cancel")
              ELSE [link |-> link, calls |-> calls, session |-> [session EXCEPT !.cancelled = TRUE]])
  /\ UNCHANGED native

\* dispose: the thread is closed at once, or after the opening under way (AfterOpen).
Dispose ==
  /\ ~session.disposed
  /\ \E s \in {[session EXCEPT !.disposed = TRUE, !.cancelled = TRUE]} :
       Become(IF calls["run"].method = "thread/open" \/ s.thread = NoThread
                THEN [link |-> link, calls |-> calls, session |-> s]
                ELSE Then([link |-> link, calls |-> calls, session |-> s], "close", "thread/close"))
  /\ UNCHANGED native

\* The host finishes its user turn and begins the next one.
NextUserTurn ==
  /\ AtRest /\ session.hostTurn < MaxUserTurns
  /\ session' = [session EXCEPT !.hostTurn = @ + 1]
  /\ native' = [native EXCEPT !.openTurn = session.hostTurn + 1]
  /\ UNCHANGED <<link, calls>>

-----------------------------------------------------------------------------
(* What the native side answers.                                           *)

Answer(u, answer) == calls' = [calls EXCEPT ![u].stage = "answered", ![u].answer = answer]
Handles(u, method) == calls[u].stage = "sent" /\ calls[u].method = method

OpensThread ==
  /\ Handles("run", "thread/open")
  /\ \/ \E g \in Segments : Answer("run", g) /\ native' = [native EXCEPT !.threads = @ \cup {g}]
     \/ Answer("run", "error") /\ UNCHANGED native
  /\ UNCHANGED <<link, session>>

RunningOn(thread) ==
  {r \in RequestIds : native.receipt[r] = "running" /\ native.place[r].thread = thread}

\* start_turn: of an open thread that runs nothing, for the user turn that is open.
StartsTurn ==
  /\ Handles("run", "turn/start")
  /\ IF /\ session.thread.process = native.alive /\ session.thread.segment \in native.threads
        /\ RunningOn(session.thread) = {} /\ native.openTurn = session.userTurn
       THEN /\ native' = [native EXCEPT !.receipt[session.inFlight] = "running",
                            !.place[session.inFlight] = [turn |-> session.userTurn, thread |-> session.thread]]
            /\ calls' = [calls EXCEPT !["run"].stage = "running"]
       ELSE Answer("run", "error") /\ UNCHANGED native
  /\ UNCHANGED <<link, session>>

TurnsOver(ended, status) ==
  IF session.inFlight \in ended /\ calls["run"].stage = "running"
    THEN [calls EXCEPT !["run"].stage = "answered", !["run"].answer = status] ELSE calls
Receipts(ended, status) == [r \in RequestIds |-> IF r \in ended THEN status ELSE native.receipt[r]]

TurnEnds ==
  /\ \E r \in RequestIds, status \in {"completed", "failed"} :
       /\ native.receipt[r] = "running"
       /\ calls' = TurnsOver({r}, status)
       /\ native' = [native EXCEPT !.receipt = Receipts({r}, status)]
  /\ UNCHANGED <<link, session>>

\* turn/cancel and thread/close stop what runs on the thread.
StopsThread ==
  /\ \E u \in {"cancel", "close"}, ended \in {RunningOn(session.thread)} :
       /\ calls[u].stage = "sent"
       /\ calls' = [TurnsOver(ended, "interrupted") EXCEPT ![u].stage = "answered", ![u].answer = "ok"]
       /\ native' = [native EXCEPT !.receipt = Receipts(ended, "interrupted"),
                       !.threads = IF u = "close" THEN @ \ {session.thread.segment} ELSE @]
  /\ UNCHANGED <<link, session>>

\* session/cancel ends the user turn that is open, and what runs for it.
TurnInterrupted ==
  /\ native.openTurn # 0
  /\ \E ended \in {{r \in RequestIds : native.receipt[r] = "running"}} :
       /\ calls' = TurnsOver(ended, "interrupted")
       /\ native' = [native EXCEPT !.openTurn = 0, !.receipt = Receipts(ended, "interrupted")]
  /\ UNCHANGED <<link, session>>

LooksUp ==
  /\ \/ Handles("run", "turn/status") /\ Answer("run", native.receipt[session.inFlight])
     \/ Handles("run", "session/read")
        /\ Answer("run", IF native.openTurn = session.userTurn THEN "active" ELSE "inactive")
  /\ UNCHANGED <<link, session, native>>

ClientNext ==
  \/ Started \/ StartFails \/ Exit
  \/ \E u \in Users : Timeout(u) \/ WriteFails(u) \/ Receive(u)
  \/ RunTurn \/ CancelSession \/ Dispose \/ NextUserTurn
  \/ OpensThread \/ StartsTurn \/ TurnEnds \/ StopsThread \/ TurnInterrupted \/ LooksUp

\* Every start comes to an end and every request has its timer.
ClientFairness ==
  /\ WF_clientVars(Started)
  /\ WF_clientVars(StartsTurn)
  /\ \A u \in Users : WF_clientVars(Timeout(u)) /\ WF_clientVars(Receive(u))
ClientSpec == ClientInit /\ [][ClientNext]_clientVars /\ ClientFairness

-----------------------------------------------------------------------------
(* Properties.                                                             *)

\* Of the model requests of one user turn at most one is running natively: a
\* request whose fate is unknown (timed out, disconnected, looked up and found
\* unsettled) blocks the session, which may get another thread for the next one.
OneModelTurn ==
  \A t \in 1..MaxUserTurns :
    Cardinality({r \in RequestIds : native.receipt[r] = "running" /\ native.place[r].turn = t}) <= 1

\* A session that was cancelled submits no model turn any more in that user turn,
\* although the cancellation may arrive while its thread is being opened.
CancelledIsNotSubmitted ==
  [][session.cancelled /\ calls["run"].method # "turn/start" /\ session'.userTurn = session.userTurn
       => calls'["run"].method # "turn/start"]_clientVars

\* Every run of the session comes to an end: whatever the process does, each request
\* is answered, rejected with the connection, or given up by its timer.
RunSettles == session.inFlight # 0 ~> session.inFlight = 0
=============================================================================
