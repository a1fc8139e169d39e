---------------------------- MODULE DesktopProofs ----------------------------
(***************************************************************************)
(* Theorems about what the desktop application keeps beside the service:   *)
(* the client of the native process (HarnessClient), the connections and   *)
(* logins (Connections), and the workspace (Workspace), each for every     *)
(* value of its constants.                                                 *)
(*                                                                         *)
(* HarnessClient.  While the session runs, it has one request out, and the *)
(* phase of that request bounds what the native receipt can be.  A run     *)
(* ends either with a receipt that is known not to be running or with the  *)
(* session marked uncertain; and the mark is only taken away together with *)
(* the user turn it was made in.                                           *)
(*                                                                         *)
(* Connections.  Every operation that can make the connection stale raises *)
(* the revision and clears it, or is a change of the native side that the  *)
(* client has not handled yet and that ends in a refresh.  So the          *)
(* connection, and the one answer of the current revision that may still   *)
(* replace it, are of the credentials as they are, or a refresh is bound   *)
(* to follow.  And every attempt of a browser login is at each moment in   *)
(* the hands of one place: the native answer, the account, or a task that  *)
(* will cancel it.                                                         *)
(*                                                                         *)
(* Workspace.  What the user draws survives every switch of canvas,        *)
(* conversation and folder, every failed call and every restart            *)
(* (EditsAreKept), and what is on screen is what is in the files once no   *)
(* command is under way (WorkspaceStaysWhole).  A transition is parked at  *)
(* an await, and the invariant says of each await what the rest of the     *)
(* transition relies on (At...): of the conversations only while no import *)
(* disturbs them, because an import takes no lock.                         *)
(***************************************************************************)
EXTENDS HarnessClient, Connections, Workspace, FiniteSetTheorems, WellFoundedInduction, TLAPS

-----------------------------------------------------------------------------
(* HarnessClient                                                           *)

----------------------------------------------------------------------------
(* Types.                                                                  *)

Status    == {"not-received", "running", "completed", "failed", "interrupted", "uncertain"}
Reply     == Segments \cup Status \cup {"none", "error", "ok", "active", "inactive"}
RunMethod == {"thread/open", "turn/start", "turn/status", "session/read"}
Method    == RunMethod \cup {"turn/cancel", "thread/close"}
Call      == [stage : {"none", "ready", "sent", "running", "answered"}, method : Method \cup {"none"},
              process : Nat, answer : Reply]
Link      == [process : Nat, starting : Nat, started : Nat]
Thread    == [process : Nat, segment : Reply]
Session   == [thread : Thread, inFlight : 0..MaxRequests, requests : 0..MaxRequests, disposed : BOOLEAN,
              uncertain : BOOLEAN, cancelled : BOOLEAN, userTurn : Nat, hostTurn : Nat]
Place     == [turn : Nat, thread : Thread]
NativeType  == [alive : Nat, threads : SUBSET Segments, openTurn : Nat, receipt : [RequestIds -> Status],
                place : [RequestIds -> Place]]

Typed ==
  /\ link \in Link
  /\ calls \in [Users -> Call]
  /\ session \in Session
  /\ native \in NativeType

----------------------------------------------------------------------------
(* The inductive invariant.                                                *)

run == calls["run"]

\* The session runs exactly while its request is out; it is then not uncertain, and
\* its number is the last one given.
OneCall ==
  /\ AtRest => run = NoCall
  /\ ~AtRest => /\ run.method \in RunMethod /\ run.stage # "none"
                /\ session.inFlight = session.requests /\ ~session.uncertain
  /\ run.stage = "running" => run.method = "turn/start"
  /\ session.userTurn <= session.hostTurn
  /\ \A r \in RequestIds : r > session.requests => native.receipt[r] = "not-received"

\* What the phase of the request says about its receipt.
Unsent == run.method = "thread/open" \/ (run.method = "turn/start" /\ run.stage \in {"ready", "sent"})
KnownEnded ==
  \/ run.method = "session/read"
  \/ run.method = "turn/start"  /\ run.stage = "answered" /\ run.answer = "completed"
  \/ run.method = "turn/status" /\ run.stage = "answered" /\ run.answer \notin Unclear \cup {"error"}
Phases ==
  ~AtRest => /\ Unsent => native.receipt[session.inFlight] = "not-received"
             /\ KnownEnded => native.receipt[session.inFlight] # "running"

\* Requests that run belong to different user turns, none later than the session's;
\* one of the session's turn is the request in flight, or the session is uncertain.
Running(r) == native.receipt[r] = "running"
TurnsApart ==
  /\ \A r \in RequestIds : Running(r) =>
       /\ native.place[r].turn <= session.userTurn
       /\ native.place[r].turn = session.userTurn => r = session.inFlight \/ session.uncertain
  /\ \A r, q \in RequestIds :
       Running(r) /\ Running(q) /\ native.place[r].turn = native.place[q].turn => r = q

Safe == Typed /\ OneCall /\ Phases /\ TurnsApart

LEMMA InitSafe == ClientInit => Safe
<1> SUFFICES ASSUME ClientInit PROVE Safe
  OBVIOUS
<1>1. MaxRequests \in Nat
  BY BoundsAreNumbers
<1>2. NoCall \in Call /\ NoThread \in Thread
  BY DEF NoCall, NoThread, Call, Thread, Reply
<1>3. Typed
  BY <1>1, <1>2 DEF ClientInit, Typed, Link, Session, NativeType, Place, Status
<1>4. OneCall /\ Phases /\ TurnsApart
  BY <1>1 DEF ClientInit, OneCall, Phases, TurnsApart, Running, AtRest, run, NoCall, Users
<1>5. QED
  BY <1>3, <1>4 DEF Safe

----------------------------------------------------------------------------
(* Requests.                                                               *)

\* A request that is issued waits, and no other one is disturbed.
LEMMA Issued ==
  ASSUME NEW l \in Link, NEW c \in [Users -> Call], NEW u \in Users, NEW method \in Method
  PROVE  /\ Issue(l, c, u, method).link \in Link
         /\ Issue(l, c, u, method).calls \in [Users -> Call]
         /\ Issue(l, c, u, method).calls[u].method = method
         /\ Issue(l, c, u, method).calls[u].stage \in {"ready", "sent"}
         /\ \A v \in Users : v # u => Issue(l, c, u, method).calls[v] = c[v]
<1> DEFINE sent  == [stage |-> "sent", method |-> method, process |-> l.process, answer |-> "none"]
           ready == [stage |-> "ready", method |-> method, process |-> 0, answer |-> "none"]
           begun == [[l EXCEPT !.starting = l.started + 1] EXCEPT !.started = @ + 1]
<1>1. sent \in Call /\ ready \in Call
  BY DEF Link, Call, Method, Reply
<1>2. begun \in Link
  <2>1. [l EXCEPT !.starting = l.started + 1] \in Link
    BY DEF Link
  <2>2. QED
    BY <2>1 DEF Link
<1>3. CASE l.process # 0
  <2>1. Issue(l, c, u, method) = [link |-> l, calls |-> [c EXCEPT ![u] = sent]]
    BY <1>3 DEF Issue
  <2>2. QED
    BY <1>1, <2>1
<1>4. CASE l.process = 0
  <2>1. Issue(l, c, u, method).link \in {l, begun}
    BY <1>4 DEF Issue
  <2>2. Issue(l, c, u, method).calls = [c EXCEPT ![u] = ready]
    BY <1>4 DEF Issue
  <2>3. QED
    BY <1>1, <1>2, <2>1, <2>2
<1>5. QED
  BY <1>3, <1>4

\* What a settlement leaves alone, and the two ways it can go: the run ends, or it calls again.
Follows(next, s) ==
  /\ next.link \in Link /\ next.calls \in [Users -> Call] /\ next.session \in Session
  /\ next.session.requests = s.requests
  /\ next.session.userTurn = s.userTurn /\ next.session.hostTurn = s.hostTurn
Ends(next, s) ==
  /\ Follows(next, s)
  /\ next.calls["run"] = NoCall /\ next.session.inFlight = 0
CallsWith(next, s, method) ==
  /\ Follows(next, s)
  /\ next.calls["run"].method = method /\ next.calls["run"].stage \in {"ready", "sent"}
  /\ next.session.inFlight = s.inFlight /\ next.session.uncertain = s.uncertain

LEMMA RunsEnd ==
  ASSUME NEW l \in Link, NEW c \in [Users -> Call], NEW s \in Session
  PROVE  /\ Ends(RunEnds(l, c, s), s)
         /\ RunEnds(l, c, s).session.uncertain = s.uncertain
<1>1. NoCall \in Call
  BY DEF NoCall, Call, Reply
<1>2. [s EXCEPT !.inFlight = 0] \in Session
  BY BoundsAreNumbers DEF Session
<1>3. "run" \in Users
  BY DEF Users
<1>4. QED
  BY <1>1, <1>2, <1>3 DEF Ends, Follows, RunEnds, Session

LEMMA CalledAgain ==
  ASSUME NEW l \in Link, NEW c \in [Users -> Call], NEW s \in Session, NEW method \in RunMethod
  PROVE  CallsWith(RunCalls(l, c, s, method), s, method)
<1>1. "run" \in Users /\ method \in Method
  BY DEF Users, Method
<1>2. QED
  BY <1>1, Issued DEF CallsWith, Follows, RunCalls, Then

\* After the opening the run ends, or the turn is submitted, if nobody cancelled it.
LEMMA OpenedEnds ==
  ASSUME NEW l \in Link, NEW c \in [Users -> Call], NEW s \in Session, NEW answer \in Reply
  PROVE  \/ Ends(AfterOpen(l, c, s, answer), s) /\ AfterOpen(l, c, s, answer).session.uncertain = s.uncertain
         \/ ~s.cancelled /\ CallsWith(AfterOpen(l, c, s, answer), s, "turn/start")
<1> DEFINE opened == IF answer = "error" THEN s
                     ELSE [s EXCEPT !.thread = [process |-> c["run"].process, segment |-> answer]]
           ended  == RunEnds(l, c, opened)
<1>1. "run" \in Users /\ "close" \in Users /\ "thread/close" \in Method /\ "turn/start" \in RunMethod
  BY DEF Users, Method, RunMethod
<1>2. /\ opened \in Session /\ opened.requests = s.requests /\ opened.inFlight = s.inFlight
      /\ opened.userTurn = s.userTurn /\ opened.hostTurn = s.hostTurn /\ opened.uncertain = s.uncertain
  <2>1. [process |-> c["run"].process, segment |-> answer] \in Thread
    BY <1>1 DEF Call, Thread
  <2>2. QED
    BY <2>1 DEF Session
<1>3. Ends(ended, s) /\ ended.session.uncertain = s.uncertain
  <2>1. Ends(ended, opened) /\ ended.session.uncertain = opened.uncertain
    <3> HIDE DEF opened
    <3> QED BY <1>2, RunsEnd
  <2>2. QED
    BY <1>2, <2>1 DEF Ends, Follows
<1>4. Ends(Then(ended, "close", "thread/close"), s)
      /\ Then(ended, "close", "thread/close").session.uncertain = s.uncertain
  <2> HIDE DEF ended
  <2>1. ended.link \in Link /\ ended.calls \in [Users -> Call]
    BY <1>3 DEF Ends, Follows
  <2>2. "run" # "close"
    OBVIOUS
  <2>3. QED
    BY <1>1, <1>3, <2>1, <2>2, Issued DEF Ends, Follows, Then
<1>5. CallsWith(RunCalls(l, c, opened, "turn/start"), s, "turn/start")
  <2>1. CallsWith(RunCalls(l, c, opened, "turn/start"), opened, "turn/start")
    <3> HIDE DEF opened
    <3> QED BY <1>1, <1>2, CalledAgain
  <2>2. QED
    BY <1>2, <2>1 DEF CallsWith, Follows
<1>6. AfterOpen(l, c, s, answer) =
        IF s.disposed THEN IF opened.thread = NoThread THEN ended ELSE Then(ended, "close", "thread/close")
        ELSE IF answer = "error" \/ s.cancelled THEN ended
        ELSE RunCalls(l, c, opened, "turn/start")
  BY DEF AfterOpen
<1> HIDE DEF opened, ended
<1>7. QED
  BY <1>3, <1>4, <1>5, <1>6

----------------------------------------------------------------------------
(* Settlements keep the invariant.                                         *)

\* Native receipts that only end: nothing begins to run, and nothing new is received.
Fades ==
  /\ native' \in NativeType
  /\ native'.place = native.place
  /\ \A r \in RequestIds : /\ native'.receipt[r] = "running" => native.receipt[r] = "running"
                           /\ native.receipt[r] = "not-received" => native'.receipt[r] = "not-received"

LEMMA NativeStays == ASSUME Typed, UNCHANGED native PROVE Fades
BY DEF Typed, Fades

\* A step that leaves the request in flight in its phase.
LEMMA MarkKept ==
  ASSUME Safe, Typed', Fades,
         session'.inFlight = session.inFlight, session'.requests = session.requests,
         session'.uncertain = session.uncertain, session'.userTurn = session.userTurn,
         session.hostTurn <= session'.hostTurn,
         AtRest => run' = run,
         ~AtRest => run'.method = run.method /\ run'.stage # "none",
         run'.stage = "running" => run'.method = "turn/start",
         (~AtRest /\ Unsent') => Unsent,
         (~AtRest /\ KnownEnded') => KnownEnded \/ native'.receipt[session.inFlight] # "running"
  PROVE  Safe'
<1>1. /\ session.userTurn \in Nat /\ session.hostTurn \in Nat /\ session'.hostTurn \in Nat
      /\ session.inFlight \in 0..MaxRequests /\ MaxRequests \in Nat
  BY BoundsAreNumbers DEF Safe, Typed, Session
<1>2. ~AtRest => session.inFlight \in RequestIds
  BY <1>1 DEF AtRest, RequestIds
<1>3. AtRest' <=> AtRest
  BY DEF AtRest
<1>4. OneCall'
  <2>1. session'.userTurn <= session'.hostTurn
    BY <1>1 DEF Safe, OneCall
  <2>2. \A r \in RequestIds : r > session'.requests => native'.receipt[r] = "not-received"
    BY DEF Safe, OneCall, Fades
  <2>3. QED
    BY <1>3, <2>1, <2>2 DEF Safe, OneCall
<1>5. Phases'
  BY <1>2, <1>3 DEF Safe, Phases, Fades
<1>6. TurnsApart'
  BY DEF Safe, TurnsApart, Fades, Running
<1>7. QED
  BY <1>4, <1>5, <1>6 DEF Safe

\* The run ends with a receipt that does not run, or uncertain.
LEMMA EndedSafe ==
  ASSUME Safe, ~AtRest, Fades, NEW next, Ends(next, session), Become(next),
         native'.receipt[session.inFlight] # "running" \/ next.session.uncertain
  PROVE  Safe'
<1>1. /\ session.userTurn \in Nat /\ session.hostTurn \in Nat
      /\ session.inFlight \in 0..MaxRequests /\ MaxRequests \in Nat
  BY BoundsAreNumbers DEF Safe, Typed, Session
<1>2. Typed'
  BY DEF Typed, Ends, Follows, Become, Fades
<1>3. /\ session'.inFlight = 0 /\ session'.requests = session.requests /\ run' = NoCall
      /\ session'.userTurn = session.userTurn /\ session'.hostTurn = session.hostTurn
      /\ native'.receipt[session.inFlight] # "running" \/ session'.uncertain
  BY DEF Ends, Follows, Become, run
<1>4. OneCall'
  BY <1>3 DEF Safe, OneCall, Fades, AtRest, NoCall
<1>5. Phases'
  BY <1>3 DEF Phases, AtRest
<1>6. TurnsApart'
  <2>1. \A r \in RequestIds : native'.receipt[r] = "running" /\ native'.place[r].turn = session'.userTurn
          => r = session'.inFlight \/ session'.uncertain
    BY <1>3 DEF Safe, TurnsApart, OneCall, Fades, Running
  <2>2. QED
    BY <1>3, <2>1 DEF Safe, TurnsApart, Fades, Running
<1>7. QED
  BY <1>2, <1>4, <1>5, <1>6 DEF Safe

\* The run calls again: to look up, or to submit what was not.
LEMMA CalledSafe ==
  ASSUME Safe, ~AtRest, Fades, NEW next, NEW method \in RunMethod, CallsWith(next, session, method), Become(next),
         method \in {"thread/open", "turn/start"} => native.receipt[session.inFlight] = "not-received",
         method = "session/read" => native.receipt[session.inFlight] # "running"
  PROVE  Safe'
<1>1. /\ session.userTurn \in Nat /\ session.hostTurn \in Nat
      /\ session.inFlight \in 0..MaxRequests /\ MaxRequests \in Nat
  BY BoundsAreNumbers DEF Safe, Typed, Session
<1>2. session.inFlight \in RequestIds
  BY <1>1 DEF AtRest, RequestIds
<1>3. Typed'
  BY DEF Typed, CallsWith, Follows, Become, Fades
<1>4. /\ session'.inFlight = session.inFlight /\ session'.requests = session.requests
      /\ run'.method = method /\ run'.stage \in {"ready", "sent"} /\ session'.uncertain = session.uncertain
      /\ session'.userTurn = session.userTurn /\ session'.hostTurn = session.hostTurn
  BY DEF CallsWith, Follows, Become, run
<1>5. OneCall'
  BY <1>4 DEF Safe, OneCall, Fades, AtRest
<1>6. Phases'
  <2>1. Unsent' => native'.receipt[session.inFlight] = "not-received"
    BY <1>2, <1>4 DEF Unsent, Fades
  <2>2. KnownEnded' => native'.receipt[session.inFlight] # "running"
    BY <1>2, <1>4 DEF KnownEnded, Fades
  <2>3. QED
    BY <1>4, <2>1, <2>2 DEF Phases
<1>7. TurnsApart'
  BY <1>4 DEF Safe, TurnsApart, Fades, Running
<1>8. QED
  BY <1>3, <1>5, <1>6, <1>7 DEF Safe

\* Whatever settles the request of the run, the invariant holds after it.
LEMMA SettledSafe ==
  ASSUME Safe, ~AtRest, Fades,
         NEW l \in Link, NEW c \in [Users -> Call], c["run"] = run,
         NEW answer \in Reply, NEW submitted \in BOOLEAN,
         answer = "error" \/ (run.stage = "answered" /\ answer = run.answer),
         submitted \/ run.stage = "ready",
         Become(Settle("run", l, c, session, answer, submitted))
  PROVE  Safe'
<1>0. /\ session \in Session /\ run.method \in RunMethod /\ ~session.uncertain
      /\ session.inFlight \in RequestIds
  <2>1. session.inFlight \in 0..MaxRequests /\ MaxRequests \in Nat
    BY BoundsAreNumbers DEF Safe, Typed, Session
  <2>2. QED
    BY <2>1 DEF Safe, Typed, OneCall, AtRest, RequestIds
<1>1. CASE run.method = "thread/open"
  <2> DEFINE next == AfterOpen(l, c, session, answer)
  <2>1. Become(next)
    BY <1>1 DEF Settle
  <2>2. native.receipt[session.inFlight] = "not-received"
    BY <1>1 DEF Safe, Phases, Unsent
  <2>3. native'.receipt[session.inFlight] # "running"
    BY <1>0, <2>2 DEF Fades
  <2>4. Ends(next, session) \/ CallsWith(next, session, "turn/start")
    BY <1>0, OpenedEnds
  <2> HIDE DEF next
  <2>5. "turn/start" \in RunMethod
    BY DEF RunMethod
  <2>6. CASE Ends(next, session)
    BY <2>1, <2>3, <2>6, EndedSafe
  <2>7. CASE CallsWith(next, session, "turn/start")
    BY <2>1, <2>2, <2>5, <2>7, CalledSafe
  <2>8. QED
    BY <2>4, <2>6, <2>7
<1>2. CASE run.method = "turn/start"
  <2>1. Become(AfterTurn(l, c, session, answer, submitted))
    BY <1>2 DEF Settle
  <2>2. CASE answer = "completed" \/ ~submitted
    <3> DEFINE next == RunEnds(l, c, session)
    <3>1. Become(next)
      BY <2>1, <2>2 DEF AfterTurn
    <3>2. native.receipt[session.inFlight] # "running"
      BY <1>2, <2>2 DEF Safe, Phases, Unsent, KnownEnded
    <3>3. native'.receipt[session.inFlight] # "running"
      BY <1>0, <3>2 DEF Fades
    <3>4. Ends(next, session)
      BY <1>0, RunsEnd
    <3> HIDE DEF next
    <3>5. QED
      BY <3>1, <3>3, <3>4, EndedSafe
  <2>3. CASE ~(answer = "completed" \/ ~submitted)
    <3> DEFINE next == RunCalls(l, c, session, "turn/status")
    <3>1. Become(next)
      BY <2>1, <2>3 DEF AfterTurn
    <3>2. "turn/status" \in RunMethod
      BY DEF RunMethod
    <3>3. CallsWith(next, session, "turn/status")
      BY <1>0, <3>2, CalledAgain
    <3> HIDE DEF next
    <3>4. QED
      BY <3>1, <3>2, <3>3, CalledSafe
  <2>4. QED
    BY <2>2, <2>3
<1>3. CASE run.method = "turn/status"
  <2>1. Become(AfterStatus(l, c, session, answer))
    BY <1>3 DEF Settle
  <2>2. CASE answer = "completed"
    <3> DEFINE next == RunCalls(l, c, session, "session/read")
    <3>1. Become(next)
      BY <2>1, <2>2 DEF AfterStatus
    <3>2. "session/read" \in RunMethod
      BY DEF RunMethod
    <3>3. CallsWith(next, session, "session/read")
      BY <1>0, <3>2, CalledAgain
    <3>4. native.receipt[session.inFlight] # "running"
      BY <1>3, <2>2 DEF Safe, Phases, KnownEnded, Unclear
    <3> HIDE DEF next
    <3>5. QED
      BY <3>1, <3>2, <3>3, <3>4, CalledSafe
  <2>3. CASE answer # "completed"
    <3> DEFINE s    == [session EXCEPT !.uncertain = @ \/ answer \in Unclear \cup {"error"}]
               next == RunEnds(l, c, s)
    <3>1. Become(next)
      BY <2>1, <2>3 DEF AfterStatus
    <3>2. s \in Session /\ s.requests = session.requests /\ s.userTurn = session.userTurn
          /\ s.hostTurn = session.hostTurn
          /\ (s.uncertain <=> answer \in Unclear \cup {"error"})
      <4> DEFINE marked == session.uncertain \/ answer \in Unclear \cup {"error"}
      <4>1. marked \in BOOLEAN /\ (marked <=> answer \in Unclear \cup {"error"})
        BY <1>0
      <4>2. s = [session EXCEPT !.uncertain = marked]
        OBVIOUS
      <4> HIDE DEF marked
      <4>3. QED
        BY <1>0, <4>1, <4>2 DEF Session
    <3>3. Ends(next, s) /\ next.session.uncertain = s.uncertain
      <4> HIDE DEF s
      <4> QED BY <3>2, RunsEnd
    <3>4. Ends(next, session)
      BY <3>2, <3>3 DEF Ends, Follows
    <3>5. answer \notin Unclear \cup {"error"} => native.receipt[session.inFlight] # "running"
      BY <1>3 DEF Safe, Phases, KnownEnded
    <3>6. native'.receipt[session.inFlight] # "running" \/ next.session.uncertain
      BY <1>0, <3>2, <3>3, <3>5 DEF Fades
    <3> HIDE DEF next
    <3>7. QED
      BY <3>1, <3>4, <3>6, EndedSafe
  <2>4. QED
    BY <2>2, <2>3
<1>4. CASE run.method = "session/read"
  <2> DEFINE s    == [session EXCEPT !.uncertain = @ \/ answer # "active"]
             next == RunEnds(l, c, s)
  <2>1. Become(next)
    BY <1>4 DEF Settle, AfterRead
  <2>2. s \in Session /\ s.requests = session.requests /\ s.userTurn = session.userTurn
        /\ s.hostTurn = session.hostTurn
    BY <1>0 DEF Session
  <2>3. Ends(next, s)
    <3> HIDE DEF s
    <3> QED BY <2>2, RunsEnd
  <2>4. Ends(next, session)
    BY <2>2, <2>3 DEF Ends, Follows
  <2>5. native'.receipt[session.inFlight] # "running"
    BY <1>0, <1>4 DEF Safe, Phases, KnownEnded, Fades
  <2> HIDE DEF next
  <2>6. QED
    BY <2>1, <2>4, <2>5, EndedSafe
<1>5. QED
  BY <1>0, <1>1, <1>2, <1>3, <1>4 DEF RunMethod

\* A step that leaves the run's request, the session and the native side as they are.
LEMMA OthersSafe ==
  ASSUME Safe, link' \in Link, calls' \in [Users -> Call], calls'["run"] = run, UNCHANGED <<session, native>>
  PROVE  Safe'
<1>1. Typed' /\ Fades /\ run' = run
  BY NativeStays DEF Safe, Typed, run
<1>2. Unsent' <=> Unsent
  BY <1>1 DEF Unsent
<1>3. KnownEnded' <=> KnownEnded
  BY <1>1 DEF KnownEnded
<1>4. session'.hostTurn >= session.hostTurn
  BY DEF Safe, Typed, Session
<1>5. QED
  BY <1>1, <1>2, <1>3, <1>4, MarkKept DEF Safe, OneCall

\* The requests in some stages are rejected: the run's settles, the others are gone.
LEMMA RejectedSafe ==
  ASSUME Safe, Fades, NEW stages \in SUBSET {"ready", "sent", "running", "answered"}, NEW l \in Link,
         NEW submitted \in BOOLEAN, submitted \/ stages = {"ready"},
         Become(Reject(stages, l, calls, session, submitted))
  PROVE  Safe'
<1> DEFINE rest == [u \in Users |-> IF u # "run" /\ calls[u].stage \in stages THEN NoCall ELSE calls[u]]
<1>1. rest \in [Users -> Call] /\ rest["run"] = run
  <2>1. NoCall \in Call
    BY DEF NoCall, Call, Reply
  <2>2. "run" \in Users
    BY DEF Users
  <2>3. QED
    BY <2>1, <2>2 DEF Safe, Typed, run
<1>2. CASE run.stage \in stages
  <2>1. Become(Settle("run", l, rest, session, "error", submitted))
    BY <1>2 DEF Reject, run
  <2>2. ~AtRest
    BY <1>2 DEF Safe, OneCall, NoCall
  <2>3. "error" \in Reply
    BY DEF Reply
  <2>4. submitted \/ run.stage = "ready"
    BY <1>2
  <2> HIDE DEF rest
  <2>5. QED
    BY <1>1, <2>1, <2>2, <2>3, <2>4, SettledSafe
<1>3. CASE run.stage \notin stages
  <2>1. link' = l /\ calls' = rest /\ session' = session
    BY <1>3 DEF Reject, run, Become
  <2>2. run' = run /\ Typed'
    BY <1>1, <2>1 DEF run, Typed, Safe, Fades
  <2>3. (Unsent' => Unsent) /\ (KnownEnded' => KnownEnded)
    BY <2>2 DEF Unsent, KnownEnded
  <2>4. session.hostTurn <= session'.hostTurn
    BY <2>1 DEF Safe, Typed, Session
  <2>5. ~AtRest => run.stage # "none"
    BY DEF Safe, OneCall
  <2>6. run'.stage = "running" => run'.method = "turn/start"
    BY <2>2 DEF Safe, OneCall
  <2> HIDE DEF rest
  <2>7. QED
    BY <2>1, <2>2, <2>3, <2>4, <2>5, <2>6, MarkKept
<1>4. QED
  BY <1>2, <1>3

----------------------------------------------------------------------------
(* The steps of the client and the session.                                *)

LEMMA StartedSafe == ASSUME Safe, Started PROVE Safe'
<1>1. link' \in Link
  <2>1. link \in Link
    BY DEF Safe, Typed
  <2>2. [link EXCEPT !.process = link.starting] \in Link
    BY <2>1 DEF Link
  <2>3. QED
    BY <2>2 DEF Link, Started
<1>2. \A u \in Users : calls'[u] \in Call /\ calls'[u].method = calls[u].method
                       /\ (calls'[u] = calls[u] \/ (calls[u].stage = "ready" /\ calls'[u].stage = "sent"))
  <2> TAKE u \in Users
  <2> DEFINE sent == [calls[u] EXCEPT !.stage = "sent"]
  <2>1. calls[u] \in Call /\ link.starting \in Nat
    BY DEF Safe, Typed, Link
  <2>2. sent \in Call /\ sent.stage = "sent" /\ sent.method = calls[u].method
    BY <2>1 DEF Call
  <2>3. calls'[u] = IF calls[u].stage # "ready" THEN calls[u] ELSE [sent EXCEPT !.process = link.starting]
    BY DEF Started
  <2> HIDE DEF sent
  <2>4. QED
    BY <2>1, <2>2, <2>3 DEF Call
<1>3. calls' \in [Users -> Call]
  BY <1>2 DEF Started
<1>4. native' \in NativeType /\ Fades
  <2>1. native \in NativeType /\ native' = [native EXCEPT !.alive = link.starting] /\ link.starting \in Nat
    BY DEF Safe, Typed, Started, Link
  <2>2. QED
    BY <2>1 DEF NativeType, Fades
<1>5. Typed' /\ session' = session
  BY <1>1, <1>3, <1>4 DEF Safe, Typed, Started
<1>6. run'.method = run.method /\ (run' = run \/ (run.stage = "ready" /\ run'.stage = "sent"))
  BY <1>2 DEF run, Users
<1>7. AtRest => run' = run
  BY <1>6 DEF Safe, OneCall, NoCall
<1>8. (Unsent' => Unsent) /\ (KnownEnded' => KnownEnded)
  BY <1>6 DEF Unsent, KnownEnded
<1>9. session.hostTurn <= session'.hostTurn
  BY <1>5 DEF Safe, Typed, Session
<1>10. run'.stage = "running" => run'.method = "turn/start"
  BY <1>6 DEF Safe, OneCall
<1>11. ~AtRest => run'.stage # "none"
  BY <1>6 DEF Safe, OneCall
<1>12. QED
  BY <1>4, <1>5, <1>6, <1>7, <1>8, <1>9, <1>10, <1>11, MarkKept

LEMMA StartFailsSafe == ASSUME Safe, StartFails PROVE Safe'
<1> DEFINE l == [link EXCEPT !.process = 0, !.starting = 0]
<1>1. l \in Link
  <2>1. [link EXCEPT !.process = 0] \in Link
    BY DEF Safe, Typed, Link
  <2>2. QED
    BY <2>1 DEF Link
<1>2. Become(Reject({"ready"}, l, calls, session, FALSE)) /\ Fades
  BY NativeStays DEF StartFails, Safe
<1> HIDE DEF l
<1>3. QED
  BY <1>1, <1>2, RejectedSafe

\* The process ends: what ran is uncertain, and the user turn is over.
LEMMA ExitSafe == ASSUME Safe, Exit PROVE Safe'
<1> DEFINE l  == [link EXCEPT !.process = 0]
           n1 == [native EXCEPT !.alive = 0]
           n2 == [n1 EXCEPT !.threads = {}]
           n3 == [n2 EXCEPT !.openTurn = 0]
           lost == [r \in RequestIds |-> IF native.receipt[r] = "running" THEN "uncertain" ELSE native.receipt[r]]
<1>1. l \in Link
  BY DEF Safe, Typed, Link
<1>2. Become(Reject({"sent", "running", "answered"}, l, calls, session, TRUE))
  BY DEF Exit, Disconnected
<1>3. Fades
  <2>1. native \in NativeType
    BY DEF Safe, Typed
  <2>2. n1 \in NativeType /\ n1.receipt = native.receipt /\ n1.place = native.place
    BY <2>1 DEF NativeType
  <2>3. n2 \in NativeType /\ n2.receipt = native.receipt /\ n2.place = native.place
    BY <2>2 DEF NativeType
  <2>4. n3 \in NativeType /\ n3.receipt = native.receipt /\ n3.place = native.place
    BY <2>3 DEF NativeType
  <2>5. native' = [n3 EXCEPT !.receipt = lost]
    <3>1. native' = [n3 EXCEPT !.receipt = [r \in RequestIds |-> IF @[r] = "running" THEN "uncertain" ELSE @[r]]]
      BY DEF Exit
    <3>2. QED
      BY <2>4, <3>1
  <2>6. lost \in [RequestIds -> Status]
    BY <2>1 DEF NativeType, Status
  <2> HIDE DEF n3
  <2>7. native' \in NativeType /\ native'.receipt = lost /\ native'.place = native.place
    BY <2>4, <2>5, <2>6 DEF NativeType
  <2>8. QED
    BY <2>7 DEF Fades
<1> HIDE DEF l
<1>4. QED
  BY <1>1, <1>2, <1>3, RejectedSafe

\* A settlement of the requests of cancel and dispose takes them away.
LEMMA OtherSettled ==
  ASSUME Safe, NEW u \in Users, u # "run", NEW answer, NEW submitted,
         Become(Settle(u, link, calls, session, answer, submitted)), UNCHANGED native
  PROVE  Safe'
<1>1. link' = link /\ calls' = [calls EXCEPT ![u] = NoCall] /\ session' = session
  BY DEF Become, Settle
<1>2. NoCall \in Call
  BY DEF NoCall, Call, Reply
<1>3. link' \in Link /\ calls' \in [Users -> Call] /\ calls'["run"] = run
  BY <1>1, <1>2 DEF Safe, Typed, run
<1>4. QED
  BY <1>1, <1>3, OthersSafe

LEMMA TimeoutSafe == ASSUME Safe, NEW u \in Users, Timeout(u) \/ WriteFails(u) PROVE Safe'
<1>1. CASE u # "run"
  BY <1>1, OtherSettled DEF Timeout, WriteFails
<1>2. CASE u = "run"
  <2>1. ~AtRest
    <3>1. run.stage # "none"
      BY <1>2 DEF run, Timeout, WriteFails
    <3>2. QED
      BY <3>1 DEF Safe, OneCall, NoCall
  <2>2. "error" \in Reply /\ link \in Link /\ calls \in [Users -> Call]
    BY DEF Reply, Safe, Typed
  <2>3. Become(Settle("run", link, calls, session, "error", TRUE)) /\ Fades
    BY <1>2, NativeStays DEF Timeout, WriteFails, Safe
  <2>4. QED
    BY <2>1, <2>2, <2>3, SettledSafe DEF run
<1>3. QED
  BY <1>1, <1>2

LEMMA ReceiveSafe == ASSUME Safe, NEW u \in Users, Receive(u) PROVE Safe'
<1>1. CASE u # "run"
  BY <1>1, OtherSettled DEF Receive
<1>2. CASE u = "run"
  <2>1. ~AtRest
    BY <1>2 DEF Safe, OneCall, NoCall, run, Receive
  <2>2. run.answer \in Reply /\ link \in Link /\ calls \in [Users -> Call]
    BY DEF Safe, Typed, Call, run, Users
  <2>3. Become(Settle("run", link, calls, session, run.answer, TRUE)) /\ Fades /\ run.stage = "answered"
    BY <1>2, NativeStays DEF Receive, Safe, run
  <2>4. QED
    BY <2>1, <2>2, <2>3, SettledSafe DEF run
<1>3. QED
  BY <1>1, <1>2

\* A run begins: its session is that of a certain request, or of a new user turn.
LEMMA RunSafe == ASSUME Safe, RunTurn PROVE Safe'
<1> DEFINE turned == [session EXCEPT !.userTurn = session.hostTurn, !.cancelled = FALSE, !.uncertain = FALSE]
           s == IF session.userTurn = session.hostTurn THEN session ELSE turned
           begun == [s EXCEPT !.inFlight = s.requests + 1, !.requests = @ + 1]
           next == RunCalls(link, calls, begun, "thread/open")
<1>0. /\ session \in Session /\ session.userTurn \in Nat /\ session.hostTurn \in Nat
      /\ session.inFlight \in 0..MaxRequests /\ session.requests \in 0..MaxRequests /\ MaxRequests \in Nat
      /\ session.userTurn <= session.hostTurn
  BY BoundsAreNumbers DEF Safe, Typed, Session, OneCall
<1>1. s \in Session /\ s.requests = session.requests /\ s.hostTurn = session.hostTurn
      /\ s.userTurn = session.hostTurn
      /\ (session.userTurn = session.hostTurn => s.uncertain = session.uncertain)
  <2>1. [session EXCEPT !.userTurn = session.hostTurn] \in Session
    BY <1>0 DEF Session
  <2>2. [[session EXCEPT !.userTurn = session.hostTurn] EXCEPT !.cancelled = FALSE] \in Session
    BY <2>1 DEF Session
  <2>3. turned \in Session /\ turned.requests = session.requests /\ turned.hostTurn = session.hostTurn
        /\ turned.userTurn = session.hostTurn
    BY <2>1, <2>2, <1>0 DEF Session
  <2> HIDE DEF turned
  <2>4. QED
    BY <1>0, <2>3
<1>2. ~s.uncertain /\ AtRest /\ session.requests < MaxRequests /\ Become(next) /\ UNCHANGED native
  BY DEF RunTurn
<1>3. begun \in Session /\ begun.requests = session.requests + 1 /\ begun.inFlight = session.requests + 1
      /\ begun.uncertain = s.uncertain /\ begun.userTurn = s.userTurn /\ begun.hostTurn = s.hostTurn
  <2> HIDE DEF s
  <2>1. [s EXCEPT !.inFlight = s.requests + 1] \in Session
    BY <1>0, <1>1, <1>2 DEF Session
  <2>2. QED
    BY <1>0, <1>1, <1>2, <2>1 DEF Session
<1>4. CallsWith(next, begun, "thread/open")
  <2>1. link \in Link /\ calls \in [Users -> Call] /\ "thread/open" \in RunMethod
    BY DEF Safe, Typed, RunMethod
  <2> HIDE DEF begun
  <2>2. QED
    BY <1>3, <2>1, CalledAgain
<1>5. /\ session'.inFlight = session.requests + 1 /\ session'.requests = session.requests + 1
      /\ ~session'.uncertain /\ session'.userTurn = session.hostTurn /\ session'.hostTurn = session.hostTurn
      /\ run'.method = "thread/open" /\ run'.stage \in {"ready", "sent"} /\ Typed'
  <2> HIDE DEF begun, s, next
  <2>1. next.session.hostTurn = session.hostTurn /\ next.session.userTurn = session.hostTurn
    BY <1>1, <1>3, <1>4 DEF CallsWith, Follows
  <2>2. QED
    BY <1>1, <1>2, <1>3, <1>4, <2>1 DEF CallsWith, Follows, Become, run, Typed, Safe
<1>6. ~session.uncertain \/ session.userTurn < session.hostTurn
  <2>1. CASE session.userTurn = session.hostTurn
    BY <1>1, <1>2, <2>1
  <2>2. CASE session.userTurn # session.hostTurn
    BY <1>0, <2>2
  <2>3. QED
    BY <2>1, <2>2
<1> HIDE DEF begun, s, turned, next
<1>7. OneCall'
  <2>1. \A r \in RequestIds : r > session.requests + 1 => r > session.requests
    BY <1>0 DEF RequestIds
  <2>2. ~AtRest'
    BY <1>0, <1>5 DEF AtRest
  <2>3. \A r \in RequestIds : r > session'.requests => native'.receipt[r] = "not-received"
    BY <1>2, <1>5, <2>1 DEF Safe, OneCall
  <2>4. QED
    BY <1>0, <1>5, <2>2, <2>3 DEF OneCall, RunMethod
<1>8. Phases'
  <2>1. session.requests + 1 \in RequestIds /\ session.requests + 1 > session.requests
    BY <1>0, <1>2 DEF RequestIds
  <2>2. native'.receipt[session'.inFlight] = "not-received"
    BY <1>2, <1>5, <2>1 DEF Safe, OneCall
  <2>3. QED
    BY <2>2 DEF Phases
<1>9. TurnsApart'
  <2>1. ASSUME NEW r \in RequestIds, Running(r)
        PROVE  native.place[r].turn <= session.hostTurn /\ native.place[r].turn # session.hostTurn
    <3>1. native.place[r].turn \in Nat /\ r # 0
      BY <1>0 DEF Safe, Typed, NativeType, Place, RequestIds
    <3>2. native.place[r].turn <= session.userTurn
          /\ (native.place[r].turn = session.userTurn => session.uncertain)
      BY <1>2, <2>1, <3>1 DEF Safe, TurnsApart, AtRest
    <3>3. QED
      BY <1>0, <1>6, <3>1, <3>2
  <2>2. QED
    BY <1>2, <1>5, <2>1 DEF TurnsApart, Safe, Running
<1>10. QED
  BY <1>5, <1>7, <1>8, <1>9 DEF Safe

\* A request that cancel or dispose issues, or no request at all, leaves that of the run.
LEMMA OtherIssued ==
  ASSUME Safe, NEW s, NEW u \in Users, u # "run", NEW method \in Method,
         \/ Become([link |-> link, calls |-> calls, session |-> s])
         \/ Become(Then([link |-> link, calls |-> calls, session |-> s], u, method))
  PROVE  link' \in Link /\ calls' \in [Users -> Call] /\ calls'["run"] = run /\ session' = s
<1>1. link \in Link /\ calls \in [Users -> Call] /\ "run" \in Users
  BY DEF Safe, Typed, Users
<1>2. CASE Become([link |-> link, calls |-> calls, session |-> s])
  BY <1>1, <1>2 DEF Become, run
<1>3. CASE Become(Then([link |-> link, calls |-> calls, session |-> s], u, method))
  BY <1>1, <1>3, Issued DEF Become, run, Then
<1>4. QED
  BY <1>2, <1>3

\* A step that only marks the session, and may issue a request of cancel or dispose.
LEMMA MarkedSafe ==
  ASSUME Safe, NEW s \in Session, s.inFlight = session.inFlight, s.requests = session.requests,
         s.uncertain = session.uncertain, s.userTurn = session.userTurn, s.hostTurn = session.hostTurn,
         NEW u \in Users, u # "run", NEW method \in Method, UNCHANGED native,
         \/ Become([link |-> link, calls |-> calls, session |-> s])
         \/ Become(Then([link |-> link, calls |-> calls, session |-> s], u, method))
  PROVE  Safe'
<1>2. link' \in Link /\ calls' \in [Users -> Call] /\ calls'["run"] = run /\ session' = s
  BY OtherIssued
<1>3. Typed' /\ Fades /\ run' = run
  BY <1>2, NativeStays DEF Safe, Typed, run
<1>4. (Unsent' <=> Unsent) /\ (KnownEnded' <=> KnownEnded)
  BY <1>3 DEF Unsent, KnownEnded
<1>5. session'.hostTurn >= session.hostTurn
  BY <1>2 DEF Safe, Typed, Session
<1>6. QED
  BY <1>2, <1>3, <1>4, <1>5, MarkKept DEF Safe, OneCall

LEMMA CancelSafe == ASSUME Safe, CancelSession PROVE Safe'
<1> DEFINE s == [session EXCEPT !.cancelled = TRUE]
<1>1. /\ s \in Session /\ s.inFlight = session.inFlight /\ s.requests = session.requests
      /\ s.uncertain = session.uncertain /\ s.userTurn = session.userTurn /\ s.hostTurn = session.hostTurn
  BY DEF Safe, Typed, Session
<1>2. "cancel" \in Users /\ "turn/cancel" \in Method /\ UNCHANGED native
  BY DEF Users, Method, CancelSession
<1>3. \/ Become([link |-> link, calls |-> calls, session |-> s])
      \/ Become(Then([link |-> link, calls |-> calls, session |-> s], "cancel", "turn/cancel"))
  BY DEF CancelSession
<1> HIDE DEF s
<1>4. QED
  BY <1>1, <1>2, <1>3, MarkedSafe

LEMMA DisposeSafe == ASSUME Safe, Dispose PROVE Safe'
<1> DEFINE s == [session EXCEPT !.disposed = TRUE, !.cancelled = TRUE]
<1>1. /\ s \in Session /\ s.inFlight = session.inFlight /\ s.requests = session.requests
      /\ s.uncertain = session.uncertain /\ s.userTurn = session.userTurn /\ s.hostTurn = session.hostTurn
  <2>1. [session EXCEPT !.disposed = TRUE] \in Session
    BY DEF Safe, Typed, Session
  <2>2. QED
    BY <2>1 DEF Safe, Typed, Session
<1>2. "close" \in Users /\ "thread/close" \in Method /\ UNCHANGED native
  BY DEF Users, Method, Dispose
<1>3. \/ Become([link |-> link, calls |-> calls, session |-> s])
      \/ Become(Then([link |-> link, calls |-> calls, session |-> s], "close", "thread/close"))
  BY DEF Dispose
<1> HIDE DEF s
<1>4. QED
  BY <1>1, <1>2, <1>3, MarkedSafe

LEMMA NextUserTurnSafe == ASSUME Safe, NextUserTurn PROVE Safe'
<1>0. session \in Session /\ native \in NativeType /\ session.hostTurn \in Nat
  BY DEF Safe, Typed, Session
<1>1. /\ session' \in Session /\ session'.hostTurn = session.hostTurn + 1
      /\ session'.inFlight = session.inFlight /\ session'.requests = session.requests
      /\ session'.uncertain = session.uncertain /\ session'.userTurn = session.userTurn
  BY <1>0 DEF NextUserTurn, Session
<1>2. native' \in NativeType /\ native'.receipt = native.receipt /\ native'.place = native.place
  BY <1>0 DEF NextUserTurn, NativeType
<1>3. Typed' /\ Fades /\ run' = run
  BY <1>1, <1>2 DEF Safe, Typed, Fades, NextUserTurn, run
<1>4. (Unsent' <=> Unsent) /\ (KnownEnded' <=> KnownEnded) /\ session.hostTurn <= session'.hostTurn
  BY <1>0, <1>1, <1>3 DEF Unsent, KnownEnded
<1>5. QED
  BY <1>1, <1>3, <1>4, MarkKept DEF Safe, OneCall

----------------------------------------------------------------------------
(* The steps of the native side.                                           *)

\* The answer of a request is typed, and leaves the method and the other requests.
Answered(c, u, answer) == [c EXCEPT ![u].stage = "answered", ![u].answer = answer]

LEMMA AnswerTyped ==
  ASSUME NEW c \in [Users -> Call], NEW u \in Users, NEW answer \in Reply
  PROVE  /\ Answered(c, u, answer) \in [Users -> Call]
         /\ Answered(c, u, answer)[u].stage = "answered"
         /\ Answered(c, u, answer)[u].answer = answer
         /\ Answered(c, u, answer)[u].method = c[u].method
         /\ \A v \in Users : v # u => Answered(c, u, answer)[v] = c[v]
<1> DEFINE e == [c EXCEPT ![u].stage = "answered"]
<1>1. e \in [Users -> Call] /\ e[u].stage = "answered" /\ e[u].method = c[u].method
      /\ \A v \in Users : v # u => e[v] = c[v]
  BY DEF Call
<1>2. Answered(c, u, answer) = [e EXCEPT ![u].answer = answer]
  BY DEF Answered
<1> HIDE DEF e
<1>3. QED
  BY <1>1, <1>2 DEF Call

\* It leaves the method, whatever the answer.
LEMMA AnsweredKeepsMethod ==
  ASSUME NEW c \in [Users -> Call], NEW u \in Users, NEW answer
  PROVE  Answered(c, u, answer)[u].method = c[u].method
<1> DEFINE e == [c EXCEPT ![u].stage = "answered"]
<1>1. e[u].method = c[u].method /\ e \in [Users -> Call]
  BY DEF Call
<1>2. Answered(c, u, answer) = [e EXCEPT ![u].answer = answer]
  BY DEF Answered
<1> HIDE DEF e
<1>3. QED
  BY <1>1, <1>2 DEF Call

LEMMA RunAnswered ==
  ASSUME Safe, NEW answer \in Reply, Answer("run", answer)
  PROVE  /\ calls' \in [Users -> Call]
         /\ run'.stage = "answered" /\ run'.method = run.method /\ run'.answer = answer
<1>1. calls' = Answered(calls, "run", answer)
  BY DEF Answer, Answered
<1>2. calls \in [Users -> Call] /\ "run" \in Users
  BY DEF Safe, Typed, Users
<1>3. QED
  BY <1>1, <1>2, AnswerTyped DEF run

\* The request of the run is answered; that its turn ended is said of one that does not run.
LEMMA AnsweredSafe ==
  ASSUME Safe, Fades, link' = link, session' = session, run.stage \in {"sent", "running"},
         calls' \in [Users -> Call], run'.stage = "answered", run'.method = run.method,
         (\/ run.method = "turn/start" /\ run'.answer = "completed"
          \/ run.method = "turn/status" /\ run'.answer \notin Unclear \cup {"error"})
           => native'.receipt[session.inFlight] # "running"
  PROVE  Safe'
<1>1. Typed'
  BY DEF Safe, Typed, Fades
<1>2. ~AtRest
  BY DEF Safe, OneCall, NoCall
<1>3. Unsent' => Unsent
  BY DEF Unsent
<1>4. KnownEnded' => KnownEnded \/ native'.receipt[session.inFlight] # "running"
  BY DEF KnownEnded
<1>5. session.hostTurn <= session'.hostTurn
  BY DEF Safe, Typed, Session
<1>6. QED
  BY <1>1, <1>2, <1>3, <1>4, <1>5, MarkKept

LEMMA OpensThreadSafe == ASSUME Safe, OpensThread PROVE Safe'
<1>1. PICK g \in Reply : Answer("run", g) /\ (native' = native \/ (g \in Segments /\
                           native' = [native EXCEPT !.threads = @ \cup {g}]))
  BY DEF OpensThread, Reply, Segments
<1>2. Fades
  BY <1>1 DEF Safe, Typed, NativeType, Fades
<1>4. calls' \in [Users -> Call] /\ run'.stage = "answered" /\ run'.method = run.method
  BY <1>1, RunAnswered
<1>5. run.stage = "sent" /\ run.method = "thread/open" /\ link' = link /\ session' = session
  BY DEF OpensThread, Handles, run
<1>6. QED
  BY <1>2, <1>4, <1>5, AnsweredSafe

\* A turn starts for the request in flight, which is the first of its user turn that runs.
LEMMA StartsTurnSafe == ASSUME Safe, StartsTurn PROVE Safe'
<1> DEFINE k == session.inFlight
<1>0. /\ session \in Session /\ native \in NativeType /\ calls \in [Users -> Call] /\ "run" \in Users
      /\ k \in 0..MaxRequests /\ MaxRequests \in Nat /\ session.userTurn \in Nat /\ link' = link /\ session' = session
  BY BoundsAreNumbers DEF Safe, Typed, Session, Users, StartsTurn
<1>1. run.stage = "sent" /\ run.method = "turn/start"
  BY DEF StartsTurn, Handles, run
<1>2. ~AtRest /\ k \in RequestIds /\ ~session.uncertain
  BY <1>0, <1>1 DEF Safe, OneCall, NoCall, AtRest, RequestIds
<1>3. CASE Answer("run", "error") /\ UNCHANGED native
  <2>1. Fades /\ "error" \in Reply
    BY <1>3, NativeStays DEF Safe, Reply
  <2>2. calls' \in [Users -> Call] /\ run'.stage = "answered" /\ run'.method = run.method /\ run'.answer = "error"
    BY <1>3, <2>1, RunAnswered
  <2>3. QED
    BY <1>0, <1>1, <2>1, <2>2, AnsweredSafe
<1>4. CASE /\ native' = [native EXCEPT !.receipt[session.inFlight] = "running",
                            !.place[session.inFlight] = [turn |-> session.userTurn, thread |-> session.thread]]
           /\ calls' = [calls EXCEPT !["run"].stage = "running"]
  <2> DEFINE here == [turn |-> session.userTurn, thread |-> session.thread]
             n1 == [native EXCEPT !.receipt[k] = "running"]
  <2>1. here \in Place /\ here.turn = session.userTurn
    BY <1>0 DEF Place, Session
  <2>2. n1 \in NativeType /\ n1.receipt = [native.receipt EXCEPT ![k] = "running"] /\ n1.place = native.place
    BY <1>0, <1>2 DEF NativeType, Status
  <2>3. native' = [n1 EXCEPT !.place[k] = here]
    BY <1>4
  <2> HIDE DEF n1, here
  <2>4. /\ native' \in NativeType /\ native'.receipt = [native.receipt EXCEPT ![k] = "running"]
        /\ native'.place = [native.place EXCEPT ![k] = here]
    BY <1>2, <2>1, <2>2, <2>3 DEF NativeType
  <2>5. calls' \in [Users -> Call] /\ run'.stage = "running" /\ run'.method = "turn/start"
    BY <1>0, <1>1, <1>4 DEF run, Call
  <2>6. Typed'
    BY <1>0, <2>4, <2>5 DEF Safe, Typed
  <2>7. OneCall'
    <3>1. \A r \in RequestIds : r > session'.requests => native'.receipt[r] = "not-received"
      <4>1. session.requests \in 0..MaxRequests /\ k = session.requests
        BY <1>0, <1>2 DEF Safe, OneCall, Session
      <4>2. ASSUME NEW r \in RequestIds, r > session.requests PROVE native'.receipt[r] = native.receipt[r]
        BY <1>0, <2>4, <4>1, <4>2 DEF NativeType, RequestIds
      <4>3. QED
        BY <1>0, <4>2 DEF Safe, OneCall
    <3>2. QED
      BY <1>0, <1>2, <2>5, <3>1 DEF Safe, OneCall, RunMethod, AtRest
  <2>8. Phases'
    BY <1>2, <2>5 DEF Phases, Unsent, KnownEnded
  <2>9. TurnsApart'
    <3>1. \A r \in RequestIds : Running(r)' /\ r # k => Running(r) /\ native'.place[r] = native.place[r]
      BY <1>0, <2>4 DEF Running, NativeType
    <3>2. native'.place[k].turn = session.userTurn
      BY <1>0, <1>2, <2>1, <2>4 DEF NativeType
    <3>3. \A r \in RequestIds : Running(r) /\ r # k => native.place[r].turn # session.userTurn
                                                       /\ native.place[r].turn <= session.userTurn
      BY <1>2 DEF Safe, TurnsApart
    <3>4. \A r, q \in RequestIds : Running(r)' /\ Running(q)' /\ native'.place[r].turn = native'.place[q].turn => r = q
      BY <3>1, <3>2, <3>3 DEF Safe, TurnsApart
    <3>5. \A r \in RequestIds : Running(r)' =>
            /\ native'.place[r].turn <= session'.userTurn
            /\ native'.place[r].turn = session'.userTurn => r = session'.inFlight \/ session'.uncertain
      BY <1>0, <3>1, <3>2, <3>3
    <3>6. QED
      BY <3>4, <3>5 DEF TurnsApart
  <2>10. QED
    BY <2>6, <2>7, <2>8, <2>9 DEF Safe
<1>5. QED
  BY <1>3, <1>4 DEF StartsTurn

\* Turns that ran end; the request in flight hears of it if it is one of them.
LEMMA TurnsEndSafe ==
  ASSUME Safe, NEW ended \in SUBSET RequestIds, NEW status \in {"completed", "failed", "interrupted"},
         \A r \in ended : native.receipt[r] = "running",
         native' \in NativeType, native'.receipt = Receipts(ended, status), native'.place = native.place,
         calls' \in [Users -> Call], run' = TurnsOver(ended, status)["run"], link' = link, session' = session
  PROVE  Safe'
<1>0. native \in NativeType /\ calls \in [Users -> Call] /\ "run" \in Users /\ status \in Reply
  BY DEF Safe, Typed, Users, Reply, Status
<1>1. Fades
  BY <1>0 DEF Fades, Receipts, NativeType
<1>2. CASE session.inFlight \in ended /\ run.stage = "running"
  <2>1. TurnsOver(ended, status) = Answered(calls, "run", status)
    BY <1>2 DEF TurnsOver, run, Answered
  <2>2. run'.stage = "answered" /\ run'.method = run.method
    BY <1>0, <2>1, AnswerTyped DEF run
  <2>3. native'.receipt[session.inFlight] # "running"
    BY <1>2 DEF Receipts
  <2>4. QED
    BY <1>1, <1>2, <2>2, <2>3, AnsweredSafe
<1>3. CASE ~(session.inFlight \in ended /\ run.stage = "running")
  <2>1. run' = run
    BY <1>3 DEF TurnsOver, run
  <2>2. Typed' /\ (Unsent' <=> Unsent) /\ (KnownEnded' <=> KnownEnded)
    BY <1>1, <2>1 DEF Safe, Typed, Fades, Unsent, KnownEnded
  <2>3. session.hostTurn <= session'.hostTurn
    BY DEF Safe, Typed, Session
  <2>4. QED
    BY <1>1, <2>1, <2>2, <2>3, MarkKept DEF Safe, OneCall
<1>4. QED
  BY <1>2, <1>3

\* What ending turns makes of the requests and the receipts is typed.
LEMMA EndTurnsTyped ==
  ASSUME Safe, NEW ended \in SUBSET RequestIds, NEW status \in {"completed", "failed", "interrupted"}
  PROVE  /\ TurnsOver(ended, status) \in [Users -> Call]
         /\ Receipts(ended, status) \in [RequestIds -> Status]
<1> DEFINE d == Answered(calls, "run", status)
<1>1. calls \in [Users -> Call] /\ "run" \in Users /\ status \in Reply /\ native \in NativeType
  BY DEF Safe, Typed, Users, Reply, Status
<1>2. d \in [Users -> Call]
  BY <1>1, AnswerTyped
<1>3. TurnsOver(ended, status) \in {d, calls}
  BY DEF TurnsOver, Answered
<1>4. Receipts(ended, status) \in [RequestIds -> Status]
  BY <1>1 DEF Receipts, NativeType, Status
<1> HIDE DEF d
<1>5. QED
  BY <1>1, <1>2, <1>3, <1>4

LEMMA EndTurnsKeepMethod ==
  ASSUME calls \in [Users -> Call], NEW ended, NEW status
  PROVE  TurnsOver(ended, status)["run"].method = run.method
<1>1. TurnsOver(ended, status) \in {calls, Answered(calls, "run", status)}
  BY DEF TurnsOver, Answered
<1>2. QED
  BY <1>1, AnsweredKeepsMethod DEF run, Users

LEMMA TurnEndsSafe == ASSUME Safe, TurnEnds PROVE Safe'
<1>1. PICK r \in RequestIds, status \in {"completed", "failed"} :
        /\ native.receipt[r] = "running"
        /\ calls' = TurnsOver({r}, status)
        /\ native' = [native EXCEPT !.receipt = Receipts({r}, status)]
  BY DEF TurnEnds
<1>2. TurnsOver({r}, status) \in [Users -> Call] /\ Receipts({r}, status) \in [RequestIds -> Status]
  BY EndTurnsTyped
<1>3. native' \in NativeType /\ native'.receipt = Receipts({r}, status) /\ native'.place = native.place
  BY <1>1, <1>2 DEF Safe, Typed, NativeType
<1>4. run' = TurnsOver({r}, status)["run"] /\ link' = link /\ session' = session
  BY <1>1 DEF run, TurnEnds
<1>5. QED
  BY <1>1, <1>2, <1>3, <1>4, TurnsEndSafe

LEMMA StopsThreadSafe == ASSUME Safe, StopsThread PROVE Safe'
<1> DEFINE ended == RunningOn(session.thread)
           c == TurnsOver(ended, "interrupted")
           receipts == Receipts(ended, "interrupted")
<1>1. PICK u \in {"cancel", "close"} :
        /\ calls' = [c EXCEPT ![u].stage = "answered", ![u].answer = "ok"]
        /\ native' = [native EXCEPT !.receipt = receipts,
                        !.threads = IF u = "close" THEN @ \ {session.thread.segment} ELSE @]
  BY DEF StopsThread
<1>2. ended \in SUBSET RequestIds /\ \A r \in ended : native.receipt[r] = "running"
  BY DEF RunningOn
<1>3. c \in [Users -> Call] /\ receipts \in [RequestIds -> Status]
  <2> HIDE DEF ended
  <2> QED BY <1>2, EndTurnsTyped
<1>4. native' \in NativeType /\ native'.receipt = receipts /\ native'.place = native.place
  <2> DEFINE n1 == [native EXCEPT !.receipt = receipts]
             left == IF u = "close" THEN native.threads \ {session.thread.segment} ELSE native.threads
  <2> HIDE DEF receipts
  <2>1. n1 \in NativeType /\ n1.receipt = receipts /\ n1.place = native.place /\ n1.threads = native.threads
    BY <1>3 DEF Safe, Typed, NativeType
  <2>2. native' = [n1 EXCEPT !.threads = left]
    BY <1>1, <2>1
  <2>3. left \in SUBSET Segments
    BY DEF Safe, Typed, NativeType
  <2> HIDE DEF n1, left
  <2>4. QED
    BY <2>1, <2>2, <2>3 DEF NativeType
<1>5. calls' \in [Users -> Call] /\ calls'["run"] = c["run"]
  <2> HIDE DEF c
  <2>1. u \in Users /\ "run" \in Users /\ "ok" \in Reply /\ u # "run"
    BY DEF Users, Reply
  <2>2. calls' = Answered(c, u, "ok")
    BY <1>1 DEF Answered
  <2>3. QED
    BY <1>3, <2>1, <2>2, AnswerTyped
<1>6. run' = TurnsOver(ended, "interrupted")["run"] /\ link' = link /\ session' = session
  BY <1>5 DEF run, StopsThread
<1> HIDE DEF ended
<1>7. QED
  BY <1>2, <1>4, <1>5, <1>6, TurnsEndSafe

LEMMA TurnInterruptedSafe == ASSUME Safe, TurnInterrupted PROVE Safe'
<1> DEFINE ended == {r \in RequestIds : native.receipt[r] = "running"}
           receipts == Receipts(ended, "interrupted")
<1>1. /\ calls' = TurnsOver(ended, "interrupted")
      /\ native' = [native EXCEPT !.openTurn = 0, !.receipt = receipts]
      /\ link' = link /\ session' = session
  BY DEF TurnInterrupted
<1>2. ended \in SUBSET RequestIds /\ \A r \in ended : native.receipt[r] = "running"
  OBVIOUS
<1>3. TurnsOver(ended, "interrupted") \in [Users -> Call] /\ receipts \in [RequestIds -> Status]
  <2> HIDE DEF ended
  <2> QED BY <1>2, EndTurnsTyped
<1>4. native' \in NativeType /\ native'.receipt = receipts /\ native'.place = native.place
  <2> DEFINE n1 == [native EXCEPT !.openTurn = 0]
  <2> HIDE DEF receipts
  <2>1. n1 \in NativeType /\ n1.place = native.place
    BY DEF Safe, Typed, NativeType
  <2>2. native' = [n1 EXCEPT !.receipt = receipts]
    BY <1>1
  <2> HIDE DEF n1
  <2>3. QED
    BY <1>3, <2>1, <2>2 DEF NativeType
<1> HIDE DEF ended
<1>5. run' = TurnsOver(ended, "interrupted")["run"]
  BY <1>1 DEF run
<1>6. QED
  BY <1>1, <1>2, <1>3, <1>4, <1>5, TurnsEndSafe

LEMMA LooksUpSafe == ASSUME Safe, LooksUp PROVE Safe'
<1>1. run.stage = "sent" /\ run.method \in {"turn/status", "session/read"} /\ Fades
      /\ link' = link /\ session' = session
  BY NativeStays DEF LooksUp, Handles, run, Safe
<1>2. ~AtRest /\ session.inFlight \in RequestIds
  <2>1. session.inFlight \in 0..MaxRequests /\ MaxRequests \in Nat
    BY BoundsAreNumbers DEF Safe, Typed, Session
  <2>2. QED
    BY <1>1, <2>1 DEF Safe, OneCall, NoCall, AtRest, RequestIds
<1>3. CASE run.method = "turn/status"
  <2> DEFINE answer == native.receipt[session.inFlight]
  <2>1. Answer("run", answer) /\ UNCHANGED native
    BY <1>3 DEF LooksUp, Handles, run
  <2>2. answer \in Reply
    BY <1>2 DEF Safe, Typed, NativeType, Reply
  <2>3. calls' \in [Users -> Call] /\ run'.stage = "answered" /\ run'.method = run.method /\ run'.answer = answer
    <3> HIDE DEF answer
    <3> QED BY <2>1, <2>2, RunAnswered
  <2>4. run'.answer \notin Unclear \cup {"error"} => native'.receipt[session.inFlight] # "running"
    BY <2>1, <2>3 DEF Unclear
  <2>5. QED
    BY <1>1, <1>3, <2>3, <2>4, AnsweredSafe
<1>4. CASE run.method = "session/read"
  <2>1. PICK answer \in {"active", "inactive"} : Answer("run", answer)
    BY <1>4 DEF LooksUp, Handles, run
  <2>2. answer \in Reply
    BY DEF Reply
  <2>3. calls' \in [Users -> Call] /\ run'.stage = "answered" /\ run'.method = run.method
    BY <2>1, <2>2, RunAnswered
  <2>4. QED
    BY <1>1, <1>4, <2>3, AnsweredSafe
<1>5. QED
  BY <1>1, <1>3, <1>4

----------------------------------------------------------------------------
(* The theorems.                                                           *)

LEMMA NextSafe == ASSUME Safe, [ClientNext]_clientVars PROVE Safe'
<1>1. CASE Started
  BY <1>1, StartedSafe
<1>2. CASE StartFails
  BY <1>2, StartFailsSafe
<1>3. CASE Exit
  BY <1>3, ExitSafe
<1>4. ASSUME NEW u \in Users, Timeout(u) \/ WriteFails(u) PROVE Safe'
  BY <1>4, TimeoutSafe
<1>5. ASSUME NEW u \in Users, Receive(u) PROVE Safe'
  BY <1>5, ReceiveSafe
<1>6. CASE RunTurn
  BY <1>6, RunSafe
<1>7. CASE CancelSession
  BY <1>7, CancelSafe
<1>8. CASE Dispose
  BY <1>8, DisposeSafe
<1>9. CASE NextUserTurn
  BY <1>9, NextUserTurnSafe
<1>10. CASE OpensThread
  BY <1>10, OpensThreadSafe
<1>11. CASE StartsTurn
  BY <1>11, StartsTurnSafe
<1>12. CASE TurnEnds
  BY <1>12, TurnEndsSafe
<1>13. CASE StopsThread
  BY <1>13, StopsThreadSafe
<1>14. CASE TurnInterrupted
  BY <1>14, TurnInterruptedSafe
<1>15. CASE LooksUp
  BY <1>15, LooksUpSafe
<1>16. CASE UNCHANGED clientVars
  BY <1>16, OthersSafe DEF clientVars, Safe, Typed, run
<1>17. QED
  BY <1>1, <1>2, <1>3, <1>4, <1>5, <1>6, <1>7, <1>8, <1>9, <1>10, <1>11, <1>12, <1>13, <1>14, <1>15, <1>16
     DEF ClientNext

\* The inductive invariant: the state is typed, the session has one request out while it
\* runs, the phase of the request bounds its receipt, and what runs is kept apart by user turn.
THEOREM ClientIsSafe == ClientSpec => []Safe
<1>1. ClientInit => Safe
  BY InitSafe
<1>2. Safe /\ [ClientNext]_clientVars => Safe'
  BY NextSafe
<1>3. QED
  BY <1>1, <1>2, PTL DEF ClientSpec

\* Of the model requests of one user turn at most one is running natively, whatever
\* processes die, timers fire and threads are opened (session.ts, run; the uncertain mark).
THEOREM OneModelTurnHolds == ClientSpec => []OneModelTurn
<1>1. Safe => OneModelTurn
  <2> SUFFICES ASSUME Safe, NEW t \in 1..MaxUserTurns
               PROVE  Cardinality({r \in RequestIds : native.receipt[r] = "running" /\ native.place[r].turn = t}) <= 1
    BY DEF OneModelTurn
  <2> DEFINE both == {r \in RequestIds : native.receipt[r] = "running" /\ native.place[r].turn = t}
  <2>1. \A r, q \in both : r = q
    BY DEF Safe, TurnsApart, Running
  <2>2. CASE both = {}
    BY <2>2, FS_EmptySet
  <2>3. CASE both # {}
    <3>1. PICK r : r \in both
      BY <2>3
    <3>2. both = {r}
      BY <2>1, <3>1
    <3> HIDE DEF both
    <3>3. Cardinality(both) = 1
      BY <3>2, FS_Singleton
    <3>4. QED
      BY <3>3 DEF both
  <2>4. QED
    BY <2>2, <2>3
<1>2. QED
  BY <1>1, ClientIsSafe, PTL

\* A settlement in a cancelled session does not submit: after the opening it ends.
LEMMA SettledNotSubmitted ==
  ASSUME session \in Session, session.cancelled, run.method \in RunMethod,
         NEW l \in Link, NEW c \in [Users -> Call], c["run"] = run,
         NEW answer \in Reply, NEW submitted \in BOOLEAN
  PROVE  Settle("run", l, c, session, answer, submitted).calls["run"].method # "turn/start"
<1> DEFINE next == Settle("run", l, c, session, answer, submitted)
<1>0. NoCall.method # "turn/start"
  BY DEF NoCall
<1>1. CASE run.method = "thread/open"
  <2>1. next = AfterOpen(l, c, session, answer)
    BY <1>1 DEF Settle
  <2>2. Ends(AfterOpen(l, c, session, answer), session)
    BY OpenedEnds
  <2>3. QED
    BY <1>0, <2>1, <2>2 DEF Ends
<1>2. ASSUME NEW s \in Session
      PROVE  RunEnds(l, c, s).calls["run"].method # "turn/start"
  BY <1>0, RunsEnd DEF Ends
<1>3. ASSUME NEW method \in {"turn/status", "session/read"}
      PROVE  RunCalls(l, c, session, method).calls["run"].method # "turn/start"
  BY CalledAgain DEF CallsWith, RunMethod
<1>4. CASE run.method = "turn/start"
  <2>1. next \in {RunEnds(l, c, session), RunCalls(l, c, session, "turn/status")}
    BY <1>4 DEF Settle, AfterTurn
  <2>2. QED
    BY <1>2, <1>3, <2>1
<1>5. ASSUME NEW b \in BOOLEAN PROVE [session EXCEPT !.uncertain = b] \in Session
  BY DEF Session
<1>6. CASE run.method = "turn/status"
  <2> DEFINE b == session.uncertain \/ answer \in Unclear \cup {"error"}
  <2>1. next = AfterStatus(l, c, session, answer)
    BY <1>6 DEF Settle
  <2>2. b \in BOOLEAN
    OBVIOUS
  <2>3. AfterStatus(l, c, session, answer) \in
          {RunCalls(l, c, session, "session/read"), RunEnds(l, c, [session EXCEPT !.uncertain = b])}
    BY DEF AfterStatus
  <2> HIDE DEF b
  <2>4. QED
    BY <1>2, <1>3, <1>5, <2>1, <2>2, <2>3
<1>7. CASE run.method = "session/read"
  <2> DEFINE b == session.uncertain \/ answer # "active"
  <2>1. next = RunEnds(l, c, [session EXCEPT !.uncertain = b])
    BY <1>7 DEF Settle, AfterRead
  <2>2. b \in BOOLEAN
    OBVIOUS
  <2> HIDE DEF b
  <2>3. QED
    BY <1>2, <1>5, <2>1, <2>2
<1>8. QED
  BY <1>1, <1>4, <1>6, <1>7 DEF RunMethod

LEMMA RejectedNotSubmitted ==
  ASSUME Safe, session.cancelled, run.method # "turn/start", NEW l \in Link, NEW submitted \in BOOLEAN,
         NEW stages \in SUBSET {"ready", "sent", "running", "answered"},
         Become(Reject(stages, l, calls, session, submitted))
  PROVE  run'.method # "turn/start"
<1> DEFINE rest == [u \in Users |-> IF u # "run" /\ calls[u].stage \in stages THEN NoCall ELSE calls[u]]
<1>1. rest \in [Users -> Call] /\ rest["run"] = run
  BY DEF Safe, Typed, run, Users, NoCall, Call, Reply
<1>2. CASE run.stage \in stages
  <2>1. run.method \in RunMethod
    BY <1>2 DEF Safe, OneCall, NoCall
  <2>2. run' = Settle("run", l, rest, session, "error", submitted).calls["run"]
    BY <1>2 DEF Reject, run, Become
  <2>3. "error" \in Reply /\ session \in Session
    BY DEF Reply, Safe, Typed
  <2> HIDE DEF rest
  <2>4. QED
    BY <1>1, <2>1, <2>2, <2>3, SettledNotSubmitted
<1>3. CASE run.stage \notin stages
  BY <1>1, <1>3 DEF Reject, run, Become
<1>4. QED
  BY <1>2, <1>3

\* One step of the client in a cancelled session, by the action it is.
LEMMA NotSubmitted ==
  ASSUME Safe, ClientNext, session.cancelled, run.method # "turn/start", session'.userTurn = session.userTurn
  PROVE  run'.method # "turn/start"
<1>0. /\ link \in Link /\ calls \in [Users -> Call] /\ session \in Session /\ "run" \in Users
      /\ "error" \in Reply
  BY DEF Safe, Typed, Users, Reply
<1>1. CASE Started
  <2> DEFINE sent == [run EXCEPT !.stage = "sent"]
  <2>1. sent.method = run.method /\ sent \in Call
    BY <1>0 DEF run, Call
  <2>2. run' = IF run.stage # "ready" THEN run ELSE [sent EXCEPT !.process = link.starting]
    BY <1>0, <1>1 DEF Started, run
  <2> HIDE DEF sent
  <2>3. QED
    BY <2>1, <2>2 DEF Call
<1>2. CASE StartFails
  <2> DEFINE l == [link EXCEPT !.process = 0, !.starting = 0]
  <2>1. [link EXCEPT !.process = 0] \in Link
    BY <1>0 DEF Link
  <2>2. l \in Link
    BY <2>1 DEF Link
  <2>3. Become(Reject({"ready"}, l, calls, session, FALSE))
    BY <1>2 DEF StartFails
  <2> HIDE DEF l
  <2>4. QED
    BY <2>2, <2>3, RejectedNotSubmitted
<1>3. CASE Exit
  <2> DEFINE l == [link EXCEPT !.process = 0]
  <2>1. l \in Link
    BY <1>0 DEF Link
  <2>2. Become(Reject({"sent", "running", "answered"}, l, calls, session, TRUE))
    BY <1>3 DEF Exit, Disconnected
  <2> HIDE DEF l
  <2>3. QED
    BY <2>1, <2>2, RejectedNotSubmitted
<1>4. ASSUME NEW u \in Users, NEW answer \in Reply, calls[u].stage # "none",
             Become(Settle(u, link, calls, session, answer, TRUE))
      PROVE  run'.method # "turn/start"
  <2>1. CASE u # "run"
    BY <1>0, <1>4, <2>1 DEF Become, Settle, run
  <2>2. CASE u = "run"
    <3>1. run.method \in RunMethod
      BY <1>4, <2>2 DEF Safe, OneCall, NoCall, run
    <3>2. run' = Settle("run", link, calls, session, answer, TRUE).calls["run"]
      BY <1>4, <2>2 DEF Become, run
    <3>3. QED
      BY <1>0, <3>1, <3>2, SettledNotSubmitted DEF run
  <2>3. QED
    BY <2>1, <2>2
<1>5. ASSUME NEW u \in Users, Timeout(u) \/ WriteFails(u) \/ Receive(u) PROVE run'.method # "turn/start"
  <2>1. calls[u].answer \in Reply
    BY <1>0 DEF Call
  <2>2. QED
    BY <1>0, <1>4, <1>5, <2>1 DEF Timeout, WriteFails, Receive
<1>6. CASE RunTurn
  <2>1. run' = Issue(link, calls, "run", "thread/open").calls["run"]
    BY <1>6 DEF RunTurn, Become, RunCalls, Then, run
  <2>2. "thread/open" \in Method
    BY DEF Method, RunMethod
  <2>3. QED
    BY <1>0, <2>1, <2>2, Issued
<1>7. CASE CancelSession
  <2>1. run' = run
    BY <1>7, OtherIssued DEF CancelSession, run, Users, Method
  <2>2. QED
    BY <2>1
<1>8. CASE Dispose
  <2>1. run' = run
    BY <1>8, OtherIssued DEF Dispose, run, Users, Method
  <2>2. QED
    BY <2>1
<1>9. CASE NextUserTurn
  BY <1>9 DEF NextUserTurn, run
<1>10. CASE OpensThread
  <2>1. PICK g \in Reply : Answer("run", g)
    BY <1>10 DEF OpensThread, Reply, Segments
  <2>2. QED
    BY <2>1, RunAnswered
<1>11. CASE StartsTurn
  BY <1>11 DEF StartsTurn, Handles, run
<1>12. ASSUME NEW ended \in SUBSET RequestIds, NEW status \in {"completed", "failed", "interrupted"}
       PROVE  TurnsOver(ended, status)["run"].method = run.method
  BY <1>0, <1>12, EndTurnsKeepMethod
<1>13. CASE TurnEnds
  <2>1. PICK r \in RequestIds, status \in {"completed", "failed"} : calls' = TurnsOver({r}, status)
    BY <1>13 DEF TurnEnds
  <2>2. QED
    BY <1>12, <2>1 DEF run
<1>14. CASE StopsThread
  <2> DEFINE ended == RunningOn(session.thread)
             c == TurnsOver(ended, "interrupted")
  <2>1. PICK u \in {"cancel", "close"} : calls' = Answered(c, u, "ok")
    BY <1>14 DEF StopsThread, Answered
  <2>2. ended \in SUBSET RequestIds /\ u \in Users /\ u # "run" /\ "ok" \in Reply
    BY DEF RunningOn, Users, Reply
  <2> HIDE DEF ended
  <2>3. c \in [Users -> Call] /\ c["run"].method = run.method
    BY <1>12, <2>2, EndTurnsTyped
  <2> HIDE DEF c
  <2>4. \A v \in Users : v # u => Answered(c, u, "ok")[v] = c[v]
    BY <2>2, <2>3, AnswerTyped
  <2>5. calls'["run"] = c["run"]
    BY <1>0, <2>1, <2>2, <2>4
  <2>6. QED
    BY <2>3, <2>5 DEF run
<1>15. CASE TurnInterrupted
  <2> DEFINE ended == {r \in RequestIds : native.receipt[r] = "running"}
  <2>1. calls' = TurnsOver(ended, "interrupted") /\ ended \in SUBSET RequestIds
    BY <1>15 DEF TurnInterrupted
  <2> HIDE DEF ended
  <2>2. QED
    BY <1>12, <2>1 DEF run
<1>16. CASE LooksUp
  <2>1. run.method \in {"turn/status", "session/read"}
    BY <1>16 DEF LooksUp, Handles, run
  <2>2. ASSUME NEW answer, Answer("run", answer) PROVE run'.method = run.method
    <3>1. calls' = Answered(calls, "run", answer)
      BY <2>2 DEF Answer, Answered
    <3>2. QED
      BY <1>0, <3>1, AnsweredKeepsMethod DEF run
  <2>3. QED
    BY <1>16, <2>1, <2>2 DEF LooksUp
<1>17. QED
  BY <1>1, <1>2, <1>3, <1>5, <1>6, <1>7, <1>8, <1>9, <1>10, <1>11, <1>13, <1>14, <1>15, <1>16 DEF ClientNext

\* A session that was cancelled submits no model turn any more in that user turn, although
\* the cancellation may arrive while its thread is opened (session.ts, run and cancel).
THEOREM CancelledIsNotSubmittedHolds == ClientSpec => CancelledIsNotSubmitted
<1>1. Safe /\ [ClientNext]_clientVars
        => [session.cancelled /\ calls["run"].method # "turn/start" /\ session'.userTurn = session.userTurn
              => calls'["run"].method # "turn/start"]_clientVars
  BY NotSubmitted DEF run
<1>2. QED
  BY <1>1, ClientIsSafe, PTL DEF ClientSpec, CancelledIsNotSubmitted

-----------------------------------------------------------------------------
(* Connections                                                             *)

-----------------------------------------------------------------------------
(* Connections: the state of the client and of the native side.            *)

TaskRequests    == {"profiles", "models", "connect", "login", "logout", "forget", "save", "cancel"}
AnswerKinds    == {"profiles", "models", "no models", "started", "cancelled", "done", "failed"}
Followed    == {"end", "saved", "connect", "failure"}
Maybe       == Profiles \cup {None}
SavedType        == Maybe \cup {"unset"}
Credential  == [version : Nat, signedIn : BOOLEAN]
Credentials == [Profiles -> Credential]
AccountType ==
  [profiles : Credentials, profile : Maybe, connection : [profile : Maybe, version : Nat],
   loading : BOOLEAN, error : BOOLEAN, attempt : Nat, pending : BOOLEAN]
RevisionsType == [revision : Nat, login : Nat, loginProfile : Maybe, settled : SUBSET Nat]
TaskType ==
  [request : TaskRequests \cup {None}, target : Maybe, profile : Maybe, then : Followed \cup {None},
   revision : Nat, login : Nat, version : Nat, answer : AnswerKinds \cup {None}, found : Nat,
   profiles : Credentials]
StepType    == [account : AccountType, revisions : RevisionsType, saved : SavedType, task : TaskType]
AttemptType == [attempt : Nat, profile : Profiles, version : Nat]
NewsType    == [attempt : Nat, profile : Profiles, success : BOOLEAN]
ServiceType ==
  [profiles : Credentials, attempts : SUBSET AttemptType, news : SUBSET NewsType,
   running : BOOLEAN, logins : Nat]

\* What a task names.
Plain(k) ==
  /\ k.then \in {"saved", "connect"} => k.target \in Profiles
  /\ k.request \in {"models", "login", "logout", "forget"} => k.profile \in Profiles
  /\ k.request = "save" => k.profile \in Profiles /\ k.target \in Profiles
  /\ k.request = "connect" => k.target \in Profiles /\ k.profile = k.target
  /\ k.request = None => k = NoTask

ClientType(a, r, v, ks) ==
  /\ a \in AccountType /\ r \in RevisionsType /\ v \in SavedType /\ ks \in [Tasks -> TaskType]
  /\ \A t \in Tasks : Plain(ks[t]) /\ ks[t].revision <= r.revision

\* The native side has changed a profile and the client does not know yet.
Changer(k)  == k.request \in {"logout", "forget", "save"} /\ k.answer = "done"
Awaited(ks) == \E t \in Tasks : Changer(ks[t])
\* The refresh or the connect that no newer one has replaced.
ReadsOf(k, r) == k.request \in {"profiles", "models", "connect"} /\ k.revision = r.revision
Holds(p, version, ks, given) == given[p] = [version |-> version, signedIn |-> TRUE] \/ Awaited(ks)

\* ConnectionIsCurrent made inductive: the connection, and the answer that may replace it,
\* are of the credentials as they are, or a refresh is bound to follow; one task at most
\* can still replace it.
Backed(a, v, ks, given) ==
  a.connection # NoConnection =>
    /\ a.connection.profile \in Profiles /\ v = a.connection.profile
    /\ Holds(a.connection.profile, a.connection.version, ks, given)
Conn(a, r, v, ks, given) ==
  /\ Backed(a, v, ks, given)
  /\ \A t \in Tasks : ReadsOf(ks[t], r) =>
       /\ ks[t].request # "connect" => a.connection = NoConnection
       /\ ks[t].request = "models" => v = ks[t].profile
       /\ ks[t].request # "profiles" /\ ks[t].answer \in {"models", "no models"} =>
            Holds(ks[t].profile, ks[t].found, ks, given)
       /\ \A u \in Tasks : ReadsOf(ks[u], r) => u = t

\* LoginsAreOwned made inductive: the attempt is shown, or about to be shown or cancelled.
Hands(k, i) ==
  /\ k.found = i
  /\ \/ k.request = "login" /\ k.answer = "started"
     \/ k.request = "cancel" /\ k.answer = None
Owner(b, a, ks) == (b.attempt = a.attempt /\ a.pending) \/ \E t \in Tasks : Hands(ks[t], b.attempt)
Mine(k, r)      == k.request = "login" /\ k.login = r.login
Log(a, r, ks, attempts) ==
  /\ \A b \in attempts : Owner(b, a, ks) /\ b.attempt \notin r.settled /\ b.attempt > 0
  /\ \A t \in Tasks : ks[t].request = "login" => ks[t].login <= r.login
  /\ \A t \in Tasks : Mine(ks[t], r) =>
       /\ a.pending /\ a.attempt = 0
       /\ \A u \in Tasks : Mine(ks[u], r) => u = t
Numbered(sv, r) ==
  /\ \A b \in sv.attempts : b.attempt <= sv.logins /\ \A c \in sv.attempts : c.attempt = b.attempt => c = b
  /\ \A n \in sv.news : n.attempt <= sv.logins /\ \A b \in sv.attempts : b.attempt # n.attempt
  /\ \A i \in r.settled : i <= sv.logins

Good(a, r, v, ks, given, attempts) ==
  ClientType(a, r, v, ks) /\ Conn(a, r, v, ks, given) /\ Log(a, r, ks, attempts)
ConnectionsInv ==
  /\ Good(account, revisions, saved, tasks, service.profiles, service.attempts)
  /\ service \in ServiceType /\ Numbered(service, revisions)

-----------------------------------------------------------------------------
LEMMA TasksAreNumbers == Tasks \subseteq Nat \ {0} /\ 1 \in Tasks
  BY OpsAssumption DEF Tasks

LEMMA Names ==
  /\ None \notin Profiles /\ "unset" \notin Profiles /\ None = "none"
  /\ NoTask \in TaskType /\ Plain(NoTask) /\ NoTask.request = None /\ NoTask.revision = 0
  /\ NoTask.answer = None /\ NoTask.then = None /\ NoTask.found = 0
  /\ NoConnection \in [profile : Maybe, version : Nat]
<1>1. None \notin Profiles /\ "unset" \notin Profiles /\ None = "none"
  BY ProfilesAssumption DEF None
<1>2. Unknown \in Credentials
  BY DEF Unknown, Credentials, Credential
<1>3. NoTask \in TaskType
  BY <1>2 DEF NoTask, TaskType, Maybe
<1>4. /\ NoTask.request = None /\ NoTask.revision = 0 /\ NoTask.then = None
      /\ NoTask.answer = None /\ NoTask.found = 0
  BY DEF NoTask
<1>5. Plain(NoTask)
  BY <1>4 DEF Plain, None
<1>6. QED
  BY <1>1, <1>3, <1>4, <1>5 DEF NoConnection, Maybe

(* What each operator makes of the state between two awaits.               *)

LEMMA RefreshIs ==
  ASSUME NEW s \in StepType, NEW then \in Followed, NEW x, x = Refresh(s, then)
  PROVE  /\ x \in StepType /\ x.saved = s.saved
         /\ x.account.connection = NoConnection
         /\ x.account.attempt = s.account.attempt /\ x.account.pending = s.account.pending
         /\ x.revisions.revision = s.revisions.revision + 1
         /\ x.revisions.login = s.revisions.login /\ x.revisions.settled = s.revisions.settled
         /\ x.task.request = "profiles" /\ x.task.answer = None /\ x.task.then = then
         /\ x.task.revision = x.revisions.revision /\ x.task.target = s.task.target
<1>1. PICK r : r = [s.revisions EXCEPT !.revision = @ + 1]
  OBVIOUS
<1>2. r \in RevisionsType /\ r.revision = s.revisions.revision + 1 /\ r.login = s.revisions.login
      /\ r.settled = s.revisions.settled
  BY <1>1 DEF RevisionsType, StepType
<1>3. PICK a : a = [s.account EXCEPT !.loading = TRUE, !.connection = NoConnection, !.error = FALSE]
  OBVIOUS
<1>4. /\ a \in AccountType /\ a.connection = NoConnection
      /\ a.attempt = s.account.attempt /\ a.pending = s.account.pending
  BY <1>3, Names DEF AccountType, StepType
<1>5. PICK k : k = [[s.task EXCEPT !.then = then]
                       EXCEPT !.request = "profiles", !.profile = None, !.answer = None, !.revision = r.revision]
  OBVIOUS
<1>6. /\ k \in TaskType /\ k.request = "profiles" /\ k.answer = None /\ k.then = then
      /\ k.revision = r.revision /\ k.target = s.task.target
  BY <1>2, <1>5 DEF TaskType, StepType, TaskRequests, Maybe, RevisionsType
<1>7. x = [account |-> a, revisions |-> r, saved |-> s.saved, task |-> k]
  BY <1>1, <1>3, <1>5 DEF Refresh, Ask, Newer, StepType
<1>8. QED
  BY <1>2, <1>4, <1>6, <1>7 DEF StepType

LEMMA ConnectIs ==
  ASSUME NEW s \in StepType, s.task.target \in Profiles, NEW x, x = Connect(s), x # End(s)
  PROVE  /\ x \in StepType /\ x.saved = s.saved /\ x.account.connection = s.account.connection
         /\ x.account.attempt = s.account.attempt /\ x.account.pending = s.account.pending
         /\ x.revisions.revision = s.revisions.revision + 1
         /\ x.revisions.login = s.revisions.login /\ x.revisions.settled = s.revisions.settled
         /\ x.task.request = "connect" /\ x.task.answer = None /\ x.task.then = s.task.then
         /\ x.task.revision = x.revisions.revision /\ x.task.target = s.task.target
         /\ x.task.profile = s.task.target
<1>1. PICK r : r = [s.revisions EXCEPT !.revision = @ + 1]
  OBVIOUS
<1>2. r \in RevisionsType /\ r.revision = s.revisions.revision + 1 /\ r.login = s.revisions.login
      /\ r.settled = s.revisions.settled
  BY <1>1 DEF RevisionsType, StepType
<1>3. PICK a : a = [s.account EXCEPT !.loading = TRUE, !.error = FALSE]
  OBVIOUS
<1>4. /\ a \in AccountType /\ a.connection = s.account.connection
      /\ a.attempt = s.account.attempt /\ a.pending = s.account.pending
  BY <1>3 DEF AccountType, StepType
<1>a. PICK v : v = s.account.profiles[s.task.target].version
  OBVIOUS
<1>b. v \in Nat
  BY <1>a DEF StepType, AccountType, Credentials, Credential
<1>5. PICK k : k = [[s.task EXCEPT !.version = v] EXCEPT !.request = "connect", !.profile = s.task.target,
                       !.answer = None, !.revision = r.revision]
  OBVIOUS
<1>6. /\ k \in TaskType /\ k.request = "connect" /\ k.answer = None /\ k.then = s.task.then
      /\ k.revision = r.revision /\ k.target = s.task.target /\ k.profile = s.task.target
  BY <1>2, <1>5, <1>b DEF TaskType, StepType, TaskRequests, Maybe, RevisionsType
<1>7. x = [account |-> a, revisions |-> r, saved |-> s.saved, task |-> k]
  BY <1>1, <1>3, <1>5, <1>a DEF Connect, Ask, Newer, StepType
<1>8. QED
  BY <1>2, <1>4, <1>6, <1>7 DEF StepType

LEMMA EndIs ==
  ASSUME NEW s \in StepType, NEW x, x = End(s)
  PROVE  /\ x \in StepType /\ x.saved = s.saved /\ x.account = s.account
         /\ x.revisions = s.revisions /\ x.task = NoTask
  BY Names DEF End, StepType

LEMMA AskIs ==
  ASSUME NEW s \in StepType, NEW request \in TaskRequests, NEW profile \in Maybe, NEW x, x = Ask(s, request, profile)
  PROVE  /\ x \in StepType /\ x.saved = s.saved /\ x.account = s.account /\ x.revisions = s.revisions
         /\ x.task.request = request /\ x.task.profile = profile /\ x.task.answer = None
         /\ x.task.revision = s.revisions.revision /\ x.task.then = s.task.then
         /\ x.task.target = s.task.target /\ x.task.found = s.task.found /\ x.task.login = s.task.login
<1>1. PICK k : k = [s.task EXCEPT !.request = request, !.profile = profile, !.answer = None,
                                  !.revision = s.revisions.revision]
  OBVIOUS
<1>2. /\ k \in TaskType /\ k.request = request /\ k.profile = profile /\ k.answer = None
      /\ k.revision = s.revisions.revision /\ k.then = s.task.then
      /\ k.target = s.task.target /\ k.found = s.task.found /\ k.login = s.task.login
  BY <1>1 DEF TaskType, StepType, RevisionsType
<1>3. x = [account |-> s.account, revisions |-> s.revisions, saved |-> s.saved, task |-> k]
  BY <1>1 DEF Ask, StepType
<1>4. QED
  BY <1>2, <1>3 DEF StepType

LEMMA PublishIs ==
  ASSUME NEW s \in StepType, s.task.profile \in Profiles, NEW x, x = Publish(s)
  PROVE  /\ x \in StepType /\ x.saved = s.saved /\ x.revisions = s.revisions /\ x.task = s.task
         /\ x.account.attempt = s.account.attempt /\ x.account.pending = s.account.pending
         /\ x.account.connection # NoConnection =>
              /\ x.account.connection = [profile |-> s.task.profile, version |-> s.task.version]
              /\ s.task.answer # "no models"
<1>1. PICK n : n = IF s.task.answer = "no models" THEN NoConnection
                   ELSE [profile |-> s.task.profile, version |-> s.task.version]
  OBVIOUS
<1>2. n \in [profile : Maybe, version : Nat]
  <2>1. s.task.profile \in Maybe /\ s.task.version \in Nat
    BY DEF Maybe, StepType, TaskType
  <2>2. QED
    BY <1>1, <2>1, Names
<1>3. PICK a : a = [s.account EXCEPT !.profile = s.task.profile, !.loading = FALSE, !.connection = n]
  OBVIOUS
<1>4. /\ a \in AccountType /\ a.connection = n
      /\ a.attempt = s.account.attempt /\ a.pending = s.account.pending
  <2>1. s.task.profile \in Maybe
    BY DEF Maybe
  <2>2. QED
    BY <1>2, <1>3, <2>1 DEF AccountType, StepType
<1>5. x = [account |-> a, revisions |-> s.revisions, saved |-> s.saved, task |-> s.task]
  BY <1>1, <1>3 DEF Publish, StepType
<1>6. n # NoConnection =>
        n = [profile |-> s.task.profile, version |-> s.task.version] /\ s.task.answer # "no models"
  BY <1>1
<1>7. /\ x.saved = s.saved /\ x.revisions = s.revisions /\ x.task = s.task /\ x.account = a
      /\ x \in StepType
  BY <1>4, <1>5 DEF StepType
<1>8. QED
  BY <1>4, <1>6, <1>7

\* The account where only what no invariant reads, the profile shown and the connection change.
LEMMA AccountIs ==
  ASSUME NEW s \in StepType, NEW a \in AccountType, NEW x, x = [s EXCEPT !.account = a]
  PROVE  /\ x \in StepType /\ x.saved = s.saved /\ x.revisions = s.revisions
         /\ x.task = s.task /\ x.account = a
  BY DEF StepType

LEMMA ActiveIs ==
  ASSUME NEW preference \in SavedType, NEW profiles, NEW p, p = ActiveProfile(preference, profiles), p # None
  PROVE  p \in Profiles /\ preference \in {"unset", p}
<1>. DEFINE signed == {q \in Profiles : profiles[q].signedIn}
<1>1. signed \subseteq Profiles
  OBVIOUS
<1>2. CASE preference = "unset" /\ signed # {}
  <2>1. p = CHOOSE q \in signed : TRUE
    BY <1>2 DEF ActiveProfile
  <2>2. QED
    BY <1>1, <1>2, <2>1
<1>3. CASE preference \in signed
  <2>1. preference # "unset"
    BY <1>1, <1>3, Names
  <2>2. p = preference
    BY <1>3, <2>1 DEF ActiveProfile
  <2>3. QED
    BY <1>1, <1>3, <2>2
<1>4. CASE ~(preference = "unset" /\ signed # {}) /\ preference \notin signed
  BY <1>4 DEF ActiveProfile
<1>5. QED
  BY <1>2, <1>3, <1>4

LEMMA WithdrawnIs ==
  ASSUME NEW s \in StepType, NEW x, x = Withdrawn(s)
  PROVE  /\ x \in StepType /\ x.saved = s.saved /\ x.account.connection = s.account.connection
         /\ x.account.attempt = 0 /\ x.account.pending = FALSE
         /\ x.account.profile = s.account.profile
         /\ x.revisions.revision = s.revisions.revision
         /\ x.revisions.login = s.revisions.login + 1 /\ x.revisions.settled = s.revisions.settled
         /\ x.task = [s.task EXCEPT !.found = s.account.attempt]
<1>1. PICK r : r = [s.revisions EXCEPT !.login = @ + 1, !.loginProfile = None]
  OBVIOUS
<1>2. r \in RevisionsType /\ r.revision = s.revisions.revision /\ r.login = s.revisions.login + 1
      /\ r.settled = s.revisions.settled
  <2>1. None \in Maybe /\ s.revisions \in RevisionsType
    BY DEF Maybe, StepType
  <2>2. s.revisions.login + 1 \in Nat
    BY <2>1 DEF RevisionsType
  <2>3. QED
    BY <1>1, <2>1, <2>2 DEF RevisionsType
<1>3. PICK a : a = [s.account EXCEPT !.pending = FALSE, !.attempt = 0]
  OBVIOUS
<1>4. /\ a \in AccountType /\ a.connection = s.account.connection
      /\ a.attempt = 0 /\ a.pending = FALSE /\ a.profile = s.account.profile
  BY <1>3 DEF AccountType, StepType
<1>5. PICK k : k = [s.task EXCEPT !.found = s.account.attempt]
  OBVIOUS
<1>6. k \in TaskType
  BY <1>5 DEF TaskType, StepType, AccountType
<1>7. x = [account |-> a, revisions |-> r, saved |-> s.saved, task |-> k]
  BY <1>1, <1>3, <1>5 DEF Withdrawn, StepType
<1>8. QED
  BY <1>2, <1>4, <1>5, <1>6, <1>7 DEF StepType

-----------------------------------------------------------------------------
(* What keeps the parts of the invariant, when one task goes on.           *)

LEMMA ClientKept ==
  ASSUME NEW a, NEW r, NEW v, NEW ks, ClientType(a, r, v, ks),
         NEW t \in Tasks, NEW s \in StepType, Plain(s.task), s.task.revision <= s.revisions.revision,
         r.revision <= s.revisions.revision
  PROVE  ClientType(s.account, s.revisions, s.saved, [ks EXCEPT ![t] = s.task])
<1>1. /\ s.account \in AccountType /\ s.revisions \in RevisionsType /\ s.saved \in SavedType
      /\ s.task \in TaskType
  BY DEF StepType
<1>2. [ks EXCEPT ![t] = s.task] \in [Tasks -> TaskType]
  BY <1>1 DEF ClientType
<1>3. r.revision \in Nat /\ s.revisions.revision \in Nat
  BY <1>1 DEF ClientType, RevisionsType
<1>4. ASSUME NEW u \in Tasks
      PROVE  Plain([ks EXCEPT ![t] = s.task][u]) /\ [ks EXCEPT ![t] = s.task][u].revision <= s.revisions.revision
  <2>1. CASE u = t
    BY <2>1 DEF ClientType
  <2>2. CASE u # t
    <3>1. ks[u].revision \in Nat /\ ks[u].revision <= r.revision /\ Plain(ks[u])
      BY DEF ClientType, TaskType
    <3>2. QED
      BY <1>3, <2>2, <3>1 DEF ClientType
  <2>3. QED
    BY <2>1, <2>2
<1>5. QED
  BY <1>1, <1>2, <1>4 DEF ClientType

\* One task ends or goes on in a newer revision.
LEMMA ConnNewer ==
  ASSUME NEW a, NEW r, NEW v, NEW ks, ClientType(a, r, v, ks), NEW given, Conn(a, r, v, ks, given),
         NEW t \in Tasks, NEW s \in StepType, s.task.answer = None, s.task.request # "models",
         r.revision < s.revisions.revision,
         \/ s.account.connection = NoConnection
         \/ /\ s.account.connection = a.connection /\ s.saved = v
            /\ ~Changer(ks[t]) /\ s.task.request # "profiles"
  PROVE  Conn(s.account, s.revisions, s.saved, [ks EXCEPT ![t] = s.task], given)
<1>. DEFINE ls == [ks EXCEPT ![t] = s.task]
<1>1. /\ r.revision \in Nat /\ s.revisions.revision \in Nat
      /\ ls[t] = s.task /\ \A u \in Tasks : u # t => ls[u] = ks[u]
  BY DEF ClientType, RevisionsType, StepType
<1>2. ASSUME NEW u \in Tasks, ReadsOf(ls[u], s.revisions)
      PROVE  u = t
  <2>1. ks[u].revision \in Nat /\ ks[u].revision <= r.revision
    BY DEF ClientType, TaskType
  <2>2. QED
    BY <1>1, <1>2, <2>1 DEF ReadsOf
<1>3. ~Changer(ks[t]) /\ Awaited(ks) => Awaited(ls)
  BY <1>1 DEF Awaited
<1>4. Backed(s.account, s.saved, ls, given)
  <2>1. CASE s.account.connection = NoConnection
    BY <2>1 DEF Backed
  <2>2. CASE s.account.connection # NoConnection
    BY <1>3, <2>2 DEF Conn, Backed, Holds
  <2>3. QED
    BY <2>1, <2>2
<1>5. s.task.answer \notin {"models", "no models"}
  BY DEF None
<1>6. ASSUME NEW u \in Tasks, ReadsOf(ls[u], s.revisions)
      PROVE  /\ ls[u].request # "connect" => s.account.connection = NoConnection
             /\ ls[u].request = "models" => s.saved = ls[u].profile
             /\ ls[u].answer \notin {"models", "no models"}
  BY <1>1, <1>2, <1>5, <1>6 DEF ReadsOf
<1>. HIDE DEF ls
<1>7. Conn(s.account, s.revisions, s.saved, ls, given)
  BY <1>2, <1>4, <1>6 DEF Conn
<1>8. QED
  BY <1>7 DEF ls

\* Neither the connection nor the revision changes.
LEMMA ConnSame ==
  ASSUME NEW a, NEW r, NEW v, NEW ks, NEW given, Conn(a, r, v, ks, given),
         ks \in [Tasks -> TaskType],
         NEW t \in Tasks, NEW s \in StepType, ~ReadsOf(s.task, s.revisions), ~Changer(ks[t]),
         r.revision = s.revisions.revision, s.account.connection = a.connection, s.saved = v
  PROVE  Conn(s.account, s.revisions, s.saved, [ks EXCEPT ![t] = s.task], given)
<1>. DEFINE ls == [ks EXCEPT ![t] = s.task]
<1>1. ls[t] = s.task /\ \A u \in Tasks : u # t => ls[u] = ks[u]
  OBVIOUS
<1>2. \A u \in Tasks : ReadsOf(ls[u], s.revisions) => u # t /\ ls[u] = ks[u] /\ ReadsOf(ks[u], r)
  BY <1>1 DEF ReadsOf
<1>3. Awaited(ks) => Awaited(ls)
  BY <1>1 DEF Awaited
<1>4. Backed(s.account, s.saved, ls, given)
  BY <1>3 DEF Conn, Backed, Holds
<1>. HIDE DEF ls
<1>5. ASSUME NEW u \in Tasks, ReadsOf(ls[u], s.revisions)
      PROVE  /\ ls[u].request # "connect" => s.account.connection = NoConnection
             /\ ls[u].request = "models" => s.saved = ls[u].profile
  <2>1. ls[u] = ks[u] /\ ReadsOf(ks[u], r)
    BY <1>2, <1>5
  <2>2. QED
    BY <2>1 DEF Conn
<1>6. ASSUME NEW u \in Tasks, ReadsOf(ls[u], s.revisions),
             ls[u].request # "profiles", ls[u].answer \in {"models", "no models"}
      PROVE  Holds(ls[u].profile, ls[u].found, ls, given)
  <2>1. Holds(ks[u].profile, ks[u].found, ks, given)
    BY <1>2, <1>6 DEF Conn
  <2>2. QED
    BY <1>2, <1>3, <1>6, <2>1 DEF Holds
<1>7. \A u \in Tasks : ReadsOf(ls[u], s.revisions) => \A w \in Tasks : ReadsOf(ls[w], s.revisions) => w = u
  BY <1>2 DEF Conn
<1>8. Conn(s.account, s.revisions, s.saved, ls, given)
  BY <1>4, <1>5, <1>6, <1>7 DEF Conn
<1>9. QED
  BY <1>8 DEF ls

\* The task that can still replace the connection goes on.
LEMMA ConnRead ==
  ASSUME NEW a, NEW r, NEW v, NEW ks, NEW given, Conn(a, r, v, ks, given),
         ks \in [Tasks -> TaskType],
         NEW t \in Tasks, ReadsOf(ks[t], r), NEW s \in StepType, r.revision = s.revisions.revision,
         Backed(s.account, s.saved, ks, given),
         ReadsOf(s.task, s.revisions) =>
           /\ s.task.request = "models" /\ s.task.answer = None
           /\ s.account.connection = NoConnection /\ s.saved = s.task.profile
  PROVE  Conn(s.account, s.revisions, s.saved, [ks EXCEPT ![t] = s.task], given)
<1>. DEFINE ls == [ks EXCEPT ![t] = s.task]
<1>1. ls[t] = s.task /\ \A u \in Tasks : u # t => ls[u] = ks[u]
  OBVIOUS
<1>2. ~Changer(ks[t])
  BY DEF ReadsOf, Changer
<1>3. Awaited(ks) => Awaited(ls)
  BY <1>1, <1>2 DEF Awaited
<1>4. \A u \in Tasks : ReadsOf(ls[u], s.revisions) => u = t
  BY <1>1 DEF Conn, ReadsOf
<1>5. Backed(s.account, s.saved, ls, given)
  BY <1>3 DEF Backed, Holds
<1>6. s.task.answer = None => s.task.answer \notin {"models", "no models"}
  BY DEF None
<1>7. ASSUME NEW u \in Tasks, ReadsOf(ls[u], s.revisions)
      PROVE  /\ ls[u].request # "connect" => s.account.connection = NoConnection
             /\ ls[u].request = "models" => s.saved = ls[u].profile
             /\ ls[u].answer \notin {"models", "no models"}
  BY <1>1, <1>4, <1>6, <1>7
<1>. HIDE DEF ls
<1>8. Conn(s.account, s.revisions, s.saved, ls, given)
  BY <1>4, <1>5, <1>7 DEF Conn
<1>9. QED
  BY <1>8 DEF ls

\* No login begins or ends, and the task brought no attempt.
LEMMA LogSame ==
  ASSUME NEW a, NEW r, NEW ks, NEW attempts, Log(a, r, ks, attempts), ks \in [Tasks -> TaskType],
         NEW t \in Tasks, NEW s \in StepType, s.task.request # "login",
         \A b \in attempts : ~Hands(ks[t], b.attempt),
         s.account.attempt = a.attempt, s.account.pending = a.pending,
         s.revisions.login = r.login, s.revisions.settled = r.settled
  PROVE  Log(s.account, s.revisions, [ks EXCEPT ![t] = s.task], attempts)
<1>. DEFINE ls == [ks EXCEPT ![t] = s.task]
<1>1. ls[t] = s.task /\ \A u \in Tasks : u # t => ls[u] = ks[u]
  OBVIOUS
<1>2. ASSUME NEW b \in attempts
      PROVE  Owner(b, s.account, ls) /\ b.attempt \notin s.revisions.settled /\ b.attempt > 0
  BY <1>1, <1>2 DEF Log, Owner
<1>3. \A u \in Tasks : ls[u].request = "login" => ls[u].login <= s.revisions.login
  BY <1>1 DEF Log
<1>4. \A u \in Tasks : Mine(ls[u], s.revisions) => u # t /\ ls[u] = ks[u] /\ Mine(ks[u], r)
  BY <1>1 DEF Mine
<1>. HIDE DEF ls
<1>5. \A u \in Tasks : Mine(ls[u], s.revisions) =>
        /\ s.account.pending /\ s.account.attempt = 0
        /\ \A w \in Tasks : Mine(ls[w], s.revisions) => w = u
  BY <1>4 DEF Log
<1>6. Log(s.account, s.revisions, ls, attempts)
  BY <1>2, <1>3, <1>5 DEF Log
<1>7. QED
  BY <1>6 DEF ls

\* The three ways the invariant is kept when task t goes on.
LEMMA GoodNewer ==
  ASSUME NEW a, NEW r, NEW v, NEW ks, NEW given, NEW attempts, Good(a, r, v, ks, given, attempts),
         NEW t \in Tasks, NEW s \in StepType, Plain(s.task), s.task.revision <= s.revisions.revision,
         s.task.answer = None, s.task.request \notin {"models", "login"},
         r.revision < s.revisions.revision,
         \/ s.account.connection = NoConnection
         \/ /\ s.account.connection = a.connection /\ s.saved = v
            /\ ~Changer(ks[t]) /\ s.task.request # "profiles",
         \A b \in attempts : ~Hands(ks[t], b.attempt),
         s.account.attempt = a.attempt, s.account.pending = a.pending,
         s.revisions.login = r.login, s.revisions.settled = r.settled
  PROVE  Good(s.account, s.revisions, s.saved, [ks EXCEPT ![t] = s.task], given, attempts)
<1>1. r.revision \in Nat /\ s.revisions.revision \in Nat /\ ks \in [Tasks -> TaskType]
  BY DEF Good, ClientType, RevisionsType, StepType
<1>2. ClientType(s.account, s.revisions, s.saved, [ks EXCEPT ![t] = s.task])
  <2>1. ClientType(a, r, v, ks) /\ r.revision <= s.revisions.revision
    BY <1>1 DEF Good
  <2>2. QED
    BY <2>1, ClientKept
<1>3. Conn(s.account, s.revisions, s.saved, [ks EXCEPT ![t] = s.task], given)
  BY ConnNewer DEF Good
<1>4. Log(s.account, s.revisions, [ks EXCEPT ![t] = s.task], attempts)
  BY <1>1, LogSame DEF Good
<1>5. QED
  BY <1>2, <1>3, <1>4 DEF Good

LEMMA GoodSame ==
  ASSUME NEW a, NEW r, NEW v, NEW ks, NEW given, NEW attempts, Good(a, r, v, ks, given, attempts),
         NEW t \in Tasks, NEW s \in StepType, Plain(s.task), s.task.revision <= s.revisions.revision,
         ~ReadsOf(s.task, s.revisions), s.task.request # "login", ~Changer(ks[t]),
         r.revision = s.revisions.revision, s.account.connection = a.connection, s.saved = v,
         \A b \in attempts : ~Hands(ks[t], b.attempt),
         s.account.attempt = a.attempt, s.account.pending = a.pending,
         s.revisions.login = r.login, s.revisions.settled = r.settled
  PROVE  Good(s.account, s.revisions, s.saved, [ks EXCEPT ![t] = s.task], given, attempts)
<1>1. r.revision \in Nat /\ s.revisions.revision \in Nat /\ ks \in [Tasks -> TaskType]
  BY DEF Good, ClientType, RevisionsType, StepType
<1>2. ClientType(s.account, s.revisions, s.saved, [ks EXCEPT ![t] = s.task])
  <2>1. ClientType(a, r, v, ks) /\ r.revision <= s.revisions.revision
    BY <1>1 DEF Good
  <2>2. QED
    BY <2>1, ClientKept
<1>3. Conn(s.account, s.revisions, s.saved, [ks EXCEPT ![t] = s.task], given)
  BY <1>1, ConnSame DEF Good
<1>4. Log(s.account, s.revisions, [ks EXCEPT ![t] = s.task], attempts)
  BY <1>1, LogSame DEF Good
<1>5. QED
  BY <1>2, <1>3, <1>4 DEF Good

LEMMA GoodRead ==
  ASSUME NEW a, NEW r, NEW v, NEW ks, NEW given, NEW attempts, Good(a, r, v, ks, given, attempts),
         NEW t \in Tasks, NEW s \in StepType, Plain(s.task), s.task.revision <= s.revisions.revision,
         ReadsOf(ks[t], r), Backed(s.account, s.saved, ks, given),
         ReadsOf(s.task, s.revisions) =>
           /\ s.task.request = "models" /\ s.task.answer = None
           /\ s.account.connection = NoConnection /\ s.saved = s.task.profile,
         s.task.request # "login", s.revisions = r,
         s.account.attempt = a.attempt, s.account.pending = a.pending
  PROVE  Good(s.account, s.revisions, s.saved, [ks EXCEPT ![t] = s.task], given, attempts)
<1>1. r.revision \in Nat /\ s.revisions.revision \in Nat /\ ks \in [Tasks -> TaskType]
  BY DEF Good, ClientType, RevisionsType, StepType
<1>2. ClientType(s.account, s.revisions, s.saved, [ks EXCEPT ![t] = s.task])
  <2>1. ClientType(a, r, v, ks) /\ r.revision <= s.revisions.revision
    BY <1>1 DEF Good
  <2>2. QED
    BY <2>1, ClientKept
<1>3. Conn(s.account, s.revisions, s.saved, [ks EXCEPT ![t] = s.task], given)
  BY <1>1, ConnRead DEF Good
<1>4. \A b \in attempts : ~Hands(ks[t], b.attempt)
  BY DEF Hands, ReadsOf
<1>5. Log(s.account, s.revisions, [ks EXCEPT ![t] = s.task], attempts)
  BY <1>1, <1>4, LogSame DEF Good
<1>6. QED
  BY <1>2, <1>3, <1>5 DEF Good

\* What holds of the state after a continuation.
Onward(x, s, t, ks, given, attempts) ==
  /\ x \in StepType /\ s.revisions.revision <= x.revisions.revision
  /\ x.revisions.settled = s.revisions.settled /\ x.task.answer = None
  /\ Good(x.account, x.revisions, x.saved, [ks EXCEPT ![t] = x.task], given, attempts)

\* A task that has just returned, seen as over; nothing it learned was published meanwhile.
TaskEnded(s, t, ks, given, attempts) ==
  /\ s \in StepType /\ Plain(s.task)
  /\ Good(s.account, s.revisions, s.saved, [ks EXCEPT ![t] = NoTask], given, attempts)
Quiets(s, x) == s.account.connection = NoConnection => x.account.connection = NoConnection

\* What follows a refresh that returned: the task was over and goes on.
LEMMA ReturnedGood ==
  ASSUME NEW s, NEW t \in Tasks, NEW ks \in [Tasks -> TaskType], NEW given, NEW attempts,
         TaskEnded(s, t, ks, given, attempts), NEW x, x = Returned(s)
  PROVE  Onward(x, s, t, ks, given, attempts) /\ Quiets(s, x)
<1>. DEFINE ns == [ks EXCEPT ![t] = NoTask]
<1>0. s \in StepType /\ Plain(s.task)
  BY DEF TaskEnded
<1>1. /\ ns[t] = NoTask /\ [ns EXCEPT ![t] = x.task] = [ks EXCEPT ![t] = x.task]
      /\ s.revisions.revision \in Nat
  BY <1>0 DEF StepType, RevisionsType
<1>2. ~Changer(ns[t]) /\ \A b \in attempts : ~Hands(ns[t], b.attempt)
  BY <1>1, Names DEF Changer, Hands, None
<1>. HIDE DEF ns
<1>g. Good(s.account, s.revisions, s.saved, ns, given, attempts)
  BY DEF ns, TaskEnded
<1>e. ASSUME x = End(s)
      PROVE  Onward(x, s, t, ks, given, attempts) /\ Quiets(s, x)
  <2>1. /\ x \in StepType /\ x.saved = s.saved /\ x.account = s.account
        /\ x.revisions = s.revisions /\ x.task = NoTask
    BY <1>0, <1>e, EndIs
  <2>2. QED
    BY <1>1, <1>g, <2>1, Names DEF Onward, Quiets, ns
<1>r. ASSUME NEW then \in Followed, x = Refresh(s, then), then = "connect" => s.task.target \in Profiles,
             then # "saved"
      PROVE  Onward(x, s, t, ks, given, attempts) /\ Quiets(s, x)
  <2>1. /\ x \in StepType /\ x.saved = s.saved
        /\ x.account.connection = NoConnection
        /\ x.account.attempt = s.account.attempt /\ x.account.pending = s.account.pending
        /\ x.revisions.revision = s.revisions.revision + 1
        /\ x.revisions.login = s.revisions.login /\ x.revisions.settled = s.revisions.settled
        /\ x.task.request = "profiles" /\ x.task.answer = None /\ x.task.then = then
        /\ x.task.revision = x.revisions.revision /\ x.task.target = s.task.target
    BY <1>0, <1>r, RefreshIs
  <2>2. Plain(x.task)
    BY <1>r, <2>1 DEF Plain, None
  <2>3. Good(x.account, x.revisions, x.saved, [ns EXCEPT ![t] = x.task], given, attempts)
    BY <1>0, <1>1, <1>2, <1>g, <2>1, <2>2, GoodNewer
  <2>4. QED
    BY <1>1, <2>1, <2>3 DEF Onward, Quiets
<1>3. CASE s.task.then = "saved" /\ ~s.account.error
  <2>1. x = Refresh(s, "connect") /\ s.task.target \in Profiles /\ "connect" \in Followed
    BY <1>0, <1>3 DEF Returned, Plain, Followed
  <2>2. QED
    BY <1>r, <2>1
<1>4. CASE s.task.then = "connect" /\ ~s.account.error
  <2>1. x = Connect(s) /\ s.task.target \in Profiles
    BY <1>0, <1>4 DEF Returned, Plain
  <2>2. CASE x # End(s)
    <3>1. /\ x \in StepType /\ x.saved = s.saved /\ x.account.connection = s.account.connection
          /\ x.account.attempt = s.account.attempt /\ x.account.pending = s.account.pending
          /\ x.revisions.revision = s.revisions.revision + 1
          /\ x.revisions.login = s.revisions.login /\ x.revisions.settled = s.revisions.settled
          /\ x.task.request = "connect" /\ x.task.answer = None /\ x.task.then = s.task.then
          /\ x.task.revision = x.revisions.revision /\ x.task.target = s.task.target
          /\ x.task.profile = s.task.target
      BY <1>0, <2>1, <2>2, ConnectIs
    <3>2. Plain(x.task)
      BY <2>1, <3>1 DEF Plain, None
    <3>3. Good(x.account, x.revisions, x.saved, [ns EXCEPT ![t] = x.task], given, attempts)
      BY <1>0, <1>1, <1>2, <1>g, <3>1, <3>2, GoodNewer
    <3>4. QED
      BY <1>1, <3>1, <3>3 DEF Onward, Quiets
  <2>3. QED
    BY <1>e, <2>2
<1>5. CASE ~(s.task.then \in {"saved", "connect"} /\ ~s.account.error)
  <2>1. CASE s.task.then = "failure" /\ s.task.login = s.revisions.login
    <3>1. PICK a : a = [s.account EXCEPT !.error = TRUE]
      OBVIOUS
    <3>2. /\ a \in AccountType /\ a.connection = s.account.connection
          /\ a.attempt = s.account.attempt /\ a.pending = s.account.pending
      BY <1>0, <3>1 DEF StepType, AccountType
    <3>3. x = [account |-> a, revisions |-> s.revisions, saved |-> s.saved, task |-> NoTask]
      BY <1>0, <1>5, <2>1, <3>1 DEF Returned, End, StepType
    <3>4. x \in StepType
      BY <1>0, <3>2, <3>3, Names DEF StepType
    <3>5. ~ReadsOf(x.task, x.revisions) /\ x.task.request # "login"
      BY <3>3, Names DEF ReadsOf, None
    <3>6. Good(x.account, x.revisions, x.saved, [ns EXCEPT ![t] = x.task], given, attempts)
      BY <1>0, <1>1, <1>2, <1>g, <3>2, <3>3, <3>4, <3>5, Names, GoodSame
    <3>7. QED
      BY <1>1, <3>2, <3>3, <3>4, <3>6, Names DEF Onward, Quiets
  <2>2. CASE ~(s.task.then = "failure" /\ s.task.login = s.revisions.login)
    <3>1. x = End(s)
      BY <1>5, <2>2 DEF Returned
    <3>2. QED
      BY <1>e, <3>1
  <2>3. QED
    BY <2>1, <2>2
<1>6. QED
  BY <1>3, <1>4, <1>5

-----------------------------------------------------------------------------
(* The code after each await keeps the invariant.                          *)

\* Where task t stands.
At(s, a, r, v, ks, t) ==
  /\ s \in StepType /\ s.account = a /\ s.revisions = r /\ s.saved = v /\ s.task = ks[t]
  /\ Plain(s.task) /\ s.task.revision <= s.revisions.revision

LEMMA AtGood ==
  ASSUME NEW a, NEW r, NEW v, NEW ks, NEW given, NEW attempts, Good(a, r, v, ks, given, attempts),
         NEW t \in Tasks, NEW s, s = [account |-> a, revisions |-> r, saved |-> v, task |-> ks[t]]
  PROVE  At(s, a, r, v, ks, t) /\ ks \in [Tasks -> TaskType]
  BY DEF At, Good, ClientType, StepType

\* A step that leaves the account to the invariants as it was, then refresh returned.
LEMMA ThenReturned ==
  ASSUME NEW a, NEW r, NEW v, NEW ks, NEW given, NEW attempts, Good(a, r, v, ks, given, attempts),
         NEW t \in Tasks, NEW s, At(s, a, r, v, ks, t), ks \in [Tasks -> TaskType],
         NEW y \in StepType, y.revisions = r, y.task = s.task,
         y.account.attempt = a.attempt, y.account.pending = a.pending,
         ks[t].request \in {"profiles", "models"},
         \/ ReadsOf(ks[t], r) /\ Backed(y.account, y.saved, ks, given)
         \/ y.saved = v /\ y.account.connection = a.connection,
         NEW x, x = Returned(y)
  PROVE  /\ Onward(x, s, t, ks, given, attempts)
         /\ y.account.connection = NoConnection => x.account.connection = NoConnection
<1>1. PICK e : e = End(y)
  OBVIOUS
<1>2. /\ e \in StepType /\ e.saved = y.saved /\ e.account = y.account
      /\ e.revisions = r /\ e.task = NoTask
  BY <1>1, EndIs
<1>3. /\ ~Changer(ks[t]) /\ \A b \in attempts : ~Hands(ks[t], b.attempt)
      /\ ~ReadsOf(NoTask, r) /\ NoTask.request # "login"
      /\ NoTask.revision <= r.revision
  <2>1. r.revision \in Nat
    BY DEF At, StepType, RevisionsType
  <2>2. QED
    BY <2>1, Names DEF Changer, Hands, ReadsOf, None
<1>4. Good(e.account, e.revisions, e.saved, [ks EXCEPT ![t] = e.task], given, attempts)
  <2>1. CASE ReadsOf(ks[t], r) /\ Backed(y.account, y.saved, ks, given)
    BY <1>2, <1>3, <2>1, Names, GoodRead
  <2>2. CASE y.saved = v /\ y.account.connection = a.connection
    <3>1. /\ Plain(e.task) /\ e.task.revision <= e.revisions.revision
          /\ ~ReadsOf(e.task, e.revisions) /\ e.task.request # "login"
          /\ r.revision = e.revisions.revision /\ e.account.connection = a.connection /\ e.saved = v
          /\ e.account.attempt = a.attempt /\ e.account.pending = a.pending
          /\ e.revisions.login = r.login /\ e.revisions.settled = r.settled
      BY <1>2, <1>3, <2>2, Names
    <3>2. QED
      BY <1>2, <1>3, <3>1, GoodSame
  <2>3. QED
    BY <2>1, <2>2
<1>5. Plain(y.task) /\ s.revisions = r
  BY DEF At
<1>6. TaskEnded(y, t, ks, given, attempts)
  BY <1>2, <1>4, <1>5 DEF TaskEnded
<1>7. Onward(x, y, t, ks, given, attempts) /\ Quiets(y, x)
  BY <1>6, ReturnedGood
<1>8. QED
  BY <1>5, <1>7 DEF Onward, Quiets

LEMMA AfterProfilesGood ==
  ASSUME NEW a, NEW r, NEW v, NEW ks, NEW given, NEW attempts, Good(a, r, v, ks, given, attempts),
         NEW t \in Tasks, NEW s, At(s, a, r, v, ks, t), ks \in [Tasks -> TaskType],
         s.task.request = "profiles", NEW x, x = AfterProfiles(s)
  PROVE  /\ Onward(x, s, t, ks, given, attempts)
         /\ a.connection = NoConnection => x.account.connection = NoConnection
<1>0. s \in StepType /\ s.account = a /\ s.revisions = r /\ s.saved = v /\ s.task = ks[t]
  BY DEF At
<1>1. CASE Stale(s)
  <2>1. x = Returned(s)
    BY <1>1 DEF AfterProfiles
  <2>2. QED
    BY <1>0, <2>1, ThenReturned
<1>2. CASE ~Stale(s)
  <2>1. ReadsOf(ks[t], r)
    BY <1>0, <1>2 DEF Stale, ReadsOf
  <2>2. a.connection = NoConnection
    BY <1>0, <2>1 DEF Good, Conn
  <2>3. CASE s.task.answer = "failed"
    <3>1. PICK c : c = [s.account EXCEPT !.loading = FALSE, !.profile = None, !.error = TRUE]
      OBVIOUS
    <3>2. /\ c \in AccountType /\ c.connection = NoConnection
          /\ c.attempt = a.attempt /\ c.pending = a.pending
      BY <1>0, <2>2, <3>1 DEF StepType, AccountType, Maybe
    <3>3. PICK y : y = [s EXCEPT !.account = c]
      OBVIOUS
    <3>4. /\ y \in StepType /\ y.saved = s.saved /\ y.revisions = s.revisions
          /\ y.task = s.task /\ y.account = c
      BY <1>0, <3>2, <3>3, AccountIs
    <3>5. x = Returned(y)
      BY <1>2, <2>3, <3>1, <3>3 DEF AfterProfiles
    <3>6. Backed(y.account, y.saved, ks, given)
      BY <3>2, <3>4 DEF Backed
    <3>7. QED
      BY <1>0, <2>1, <3>2, <3>4, <3>5, <3>6, ThenReturned
  <2>4. CASE s.task.answer # "failed"
    <3>1. PICK active : active = ActiveProfile(s.saved, s.task.profiles)
      OBVIOUS
    <3>2. s.saved \in SavedType /\ s.task.profiles \in Credentials
      BY <1>0 DEF StepType, TaskType
    <3>3. active \in Maybe /\ (active # None => active \in Profiles /\ s.saved \in {"unset", active})
      <4>1. active # None => active \in Profiles /\ s.saved \in {"unset", active}
        BY <3>1, <3>2, ActiveIs
      <4>2. QED
        BY <4>1 DEF Maybe
    <3>4. PICK kept : kept = IF s.saved = "unset" THEN active ELSE s.saved
      OBVIOUS
    <3>5. kept \in SavedType /\ (active # None => kept = active)
      BY <3>2, <3>3, <3>4 DEF SavedType
    <3>6. PICK c : c = [s.account EXCEPT !.profiles = s.task.profiles, !.profile = active]
      OBVIOUS
    <3>7. /\ c \in AccountType /\ c.connection = NoConnection
          /\ c.attempt = a.attempt /\ c.pending = a.pending
      BY <1>0, <2>2, <3>2, <3>3, <3>6 DEF StepType, AccountType
    <3>8. PICK read : read = [s EXCEPT !.saved = IF @ = "unset" THEN active ELSE @,
                                       !.account = [@ EXCEPT !.profiles = s.task.profiles, !.profile = active]]
      OBVIOUS
    <3>9. read = [account |-> c, revisions |-> r, saved |-> kept, task |-> s.task]
      BY <1>0, <3>4, <3>6, <3>8 DEF StepType
    <3>10. read \in StepType
      BY <1>0, <3>5, <3>7, <3>9 DEF StepType
    <3>11. CASE active = None
      <4>1. PICK d : d = [c EXCEPT !.loading = FALSE]
        OBVIOUS
      <4>2. /\ d \in AccountType /\ d.connection = NoConnection
            /\ d.attempt = a.attempt /\ d.pending = a.pending
        BY <3>7, <4>1 DEF AccountType
      <4>3. PICK y : y = [read EXCEPT !.account = d]
        OBVIOUS
      <4>4. /\ y \in StepType /\ y.saved = kept /\ y.revisions = r
            /\ y.task = s.task /\ y.account = d
        BY <3>9, <3>10, <4>2, <4>3, AccountIs
      <4>5. y = [read EXCEPT !.account.loading = FALSE]
        BY <3>9, <4>1, <4>3
      <4>6. x = Returned(y)
        BY <1>2, <2>4, <3>1, <3>8, <3>11, <4>5 DEF AfterProfiles
      <4>7. Backed(y.account, y.saved, ks, given)
        BY <4>2, <4>4 DEF Backed
      <4>8. QED
        BY <1>0, <2>1, <4>2, <4>4, <4>6, <4>7, ThenReturned
    <3>12. CASE active # None
      <4>1. PICK k : k = [read.task EXCEPT !.version = s.task.profiles[active].version]
        OBVIOUS
      <4>2. k \in TaskType /\ k.then = s.task.then /\ k.target = s.task.target
        <5>1. s.task.profiles[active].version \in Nat
          BY <3>2, <3>3, <3>12 DEF Credentials, Credential
        <5>2. QED
          BY <1>0, <3>9, <4>1, <5>1 DEF StepType, TaskType
      <4>3. PICK y : y = [read EXCEPT !.task = k]
        OBVIOUS
      <4>4. y = [account |-> c, revisions |-> r, saved |-> kept, task |-> k]
        BY <3>9, <4>3
      <4>5. y \in StepType
        BY <1>0, <3>5, <3>7, <4>2, <4>4 DEF StepType
      <4>6. y = [read EXCEPT !.task.version = s.task.profiles[active].version]
        BY <3>9, <4>1, <4>3
      <4>7. x = Ask(y, "models", active)
        BY <1>2, <2>4, <3>1, <3>8, <3>12, <4>6 DEF AfterProfiles
      <4>8. "models" \in TaskRequests
        BY DEF TaskRequests
      <4>9. /\ x \in StepType /\ x.saved = y.saved /\ x.account = y.account /\ x.revisions = y.revisions
            /\ x.task.request = "models" /\ x.task.profile = active /\ x.task.answer = None
            /\ x.task.revision = y.revisions.revision /\ x.task.then = y.task.then
            /\ x.task.target = y.task.target
        BY <3>3, <4>5, <4>7, <4>8, AskIs
      <4>10. Plain(x.task)
        BY <1>0, <3>3, <3>12, <4>2, <4>4, <4>9 DEF Plain, At, None
      <4>11. Backed(x.account, x.saved, ks, given)
        BY <3>7, <4>4, <4>9 DEF Backed
      <4>12. x.task.revision <= x.revisions.revision
        <5>1. r.revision \in Nat
          BY <1>0 DEF StepType, RevisionsType
        <5>2. QED
          BY <4>4, <4>9, <5>1
      <4>13. Good(x.account, x.revisions, x.saved, [ks EXCEPT ![t] = x.task], given, attempts)
        <5>1. /\ x.revisions = r /\ x.task.request # "login"
              /\ x.account.attempt = a.attempt /\ x.account.pending = a.pending
              /\ x.account.connection = NoConnection /\ x.saved = x.task.profile
          BY <3>5, <3>7, <3>12, <4>4, <4>9
        <5>2. QED
          BY <2>1, <4>9, <4>10, <4>11, <4>12, <5>1, GoodRead
      <4>14. QED
        BY <1>0, <3>7, <4>4, <4>9, <4>12, <4>13 DEF Onward
    <3>13. QED
      BY <3>11, <3>12
  <2>5. QED
    BY <2>3, <2>4
<1>3. QED
  BY <1>1, <1>2

LEMMA PublishBacked ==
  ASSUME NEW a, NEW r, NEW v, NEW ks, NEW given, Conn(a, r, v, ks, given),
         NEW t \in Tasks, NEW s, At(s, a, r, v, ks, t), s.task.request \in {"models", "connect"},
         ~Stale(s), Current(s), NEW y, y = Publish(s), NEW kept,
         kept = s.task.profile
  PROVE  /\ y \in StepType /\ y.saved = s.saved /\ y.revisions = s.revisions /\ y.task = s.task
         /\ y.account.attempt = a.attempt /\ y.account.pending = a.pending
         /\ Backed(y.account, kept, ks, given)
<1>1. s \in StepType /\ s.task.profile \in Profiles /\ s.account = a /\ s.task = ks[t]
  BY DEF At, Plain
<1>2. /\ y \in StepType /\ y.saved = s.saved /\ y.revisions = s.revisions /\ y.task = s.task
      /\ y.account.attempt = s.account.attempt /\ y.account.pending = s.account.pending
      /\ y.account.connection # NoConnection =>
           y.account.connection = [profile |-> s.task.profile, version |-> s.task.version]
  BY <1>1, PublishIs
<1>3. ReadsOf(ks[t], r)
  BY <1>1 DEF Stale, ReadsOf, At
<1>4. s.task.answer \in {"models", "no models"} /\ s.task.found = s.task.version
  BY DEF Current
<1>5. Holds(s.task.profile, s.task.version, ks, given)
  BY <1>1, <1>3, <1>4 DEF Conn
<1>6. Backed(y.account, kept, ks, given)
  BY <1>1, <1>2, <1>5 DEF Backed
<1>7. QED
  BY <1>1, <1>2, <1>6

LEMMA AfterModelsGood ==
  ASSUME NEW a, NEW r, NEW v, NEW ks, NEW given, NEW attempts, Good(a, r, v, ks, given, attempts),
         NEW t \in Tasks, NEW s, At(s, a, r, v, ks, t), ks \in [Tasks -> TaskType],
         s.task.request = "models", NEW x, x = AfterModels(s)
  PROVE  /\ Onward(x, s, t, ks, given, attempts)
         /\ a.connection = NoConnection /\ s.task.answer = "failed" => x.account.connection = NoConnection
<1>0. s \in StepType /\ s.account = a /\ s.revisions = r /\ s.saved = v /\ s.task = ks[t]
  BY DEF At
<1>1. CASE Stale(s)
  <2>1. x = Returned(s)
    BY <1>1 DEF AfterModels
  <2>2. QED
    BY <1>0, <2>1, ThenReturned
<1>2. CASE ~Stale(s) /\ Current(s)
  <2>1. ReadsOf(ks[t], r) /\ Conn(a, r, v, ks, given)
    BY <1>0, <1>2 DEF Stale, ReadsOf, Good
  <2>2. v = s.task.profile
    <3>1. ks[t].request = "models"
      BY <1>0
    <3>2. v = ks[t].profile
      BY <2>1, <3>1 DEF Conn
    <3>3. QED
      BY <1>0, <3>2
  <2>3. PICK y : y = Publish(s)
    OBVIOUS
  <2>4. /\ y \in StepType /\ y.saved = s.saved /\ y.revisions = s.revisions /\ y.task = s.task
        /\ y.account.attempt = a.attempt /\ y.account.pending = a.pending
        /\ Backed(y.account, v, ks, given)
    BY <1>2, <2>1, <2>2, <2>3, PublishBacked
  <2>5. x = Returned(y)
    BY <1>2, <2>3 DEF AfterModels
  <2>6. s.task.answer # "failed"
    BY <1>2 DEF Current
  <2>7. QED
    BY <1>0, <2>1, <2>4, <2>5, <2>6, ThenReturned
<1>3. CASE ~Stale(s) /\ ~Current(s)
  <2>1. PICK d : d = [s.account EXCEPT !.loading = FALSE]
    OBVIOUS
  <2>2. /\ d \in AccountType /\ d.connection = a.connection
        /\ d.attempt = a.attempt /\ d.pending = a.pending
    BY <1>0, <2>1 DEF StepType, AccountType
  <2>3. PICK y : y = [s EXCEPT !.account = d]
    OBVIOUS
  <2>4. /\ y \in StepType /\ y.saved = v /\ y.revisions = r
        /\ y.task = s.task /\ y.account = d
    BY <1>0, <2>2, <2>3, AccountIs
  <2>5. y = [s EXCEPT !.account.loading = FALSE]
    BY <1>0, <2>1, <2>3 DEF StepType
  <2>6. x = Returned(y)
    BY <1>3, <2>5 DEF AfterModels
  <2>7. QED
    BY <1>0, <2>2, <2>4, <2>6, ThenReturned
<1>4. QED
  BY <1>1, <1>2, <1>3

LEMMA EndGood ==
  ASSUME NEW a, NEW r, NEW v, NEW ks, NEW given, NEW attempts, Good(a, r, v, ks, given, attempts),
         NEW t \in Tasks, NEW s, At(s, a, r, v, ks, t), ks \in [Tasks -> TaskType],
         ~Changer(ks[t]), \A b \in attempts : ~Hands(ks[t], b.attempt), NEW x, x = End(s)
  PROVE  Onward(x, s, t, ks, given, attempts) /\ x.account = a
<1>0. s \in StepType /\ s.account = a /\ s.revisions = r /\ s.saved = v /\ r.revision \in Nat
  BY DEF At, StepType, RevisionsType
<1>1. /\ x \in StepType /\ x.saved = v /\ x.account = a /\ x.revisions = r /\ x.task = NoTask
  BY <1>0, EndIs
<1>2. /\ Plain(x.task) /\ x.task.revision <= x.revisions.revision
      /\ ~ReadsOf(x.task, x.revisions) /\ x.task.request # "login" /\ x.task.answer = None
  BY <1>0, <1>1, Names DEF ReadsOf, None
<1>3. Good(x.account, x.revisions, x.saved, [ks EXCEPT ![t] = x.task], given, attempts)
  BY <1>1, <1>2, GoodSame
<1>4. QED
  BY <1>0, <1>1, <1>2, <1>3 DEF Onward

LEMMA RefreshGood ==
  ASSUME NEW a, NEW r, NEW v, NEW ks, NEW given, NEW attempts, Good(a, r, v, ks, given, attempts),
         NEW t \in Tasks, NEW s, At(s, a, r, v, ks, t), ks \in [Tasks -> TaskType],
         NEW y \in StepType, y.revisions = r, y.account.attempt = a.attempt, y.account.pending = a.pending,
         \A b \in attempts : ~Hands(ks[t], b.attempt),
         NEW then \in {"end", "saved"}, then = "saved" => y.task.target \in Profiles,
         NEW x, x = Refresh(y, then)
  PROVE  Onward(x, s, t, ks, given, attempts) /\ x.account.connection = NoConnection
<1>0. r.revision \in Nat /\ s.revisions = r /\ then \in Followed
  BY DEF StepType, RevisionsType, At, Followed
<1>1. /\ x \in StepType /\ x.saved = y.saved
      /\ x.account.connection = NoConnection
      /\ x.account.attempt = a.attempt /\ x.account.pending = a.pending
      /\ x.revisions.revision = r.revision + 1
      /\ x.revisions.login = r.login /\ x.revisions.settled = r.settled
      /\ x.task.request = "profiles" /\ x.task.answer = None /\ x.task.then = then
      /\ x.task.revision = x.revisions.revision /\ x.task.target = y.task.target
  BY <1>0, RefreshIs
<1>2. /\ Plain(x.task) /\ x.task.revision <= x.revisions.revision
      /\ r.revision < x.revisions.revision
  BY <1>0, <1>1 DEF Plain, None
<1>3. Good(x.account, x.revisions, x.saved, [ks EXCEPT ![t] = x.task], given, attempts)
  BY <1>1, <1>2, GoodNewer
<1>4. QED
  BY <1>0, <1>1, <1>2, <1>3 DEF Onward

LEMMA AfterConnectGood ==
  ASSUME NEW a, NEW r, NEW v, NEW ks, NEW given, NEW attempts, Good(a, r, v, ks, given, attempts),
         NEW t \in Tasks, NEW s, At(s, a, r, v, ks, t), ks \in [Tasks -> TaskType],
         s.task.request = "connect", NEW x, x = AfterConnect(s)
  PROVE  /\ Onward(x, s, t, ks, given, attempts)
         /\ a.connection = NoConnection /\ s.task.answer = "failed" => x.account.connection = NoConnection
<1>0. /\ s \in StepType /\ s.account = a /\ s.revisions = r /\ s.saved = v /\ s.task = ks[t]
      /\ r.revision \in Nat
  BY DEF At, StepType, RevisionsType
<1>d. ~Changer(ks[t]) /\ \A b \in attempts : ~Hands(ks[t], b.attempt)
  BY <1>0 DEF Changer, Hands
<1>1. CASE Stale(s)
  <2>1. x = End(s)
    BY <1>1 DEF AfterConnect
  <2>2. QED
    BY <1>0, <1>d, <2>1, EndGood
<1>2. CASE ~Stale(s)
  <2>1. ReadsOf(ks[t], r) /\ Conn(a, r, v, ks, given)
    BY <1>0, <1>2 DEF Stale, ReadsOf, Good
  <2>2. s.task.target \in Profiles /\ s.task.profile = s.task.target
    BY DEF At, Plain
  <2>3. ASSUME NEW y \in StepType, y.revisions = r, y.account.attempt = a.attempt, y.account.pending = a.pending,
               Backed(y.account, y.saved, ks, given), x = End(y),
               y.account.connection = NoConnection \/ s.task.answer # "failed"
        PROVE  /\ Onward(x, s, t, ks, given, attempts)
               /\ a.connection = NoConnection /\ s.task.answer = "failed" => x.account.connection = NoConnection
    <3>1. /\ x \in StepType /\ x.saved = y.saved /\ x.account = y.account /\ x.revisions = r /\ x.task = NoTask
      BY <2>3, EndIs
    <3>2. /\ Plain(x.task) /\ x.task.revision <= x.revisions.revision
          /\ ~ReadsOf(x.task, x.revisions) /\ x.task.request # "login" /\ x.task.answer = None
      BY <1>0, <3>1, Names DEF ReadsOf, None
    <3>3. Good(x.account, x.revisions, x.saved, [ks EXCEPT ![t] = x.task], given, attempts)
      BY <2>1, <2>3, <3>1, <3>2, GoodRead
    <3>4. QED
      BY <1>0, <2>3, <3>1, <3>2, <3>3 DEF Onward
  <2>4. CASE Current(s) /\ s.task.answer = "models"
    <3>1. PICK z : z = Publish(s)
      OBVIOUS
    <3>2. /\ z \in StepType /\ z.saved = s.saved /\ z.revisions = s.revisions /\ z.task = s.task
          /\ z.account.attempt = a.attempt /\ z.account.pending = a.pending
          /\ Backed(z.account, s.task.target, ks, given)
      BY <1>2, <2>1, <2>2, <2>4, <3>1, PublishBacked
    <3>3. PICK y : y = [z EXCEPT !.saved = s.task.target]
      OBVIOUS
    <3>4. /\ y \in StepType /\ y.saved = s.task.target /\ y.revisions = r
          /\ y.account = z.account
      BY <1>0, <2>2, <3>2, <3>3 DEF StepType, SavedType, Maybe
    <3>5. x = End(y)
      BY <1>2, <2>4, <3>1, <3>3 DEF AfterConnect
    <3>6. QED
      BY <2>3, <2>4, <3>2, <3>4, <3>5
  <2>5. CASE ~(Current(s) /\ s.task.answer = "models")
    <3>1. PICK d : d = [s.account EXCEPT !.loading = FALSE, !.profile = None,
                                         !.connection = NoConnection, !.error = TRUE]
      OBVIOUS
    <3>2. /\ d \in AccountType /\ d.connection = NoConnection
          /\ d.attempt = a.attempt /\ d.pending = a.pending
      <4>1. None \in Maybe
        BY DEF Maybe
      <4>2. QED
        BY <1>0, <3>1, <4>1, Names DEF StepType, AccountType
    <3>3. PICK y : y = [s EXCEPT !.account = d]
      OBVIOUS
    <3>4. /\ y \in StepType /\ y.saved = v /\ y.revisions = r /\ y.account = d
      BY <1>0, <3>2, <3>3, AccountIs
    <3>5. x = End(y)
      BY <1>2, <2>5, <3>1, <3>3 DEF AfterConnect
    <3>6. Backed(y.account, y.saved, ks, given)
      BY <3>2, <3>4 DEF Backed
    <3>7. QED
      BY <2>3, <3>2, <3>4, <3>5, <3>6
  <2>6. QED
    BY <2>4, <2>5
<1>3. QED
  BY <1>1, <1>2

\* The log of the logins when task t ends or hands its attempt over.
LEMMA LogHanded ==
  ASSUME NEW a, NEW r, NEW ks, NEW attempts, Log(a, r, ks, attempts), ks \in [Tasks -> TaskType],
         NEW t \in Tasks, NEW s \in StepType, s.task.request # "login", s.revisions.login = r.login,
         s.revisions.settled = r.settled, s.account.attempt \in Nat,
         \A b \in attempts : Owner(b, a, ks) => Owner(b, s.account, [ks EXCEPT ![t] = s.task]),
         \/ Mine(ks[t], r)
         \/ s.account.attempt = a.attempt /\ s.account.pending = a.pending
  PROVE  Log(s.account, s.revisions, [ks EXCEPT ![t] = s.task], attempts)
<1>. DEFINE ls == [ks EXCEPT ![t] = s.task]
<1>1. ls[t] = s.task /\ \A u \in Tasks : u # t => ls[u] = ks[u]
  OBVIOUS
<1>2. \A b \in attempts : Owner(b, s.account, ls) /\ b.attempt \notin s.revisions.settled /\ b.attempt > 0
  BY DEF Log
<1>3. \A u \in Tasks : ls[u].request = "login" => ls[u].login <= s.revisions.login
  BY <1>1 DEF Log
<1>4. \A u \in Tasks : Mine(ls[u], s.revisions) => u # t /\ ls[u] = ks[u] /\ Mine(ks[u], r)
  BY <1>1 DEF Mine
<1>. HIDE DEF ls
<1>5. ASSUME NEW u \in Tasks, Mine(ls[u], s.revisions)
      PROVE  /\ s.account.pending /\ s.account.attempt = 0
             /\ \A w \in Tasks : Mine(ls[w], s.revisions) => w = u
  <2>1. u # t /\ Mine(ks[u], r)
    BY <1>4, <1>5
  <2>2. ~Mine(ks[t], r)
    BY <2>1 DEF Log
  <2>3. a.pending /\ a.attempt = 0 /\ \A w \in Tasks : Mine(ks[w], r) => w = u
    BY <2>1 DEF Log
  <2>4. QED
    BY <1>4, <2>2, <2>3
<1>6. Log(s.account, s.revisions, ls, attempts)
  BY <1>2, <1>3, <1>5 DEF Log
<1>7. QED
  BY <1>6 DEF ls

LEMMA AfterLoginGood ==
  ASSUME NEW a, NEW r, NEW v, NEW ks, NEW given, NEW attempts, Good(a, r, v, ks, given, attempts),
         NEW t \in Tasks, NEW s, At(s, a, r, v, ks, t), ks \in [Tasks -> TaskType],
         s.task.request = "login", NEW x, x = AfterLogin(s)
  PROVE  /\ Onward(x, s, t, ks, given, attempts)
         /\ a.connection = NoConnection => x.account.connection = NoConnection
<1>0. /\ s \in StepType /\ s.account = a /\ s.revisions = r /\ s.saved = v /\ s.task = ks[t]
      /\ r.revision \in Nat /\ a \in AccountType /\ r \in RevisionsType /\ s.task \in TaskType
      /\ Log(a, r, ks, attempts) /\ Conn(a, r, v, ks, given) /\ ClientType(a, r, v, ks)
  BY DEF At, StepType, RevisionsType, Good
<1>1. ~Changer(ks[t])
  BY <1>0 DEF Changer
\* One of the ways on keeps what the other parts need.
<1>2. ASSUME NEW y \in StepType, y.account.connection = a.connection, y.revisions.revision = r.revision,
             y.saved = v, Plain(y.task), y.task.revision <= r.revision, y.task.request \in {None, "cancel"},
             y.task.answer = None, y.revisions.settled = r.settled,
             Log(y.account, y.revisions, [ks EXCEPT ![t] = y.task], attempts), x = y
      PROVE  /\ Onward(x, s, t, ks, given, attempts)
             /\ a.connection = NoConnection => x.account.connection = NoConnection
  <2>1. ~ReadsOf(y.task, y.revisions)
    BY <1>2 DEF ReadsOf, None
  <2>2. Conn(y.account, y.revisions, y.saved, [ks EXCEPT ![t] = y.task], given)
    BY <1>0, <1>1, <1>2, <2>1, ConnSame
  <2>3. r.revision <= y.revisions.revision
    BY <1>0, <1>2
  <2>4. ClientType(y.account, y.revisions, y.saved, [ks EXCEPT ![t] = y.task])
    BY <1>0, <1>2, <2>3, ClientKept
  <2>5. QED
    BY <1>0, <1>2, <2>2, <2>3, <2>4 DEF Onward, Good
<1>3. Mine(ks[t], r) => a.pending /\ a.attempt = 0
  BY <1>0 DEF Log
<1>4. \A b \in attempts : b.attempt > 0 /\ b.attempt \notin r.settled
  BY <1>0 DEF Log
<1>5. CASE s.task.answer = "failed" /\ s.task.login # r.login
  <2>1. x = End(s)
    BY <1>0, <1>5 DEF AfterLogin
  <2>2. \A b \in attempts : ~Hands(ks[t], b.attempt)
    BY <1>0, <1>5 DEF Hands
  <2>3. QED
    BY <1>0, <1>1, <2>1, <2>2, EndGood
<1>6. CASE s.task.login = r.login
  <2>1. Mine(ks[t], r) /\ a.pending /\ a.attempt = 0
    BY <1>0, <1>3, <1>6 DEF Mine
  <2>2. CASE s.task.answer = "failed"
    <3>1. PICK d : d = [s.account EXCEPT !.pending = FALSE, !.attempt = 0]
      OBVIOUS
    <3>2. d \in AccountType /\ d.connection = a.connection /\ d.attempt = 0 /\ d.pending = FALSE
      BY <1>0, <3>1 DEF AccountType
    <3>3. PICK q : q = [s.revisions EXCEPT !.loginProfile = None]
      OBVIOUS
    <3>4. q \in RevisionsType /\ q.revision = r.revision /\ q.login = r.login /\ q.settled = r.settled
      BY <1>0, <3>3 DEF RevisionsType, Maybe
    <3>5. x = [account |-> d, revisions |-> q, saved |-> v, task |-> NoTask]
      BY <1>0, <1>6, <2>2, <3>1, <3>3 DEF AfterLogin, End, StepType
    <3>6. x \in StepType
      BY <1>0, <3>2, <3>4, <3>5, Names DEF StepType
    <3>7. ASSUME NEW b \in attempts, Owner(b, a, ks)
          PROVE  Owner(b, x.account, [ks EXCEPT ![t] = x.task])
      <4>1. ~(b.attempt = a.attempt /\ a.pending)
        BY <1>4, <2>1
      <4>2. PICK u \in Tasks : Hands(ks[u], b.attempt)
        BY <3>7, <4>1 DEF Owner
      <4>3. u # t
        BY <1>0, <2>2, <4>2 DEF Hands
      <4>4. QED
        BY <4>2, <4>3 DEF Owner
    <3>8. Log(x.account, x.revisions, [ks EXCEPT ![t] = x.task], attempts)
      <4>1. x.task.request # "login" /\ x.revisions.login = r.login /\ x.revisions.settled = r.settled
            /\ x.account.attempt \in Nat
        BY <3>2, <3>4, <3>5, Names DEF None
      <4>2. QED
        BY <1>0, <2>1, <3>6, <3>7, <4>1, LogHanded
    <3>9. /\ x.account.connection = a.connection /\ x.revisions.revision = r.revision /\ x.saved = v
          /\ Plain(x.task) /\ x.task.revision <= r.revision /\ x.task.request = None /\ x.task.answer = None
          /\ x.revisions.settled = r.settled
      BY <1>0, <3>2, <3>4, <3>5, Names
    <3>10. QED
      BY <1>2, <3>6, <3>8, <3>9
  <2>3. CASE s.task.answer # "failed"
    <3>1. PICK d : d = [s.account EXCEPT !.attempt = s.task.found]
      OBVIOUS
    <3>2. d \in AccountType /\ d.connection = a.connection /\ d.attempt = s.task.found /\ d.pending
      BY <1>0, <2>1, <3>1 DEF AccountType, TaskType
    <3>3. x = [account |-> d, revisions |-> r, saved |-> v, task |-> NoTask]
      BY <1>0, <1>6, <2>3, <3>1 DEF AfterLogin, End, StepType
    <3>4. x \in StepType
      BY <1>0, <3>2, <3>3, Names DEF StepType
    <3>5. ASSUME NEW b \in attempts, Owner(b, a, ks)
          PROVE  Owner(b, x.account, [ks EXCEPT ![t] = x.task])
      <4>1. ~(b.attempt = a.attempt /\ a.pending)
        BY <1>4, <2>1
      <4>2. PICK u \in Tasks : Hands(ks[u], b.attempt)
        BY <3>5, <4>1 DEF Owner
      <4>3. CASE u # t
        BY <4>2, <4>3 DEF Owner
      <4>4. CASE u = t
        BY <1>0, <3>2, <3>3, <4>2, <4>4 DEF Owner, Hands
      <4>5. QED
        BY <4>3, <4>4
    <3>6. Log(x.account, x.revisions, [ks EXCEPT ![t] = x.task], attempts)
      <4>1. x.task.request # "login" /\ x.revisions.login = r.login /\ x.revisions.settled = r.settled
            /\ x.account.attempt \in Nat
        BY <1>0, <3>2, <3>3, Names DEF None, TaskType
      <4>2. QED
        BY <1>0, <2>1, <3>4, <3>5, <4>1, LogHanded
    <3>7. /\ x.account.connection = a.connection /\ x.revisions.revision = r.revision /\ x.saved = v
          /\ Plain(x.task) /\ x.task.revision <= r.revision /\ x.task.request = None /\ x.task.answer = None
          /\ x.revisions.settled = r.settled
      BY <1>0, <3>2, <3>3, Names
    <3>8. QED
      BY <1>2, <3>4, <3>6, <3>7
  <2>4. QED
    BY <2>2, <2>3
<1>7. CASE s.task.answer # "failed" /\ s.task.login # r.login
  <2>1. CASE s.task.found \in r.settled
    <3>1. x = End(s)
      BY <1>0, <1>7, <2>1 DEF AfterLogin
    <3>2. \A b \in attempts : ~Hands(ks[t], b.attempt)
      BY <1>0, <1>4, <2>1 DEF Hands
    <3>3. QED
      BY <1>0, <1>1, <3>1, <3>2, EndGood
  <2>2. CASE s.task.found \notin r.settled
    <3>1. x = Ask(s, "cancel", None)
      BY <1>0, <1>7, <2>2 DEF AfterLogin
    <3>2. /\ x \in StepType /\ x.saved = v /\ x.account = a /\ x.revisions = r
          /\ x.task.request = "cancel" /\ x.task.answer = None
          /\ x.task.revision = r.revision /\ x.task.then = s.task.then
          /\ x.task.target = s.task.target /\ x.task.found = s.task.found
      <4>1. "cancel" \in TaskRequests /\ None \in Maybe
        BY DEF TaskRequests, Maybe
      <4>2. QED
        BY <1>0, <3>1, <4>1, AskIs
    <3>3. Plain(x.task)
      BY <1>0, <3>2 DEF Plain, At, None
    <3>4. ASSUME NEW b \in attempts, Owner(b, a, ks)
          PROVE  Owner(b, x.account, [ks EXCEPT ![t] = x.task])
      <4>1. CASE b.attempt = a.attempt /\ a.pending
        BY <3>2, <4>1 DEF Owner
      <4>2. CASE ~(b.attempt = a.attempt /\ a.pending)
        <5>1. PICK u \in Tasks : Hands(ks[u], b.attempt)
          BY <3>4, <4>2 DEF Owner
        <5>2. CASE u # t
          BY <5>1, <5>2 DEF Owner
        <5>3. CASE u = t
          <6>1. Hands(x.task, b.attempt)
            BY <1>0, <3>2, <5>1, <5>3 DEF Hands
          <6>2. QED
            BY <6>1 DEF Owner
        <5>4. QED
          BY <5>2, <5>3
      <4>3. QED
        BY <4>1, <4>2
    <3>5. Log(x.account, x.revisions, [ks EXCEPT ![t] = x.task], attempts)
      <4>1. x.task.request # "login" /\ x.revisions.login = r.login /\ x.revisions.settled = r.settled
            /\ x.account.attempt \in Nat
        BY <1>0, <3>2 DEF AccountType
      <4>2. QED
        BY <1>0, <3>2, <3>4, <4>1, LogHanded
    <3>6. x.task.revision <= r.revision
      BY <1>0, <3>2
    <3>7. QED
      BY <1>0, <1>2, <3>2, <3>3, <3>5, <3>6
  <2>3. QED
    BY <2>1, <2>2
<1>8. QED
  BY <1>5, <1>6, <1>7

LEMMA AfterLogoutGood ==
  ASSUME NEW a, NEW r, NEW v, NEW ks, NEW given, NEW attempts, Good(a, r, v, ks, given, attempts),
         NEW t \in Tasks, NEW s, At(s, a, r, v, ks, t), ks \in [Tasks -> TaskType],
         s.task.request = "logout", NEW x, x = AfterLogout(s)
  PROVE  /\ Onward(x, s, t, ks, given, attempts)
         /\ a.connection = NoConnection => x.account.connection = NoConnection
<1>0. s \in StepType /\ s.account = a /\ s.revisions = r /\ s.saved = v /\ s.task = ks[t]
  BY DEF At
<1>1. \A b \in attempts : ~Hands(ks[t], b.attempt)
  BY <1>0 DEF Hands
<1>2. CASE s.task.answer = "failed"
  <2>1. x = End(s) /\ ~Changer(ks[t])
    BY <1>0, <1>2 DEF AfterLogout, Changer
  <2>2. QED
    BY <1>1, <2>1, EndGood
<1>3. CASE s.task.answer # "failed"
  <2>1. PICK d : d = [s.account EXCEPT !.profile = None]
    OBVIOUS
  <2>2. d \in AccountType /\ d.attempt = a.attempt /\ d.pending = a.pending
    BY <1>0, <2>1 DEF StepType, AccountType, Maybe
  <2>3. PICK y : y = [account |-> d, revisions |-> r, saved |-> None, task |-> s.task]
    OBVIOUS
  <2>4. y \in StepType
    BY <1>0, <2>2, <2>3 DEF StepType, SavedType, Maybe
  <2>5. y = [s EXCEPT !.saved = None, !.account.profile = None]
    <3>1. PICK z : z = [s EXCEPT !.saved = None]
      OBVIOUS
    <3>2. z = [account |-> s.account, revisions |-> s.revisions, saved |-> None, task |-> s.task]
      BY <1>0, <3>1 DEF StepType
    <3>3. [z EXCEPT !.account.profile = None] = [account |-> d, revisions |-> r, saved |-> None, task |-> s.task]
      BY <1>0, <2>1, <3>2
    <3>4. QED
      BY <2>3, <3>1, <3>3
  <2>6. x = Refresh(y, "end")
    BY <1>3, <2>5 DEF AfterLogout
  <2>7. QED
    BY <1>1, <2>2, <2>3, <2>4, <2>6, RefreshGood
<1>4. QED
  BY <1>2, <1>3

\* A failure publishes nothing.
Cools(x, a, k) == a.connection = NoConnection /\ k.answer = "failed" => x.account.connection = NoConnection

LEMMA ContinueGood ==
  ASSUME NEW a, NEW r, NEW v, NEW ks, NEW given, NEW attempts, Good(a, r, v, ks, given, attempts),
         NEW t \in Tasks, NEW s, s = [account |-> a, revisions |-> r, saved |-> v, task |-> ks[t]],
         ks[t].request # None, ks[t].answer # None, NEW x, x = Continue(s)
  PROVE  Onward(x, s, t, ks, given, attempts) /\ Cools(x, a, ks[t])
<1>1. At(s, a, r, v, ks, t) /\ ks \in [Tasks -> TaskType] /\ s.task = ks[t] /\ ks[t].request \in TaskRequests
  BY AtGood DEF TaskType
<1>2. s \in StepType /\ s.account = a /\ s.revisions = r
  BY <1>1 DEF At
<1>3. CASE ks[t].request = "profiles"
  BY <1>1, <1>3, AfterProfilesGood DEF Continue, Cools
<1>4. CASE ks[t].request = "models"
  BY <1>1, <1>4, AfterModelsGood DEF Continue, Cools
<1>5. CASE ks[t].request = "connect"
  BY <1>1, <1>5, AfterConnectGood DEF Continue, Cools
<1>6. CASE ks[t].request = "login"
  BY <1>1, <1>6, AfterLoginGood DEF Continue, Cools
<1>7. CASE ks[t].request = "logout"
  BY <1>1, <1>7, AfterLogoutGood DEF Continue, Cools
<1>8. CASE ks[t].request = "cancel"
  <2>1. x = End(s) /\ ~Changer(ks[t]) /\ \A b \in attempts : ~Hands(ks[t], b.attempt)
    BY <1>1, <1>8 DEF Continue, Changer, Hands
  <2>2. QED
    BY <1>1, <2>1, EndGood DEF Cools
<1>9. CASE ks[t].request \in {"save", "forget"}
  <2>1. \A b \in attempts : ~Hands(ks[t], b.attempt)
    BY <1>9 DEF Hands
  <2>2. CASE ks[t].answer = "failed"
    <3>1. x = End(s) /\ ~Changer(ks[t])
      BY <1>1, <1>9, <2>2 DEF Continue, Changer
    <3>2. QED
      BY <1>1, <2>1, <3>1, EndGood DEF Cools
  <2>3. CASE ks[t].answer # "failed"
    <3>1. PICK then : then = IF ks[t].request = "save" THEN "saved" ELSE "end"
      OBVIOUS
    <3>2. then \in {"end", "saved"} /\ (then = "saved" => s.task.target \in Profiles)
      BY <1>1, <3>1 DEF At, Plain
    <3>3. x = Refresh(s, then)
      BY <1>1, <1>9, <2>3, <3>1 DEF Continue
    <3>4. QED
      BY <1>1, <1>2, <2>1, <3>2, <3>3, RefreshGood DEF Cools
  <2>4. QED
    BY <2>2, <2>3
<1>10. QED
  BY <1>1, <1>3, <1>4, <1>5, <1>6, <1>7, <1>8, <1>9 DEF TaskRequests

-----------------------------------------------------------------------------
(* An outage: every request is rejected, oldest first.                     *)

\* No answer is held that could be published: nothing was read since the outage.
Cold(c, given) ==
  /\ Good(c.account, c.revisions, c.saved, c.tasks, given, {})
  /\ c.account.connection = NoConnection
  /\ \A t \in Tasks : ReadsOf(c.tasks[t], c.revisions) => c.tasks[t].answer = None

\* Answering a task of a cold client with a failure loses nothing.
LEMMA FailedGood ==
  ASSUME NEW c, NEW given, Cold(c, given), NEW t \in Tasks, c.tasks[t] # NoTask,
         NEW ls, ls = [c.tasks EXCEPT ![t] = [c.tasks[t] EXCEPT !.answer = "failed"]]
  PROVE  /\ Good(c.account, c.revisions, c.saved, ls, given, {})
         /\ ls[t].request # None /\ ls[t].answer = "failed" /\ ls[t].request = c.tasks[t].request
<1>. DEFINE ks == c.tasks  k == c.tasks[t]  f == [k EXCEPT !.answer = "failed"]
<1>1. ks \in [Tasks -> TaskType] /\ k \in TaskType
  BY DEF Cold, Good, ClientType
<1>2. /\ f \in TaskType /\ f.answer = "failed" /\ f.request = k.request /\ f.target = k.target
      /\ f.profile = k.profile /\ f.then = k.then /\ f.revision = k.revision /\ f.login = k.login
      /\ f.found = k.found
  BY <1>1 DEF TaskType, AnswerKinds
<1>3. Plain(k) /\ k.revision <= c.revisions.revision /\ k.request # None
  BY DEF Cold, Good, ClientType, Plain
<1>. HIDE DEF f
<1>4. ls = [ks EXCEPT ![t] = f]
  BY DEF f
<1>5. ls[t] = f /\ (\A u \in Tasks : u # t => ls[u] = ks[u]) /\ ls \in [Tasks -> TaskType]
  BY <1>1, <1>2, <1>4
<1>6. ClientType(c.account, c.revisions, c.saved, ls)
  <2>1. Plain(f)
    BY <1>2, <1>3 DEF Plain
  <2>2. \A u \in Tasks : Plain(ls[u]) /\ ls[u].revision <= c.revisions.revision
    BY <1>2, <1>3, <1>5, <2>1 DEF Cold, Good, ClientType
  <2>3. QED
    BY <1>5, <2>2 DEF Cold, Good, ClientType
<1>7. \A u \in Tasks : /\ ReadsOf(ls[u], c.revisions) => ReadsOf(ks[u], c.revisions)
                       /\ ls[u].request = ks[u].request /\ ls[u].profile = ks[u].profile
                       /\ Mine(ls[u], c.revisions) = Mine(ks[u], c.revisions)
                       /\ ls[u].login = ks[u].login
  BY <1>2, <1>5 DEF ReadsOf, Mine
<1>8. Conn(c.account, c.revisions, c.saved, ls, given)
  <2>1. Backed(c.account, c.saved, ls, given)
    BY DEF Backed, Cold
  <2>2. ASSUME NEW u \in Tasks, ReadsOf(ls[u], c.revisions)
        PROVE  /\ ls[u].request = "models" => c.saved = ls[u].profile
               /\ ls[u].answer \notin {"models", "no models"}
    <3>1. ReadsOf(ks[u], c.revisions) /\ ks[u].answer = None
      BY <1>7, <2>2 DEF Cold
    <3>2. ls[u].answer \in {None, "failed"}
      BY <1>2, <1>5, <3>1
    <3>3. ks[u].request = "models" => c.saved = ks[u].profile
      BY <3>1 DEF Cold, Good, Conn
    <3>4. QED
      BY <1>7, <3>2, <3>3 DEF None
  <2>3. \A u, w \in Tasks : ReadsOf(ls[u], c.revisions) /\ ReadsOf(ls[w], c.revisions) => w = u
    <3>1. \A u, w \in Tasks : ReadsOf(ks[u], c.revisions) /\ ReadsOf(ks[w], c.revisions) => w = u
      BY DEF Cold, Good, Conn
    <3>2. QED
      BY <1>7, <3>1
  <2>4. c.account.connection = NoConnection
    BY DEF Cold
  <2>5. QED
    BY <2>1, <2>2, <2>3, <2>4 DEF Conn
<1>9. Log(c.account, c.revisions, ls, {})
  <2>1. Log(c.account, c.revisions, ks, {})
    BY DEF Cold, Good
  <2>2. QED
    BY <1>7, <2>1 DEF Log
<1>10. QED
  BY <1>2, <1>3, <1>5, <1>6, <1>8, <1>9 DEF Good

\* Numbers have a least one.
LEMMA LeastNumber ==
  ASSUME NEW S \in SUBSET Nat, S # {}
  PROVE  \E x \in S : \A y \in S : x <= y
<1>1. PICK x \in S : \A y \in S : <<y, x>> \notin OpToRel(<, Nat)
  BY NatLessThanWellFounded, WFMin
<1>2. ASSUME NEW y \in S PROVE x <= y
  <2>1. <<y, x>> \in Nat \X Nat /\ <<y, x>>[1] = y /\ <<y, x>>[2] = x
    OBVIOUS
  <2>2. ~(y < x)
    BY <1>1, <2>1 DEF OpToRel
  <2>3. QED
    BY <2>2
<1>3. QED
  BY <1>2

LEMMA RejectedCold ==
  ASSUME NEW c, NEW given, Cold(c, given), NEW t \in Tasks, NEW y, y = RejectTask(c, t)
  PROVE  Cold(y, given) /\ y.revisions.settled = c.revisions.settled
<1>1. CASE c.tasks[t] = NoTask
  BY <1>1 DEF RejectTask
<1>2. CASE c.tasks[t] # NoTask
  <2>1. PICK ls : ls = [c.tasks EXCEPT ![t] = [c.tasks[t] EXCEPT !.answer = "failed"]]
    OBVIOUS
  <2>2. c.tasks \in [Tasks -> TaskType]
    BY DEF Cold, Good, ClientType
  <2>3. /\ Good(c.account, c.revisions, c.saved, ls, given, {})
        /\ ls[t].request # None /\ ls[t].answer = "failed"
        /\ ls[t] = [c.tasks[t] EXCEPT !.answer = "failed"]
    BY <1>2, <2>1, <2>2, FailedGood
  <2>4. PICK s : s = [account |-> c.account, revisions |-> c.revisions, saved |-> c.saved, task |-> ls[t]]
    OBVIOUS
  <2>5. PICK x : x = Continue(s)
    OBVIOUS
  <2>6. y = [account |-> x.account, revisions |-> x.revisions, saved |-> x.saved,
             tasks |-> [c.tasks EXCEPT ![t] = x.task]]
    BY <1>2, <2>3, <2>4, <2>5 DEF RejectTask
  <2>7. Onward(x, s, t, ls, given, {}) /\ x.account.connection = NoConnection
    <3>1. ls[t].answer # None /\ c.account.connection = NoConnection
      BY <2>3 DEF None, Cold
    <3>2. Onward(x, s, t, ls, given, {})
      BY <2>3, <2>4, <2>5, <3>1, ContinueGood
    <3>3. Cools(x, c.account, ls[t])
      BY <2>3, <2>4, <2>5, <3>1, ContinueGood
    <3>4. QED
      BY <2>3, <3>1, <3>2, <3>3 DEF Cools
  <2>8. [ls EXCEPT ![t] = x.task] = [c.tasks EXCEPT ![t] = x.task]
    BY <2>1, <2>2
  <2>9. Good(y.account, y.revisions, y.saved, y.tasks, given, {})
    BY <2>6, <2>7, <2>8 DEF Onward
  <2>10. ASSUME NEW u \in Tasks, ReadsOf(y.tasks[u], y.revisions)
         PROVE  y.tasks[u].answer = None
    <3>1. CASE u = t
      BY <2>2, <2>6, <2>7, <3>1 DEF Onward
    <3>2. CASE u # t
      <4>1. y.tasks[u] = c.tasks[u] /\ y.revisions = x.revisions
        BY <2>2, <2>6, <3>2
      <4>2. c.tasks[u].revision <= c.revisions.revision /\ c.revisions.revision <= x.revisions.revision
        BY <2>4, <2>7 DEF Cold, Good, ClientType, Onward
      <4>3. c.tasks[u].revision \in Nat /\ c.revisions.revision \in Nat /\ x.revisions.revision \in Nat
        BY <2>2, <2>7 DEF Cold, Good, ClientType, Onward, StepType, RevisionsType, TaskType
      <4>4. ReadsOf(c.tasks[u], c.revisions)
        BY <2>10, <4>1, <4>2, <4>3 DEF ReadsOf
      <4>5. QED
        BY <4>1, <4>4 DEF Cold
    <3>3. QED
      BY <3>1, <3>2
  <2>11. y.revisions.settled = c.revisions.settled
    BY <2>4, <2>6, <2>7 DEF Onward
  <2>12. QED
    BY <2>6, <2>7, <2>9, <2>10, <2>11 DEF Cold
<1>3. QED
  BY <1>1, <1>2

\* AllRejected is the last of the states between the rejections.
Rejects(z, t) == CHOOSE y \in {RejectTask(x, t) : x \in {z}} : TRUE
Between(f, c, n) == f = [t \in 0..n |-> IF t = 0 THEN c ELSE Rejects(f[t - 1], t)]

LEMMA OneOf == ASSUME NEW z PROVE (CHOOSE y \in {z} : TRUE) = z
  OBVIOUS

LEMMA BetweenExists ==
  ASSUME NEW c
  PROVE  \A n \in Nat : \E f : Between(f, c, n)
<1>. DEFINE missing == {n \in Nat : ~ \E f : Between(f, c, n)}
<1>1. SUFFICES ASSUME missing # {} PROVE FALSE
  OBVIOUS
<1>2. PICK n \in missing : \A m \in missing : n <= m
  <2>1. missing \in SUBSET Nat
    OBVIOUS
  <2>2. QED
    BY <1>1, <2>1, LeastNumber
<1>3. n \in Nat /\ ~ \E f : Between(f, c, n)
  BY <1>2
<1>4. CASE n = 0
  <2>1. PICK f : f = [t \in 0..0 |-> c]
    OBVIOUS
  <2>2. Between(f, c, n)
    <3>1. \A t \in 0..0 : t = 0
      OBVIOUS
    <3>2. QED
      BY <1>4, <2>1, <3>1 DEF Between
  <2>3. QED
    BY <1>3, <2>2
<1>5. CASE n # 0
  <2>1. n - 1 \in Nat /\ n - 1 \notin missing
    BY <1>2, <1>3, <1>5
  <2>2. PICK f : Between(f, c, n - 1)
    BY <2>1
  <2>3. PICK g : g = [t \in 0..n |-> IF t = 0 THEN c ELSE Rejects(f[t - 1], t)]
    OBVIOUS
  <2>4. \A t \in 0..(n - 1) : g[t] = f[t]
    BY <1>3, <2>1, <2>2, <2>3 DEF Between
  <2>5. \A t \in 0..n : t # 0 => t - 1 \in 0..(n - 1)
    BY <1>3
  <2>6. \A t \in 0..n : t # 0 => f[t - 1] = g[t - 1]
    BY <2>4, <2>5
  <2>7. Between(g, c, n)
    BY <2>3, <2>6 DEF Between
  <2>8. QED
    BY <1>3, <2>7
<1>6. QED
  BY <1>4, <1>5

LEMMA AllRejectedCold ==
  ASSUME NEW c, NEW given, Cold(c, given), NEW y, y = AllRejected(c)
  PROVE  Cold(y, given) /\ y.revisions.settled = c.revisions.settled
<1>. DEFINE N == MaxOps + 3
<1>0. N \in Nat /\ N = MaxOps + 3
  BY OpsAssumption
<1>1. PICK f : f = CHOOSE g : Between(g, c, N)
  OBVIOUS
<1>2. Between(f, c, N)
  BY <1>0, <1>1, BetweenExists
<1>3. y = f[N]
  BY <1>1 DEF AllRejected, Between, Rejects
<1>. HIDE DEF N
<1>4. f[0] = c
  BY <1>0, <1>2 DEF Between
<1>5. ASSUME NEW t \in 1..N
      PROVE  f[t] = RejectTask(f[t - 1], t)
  <2>1. t \in 0..N /\ t # 0
    BY <1>0
  <2>2. f[t] = Rejects(f[t - 1], t)
    BY <1>2, <2>1 DEF Between
  <2>3. {RejectTask(x, t) : x \in {f[t - 1]}} = {RejectTask(f[t - 1], t)}
    OBVIOUS
  <2>4. QED
    BY <2>2, <2>3, OneOf DEF Rejects
<1>. DEFINE warm == {t \in 0..N : ~(Cold(f[t], given) /\ f[t].revisions.settled = c.revisions.settled)}
<1>6. warm = {}
  <2>1. SUFFICES ASSUME warm # {} PROVE FALSE
    OBVIOUS
  <2>2. PICK t \in warm : \A u \in warm : t <= u
    <3>1. warm \in SUBSET Nat
      OBVIOUS
    <3>2. QED
      BY <2>1, <3>1, LeastNumber
  <2>3. t # 0
    BY <1>4, <2>2
  <2>4. t \in 1..N /\ t - 1 \in 0..N /\ t - 1 \notin warm
    BY <1>0, <2>2, <2>3
  <2>5. t \in Tasks
    BY <1>0, <2>4 DEF Tasks
  <2>6. Cold(f[t - 1], given) /\ f[t - 1].revisions.settled = c.revisions.settled
    BY <2>4
  <2>7. Cold(f[t], given) /\ f[t].revisions.settled = c.revisions.settled
    BY <1>5, <2>4, <2>5, <2>6, RejectedCold
  <2>8. QED
    BY <2>2, <2>7
<1>7. QED
  BY <1>0, <1>3, <1>6

-----------------------------------------------------------------------------
(* The steps.                                                              *)

\* A login is withdrawn while task t begins.
LEMMA LogWithdrawn ==
  ASSUME NEW a, NEW r, NEW ks, NEW attempts, Log(a, r, ks, attempts), ks \in [Tasks -> TaskType],
         r \in RevisionsType, NEW t \in Tasks, ks[t] = NoTask, NEW s \in StepType, s.task.request # "login",
         s.account.attempt = 0, s.account.pending = FALSE, s.revisions.login = r.login + 1,
         \A b \in attempts : b.attempt \notin s.revisions.settled,
         \A b \in attempts : a.pending /\ b.attempt = a.attempt => Hands(s.task, b.attempt)
  PROVE  Log(s.account, s.revisions, [ks EXCEPT ![t] = s.task], attempts)
<1>. DEFINE ls == [ks EXCEPT ![t] = s.task]
<1>1. ls[t] = s.task /\ (\A u \in Tasks : u # t => ls[u] = ks[u]) /\ r.login \in Nat
  BY DEF RevisionsType
<1>. HIDE DEF ls
<1>2. ASSUME NEW b \in attempts
      PROVE  Owner(b, s.account, ls) /\ b.attempt > 0
  <2>1. Owner(b, a, ks) /\ b.attempt > 0
    BY DEF Log
  <2>2. CASE b.attempt = a.attempt /\ a.pending
    BY <1>1, <2>1, <2>2 DEF Owner
  <2>3. CASE \E u \in Tasks : Hands(ks[u], b.attempt)
    <3>1. PICK u \in Tasks : Hands(ks[u], b.attempt)
      BY <2>3
    <3>2. u # t
      BY <3>1, Names DEF Hands, None
    <3>3. QED
      BY <1>1, <2>1, <3>1, <3>2 DEF Owner
  <2>4. QED
    BY <2>1, <2>2, <2>3 DEF Owner
<1>3. ASSUME NEW u \in Tasks, ls[u].request = "login"
      PROVE  ls[u].login <= s.revisions.login /\ ~Mine(ls[u], s.revisions)
  <2>1. u # t /\ ls[u] = ks[u]
    BY <1>1, <1>3
  <2>2. ks[u].login <= r.login /\ ks[u].login \in Nat
    BY <1>3, <2>1 DEF Log, TaskType
  <2>3. QED
    BY <1>1, <2>1, <2>2 DEF Mine
<1>4. \A u \in Tasks : ~Mine(ls[u], s.revisions)
  BY <1>3 DEF Mine
<1>5. Log(s.account, s.revisions, ls, attempts)
  BY <1>2, <1>3, <1>4 DEF Log
<1>6. QED
  BY <1>5 DEF ls

\* A task that begins.
LEMMA BeginIs ==
  ASSUME NEW s, Begin(s)
  PROVE  \E t \in Tasks : /\ tasks[t] = NoTask
                          /\ account' = s.account /\ revisions' = s.revisions /\ saved' = s.saved
                          /\ tasks' = [tasks EXCEPT ![t] = s.task]
  BY DEF Begin, Goes

LEMMA HereIs ==
  ASSUME ConnectionsInv, NEW k \in TaskType, NEW s, s = Here(k)
  PROVE  /\ s \in StepType /\ s.account = account /\ s.revisions = revisions /\ s.saved = saved /\ s.task = k
         /\ account \in AccountType /\ revisions \in RevisionsType /\ saved \in SavedType
         /\ tasks \in [Tasks -> TaskType] /\ revisions.revision \in Nat /\ revisions.login \in Nat
  BY DEF ConnectionsInv, Good, ClientType, Here, StepType, RevisionsType

\* A step of the client alone that keeps what the native side relies on.
LEMMA ClientStep ==
  ASSUME ConnectionsInv, service' = service, revisions'.settled = revisions.settled,
         Good(account', revisions', saved', tasks', service.profiles, service.attempts)
  PROVE  ConnectionsInv'
  BY DEF ConnectionsInv, Numbered

LEMMA NothingHandedYet ==
  ASSUME NEW t, tasks[t] = NoTask
  PROVE  ~Changer(tasks[t]) /\ \A i : ~Hands(tasks[t], i)
  BY Names DEF Changer, Hands, None

LEMMA ConnectOpKeeps == ASSUME ConnectionsInv, ConnectOp PROVE ConnectionsInv'
<1>1. PICK p \in Gateways : Operation(Ask(Here([NoTask EXCEPT !.target = p]), "save", p))
  BY DEF ConnectOp
<1>2. p \in Profiles /\ p \in Maybe /\ "save" \in TaskRequests
  BY DEF Profiles, Maybe, TaskRequests
<1>3. PICK k : k = [NoTask EXCEPT !.target = p]
  OBVIOUS
<1>4. k \in TaskType /\ k.target = p /\ k.then = None
  BY <1>2, <1>3, Names DEF TaskType
<1>5. PICK h : h = Here(k)
  OBVIOUS
<1>6. PICK s : s = Ask(h, "save", p)
  OBVIOUS
<1>7. /\ h \in StepType /\ h.account = account /\ h.revisions = revisions /\ h.saved = saved /\ h.task = k
      /\ revisions.revision \in Nat
  BY <1>4, <1>5, HereIs
<1>8. /\ s \in StepType /\ s.saved = saved /\ s.account = account /\ s.revisions = revisions
      /\ s.task.request = "save" /\ s.task.profile = p /\ s.task.answer = None
      /\ s.task.revision = revisions.revision /\ s.task.then = None /\ s.task.target = p
  BY <1>2, <1>4, <1>6, <1>7, AskIs
<1>9. PICK t \in Tasks : /\ tasks[t] = NoTask
                         /\ account' = s.account /\ revisions' = s.revisions /\ saved' = s.saved
                         /\ tasks' = [tasks EXCEPT ![t] = s.task]
  BY <1>1, <1>3, <1>5, <1>6, BeginIs DEF Operation
<1>10. service' = service
  BY <1>1 DEF Operation
<1>11. /\ Plain(s.task) /\ s.task.revision <= s.revisions.revision
       /\ ~ReadsOf(s.task, s.revisions) /\ s.task.request # "login"
  BY <1>2, <1>7, <1>8 DEF Plain, ReadsOf, None
<1>12. Good(s.account, s.revisions, s.saved, [tasks EXCEPT ![t] = s.task], service.profiles, service.attempts)
  BY <1>8, <1>9, <1>11, NothingHandedYet, GoodSame DEF ConnectionsInv
<1>13. QED
  BY <1>8, <1>9, <1>10, <1>12, ClientStep

LEMMA ForgetOpKeeps == ASSUME ConnectionsInv, ForgetOp PROVE ConnectionsInv'
<1>1. PICK p \in Gateways : Operation(Ask(Here(NoTask), "forget", p))
  BY DEF ForgetOp
<1>2. p \in Profiles /\ p \in Maybe /\ "forget" \in TaskRequests
  BY DEF Profiles, Maybe, TaskRequests
<1>5. PICK h : h = Here(NoTask)
  OBVIOUS
<1>6. PICK s : s = Ask(h, "forget", p)
  OBVIOUS
<1>7. /\ h \in StepType /\ h.account = account /\ h.revisions = revisions /\ h.saved = saved /\ h.task = NoTask
      /\ revisions.revision \in Nat
  BY <1>5, HereIs, Names
<1>8. /\ s \in StepType /\ s.saved = saved /\ s.account = account /\ s.revisions = revisions
      /\ s.task.request = "forget" /\ s.task.profile = p /\ s.task.answer = None
      /\ s.task.revision = revisions.revision /\ s.task.then = None
  BY <1>2, <1>6, <1>7, AskIs, Names
<1>9. PICK t \in Tasks : /\ tasks[t] = NoTask
                         /\ account' = s.account /\ revisions' = s.revisions /\ saved' = s.saved
                         /\ tasks' = [tasks EXCEPT ![t] = s.task]
  BY <1>1, <1>5, <1>6, BeginIs DEF Operation
<1>10. service' = service
  BY <1>1 DEF Operation
<1>11. /\ Plain(s.task) /\ s.task.revision <= s.revisions.revision
       /\ ~ReadsOf(s.task, s.revisions) /\ s.task.request # "login"
  BY <1>2, <1>7, <1>8 DEF Plain, ReadsOf, None
<1>12. Good(s.account, s.revisions, s.saved, [tasks EXCEPT ![t] = s.task], service.profiles, service.attempts)
  BY <1>8, <1>9, <1>11, NothingHandedYet, GoodSame DEF ConnectionsInv
<1>13. QED
  BY <1>8, <1>9, <1>10, <1>12, ClientStep

\* A login begins.
LEMMA LogBegun ==
  ASSUME NEW a, NEW r, NEW ks, NEW attempts, Log(a, r, ks, attempts), ks \in [Tasks -> TaskType],
         r \in RevisionsType, NEW t \in Tasks, ks[t] = NoTask, ~a.pending, NEW s \in StepType,
         s.task.request = "login", s.task.login = s.revisions.login, s.account.attempt = 0, s.account.pending,
         s.revisions.login = r.login + 1, s.revisions.settled = r.settled
  PROVE  Log(s.account, s.revisions, [ks EXCEPT ![t] = s.task], attempts)
<1>. DEFINE ls == [ks EXCEPT ![t] = s.task]
<1>1. ls[t] = s.task /\ (\A u \in Tasks : u # t => ls[u] = ks[u]) /\ r.login \in Nat
  BY DEF RevisionsType
<1>. HIDE DEF ls
<1>2. ASSUME NEW b \in attempts
      PROVE  Owner(b, s.account, ls) /\ b.attempt > 0 /\ b.attempt \notin s.revisions.settled
  <2>1. Owner(b, a, ks) /\ b.attempt > 0 /\ b.attempt \notin r.settled
    BY DEF Log
  <2>2. PICK u \in Tasks : Hands(ks[u], b.attempt)
    BY <2>1 DEF Owner
  <2>3. u # t
    BY <2>2, Names DEF Hands, None
  <2>4. QED
    BY <1>1, <2>1, <2>2, <2>3 DEF Owner
<1>3. ASSUME NEW u \in Tasks, ls[u].request = "login"
      PROVE  ls[u].login <= s.revisions.login /\ (Mine(ls[u], s.revisions) => u = t)
  <2>1. CASE u = t
    BY <1>1, <2>1
  <2>2. CASE u # t
    <3>1. ks[u].login <= r.login /\ ks[u].login \in Nat
      BY <1>1, <1>3, <2>2 DEF Log, TaskType
    <3>2. QED
      BY <1>1, <2>2, <3>1 DEF Mine
  <2>3. QED
    BY <2>1, <2>2
<1>4. \A u \in Tasks : Mine(ls[u], s.revisions) => u = t
  BY <1>3 DEF Mine
<1>5. Log(s.account, s.revisions, ls, attempts)
  BY <1>2, <1>3, <1>4 DEF Log
<1>6. QED
  BY <1>5 DEF ls

LEMMA LoginOpKeeps == ASSUME ConnectionsInv, LoginOp PROVE ConnectionsInv'
<1>1. PICK p \in Accounts :
        Operation(Ask([Here([NoTask EXCEPT !.target = p, !.login = revisions.login + 1])
                         EXCEPT !.revisions.login = @ + 1, !.revisions.loginProfile = p,
                                !.account = [@ EXCEPT !.pending = TRUE, !.attempt = 0, !.error = FALSE]],
                      "login", p))
  BY DEF LoginOp
<1>2. p \in Profiles /\ p \in Maybe /\ "login" \in TaskRequests /\ ~account.pending
  BY DEF Profiles, Maybe, TaskRequests, LoginOp, Unlocked
<1>3. /\ account \in AccountType /\ revisions \in RevisionsType /\ saved \in SavedType
      /\ tasks \in [Tasks -> TaskType] /\ revisions.revision \in Nat /\ revisions.login \in Nat
  BY HereIs, Names
<1>n. PICK n \in Nat : n = revisions.login + 1
  BY <1>3
<1>4. PICK k : k = [NoTask EXCEPT !.target = p, !.login = revisions.login + 1]
  OBVIOUS
<1>5. k \in TaskType /\ k.login = revisions.login + 1 /\ k.then = None
  <2>1. k = [NoTask EXCEPT !.target = p, !.login = n]
    BY <1>4, <1>n
  <2>2. QED
    BY <1>2, <1>n, <2>1, Names DEF TaskType
<1>6. PICK q : q = [revisions EXCEPT !.login = @ + 1, !.loginProfile = p]
  OBVIOUS
<1>7. /\ q \in RevisionsType /\ q.revision = revisions.revision /\ q.login = revisions.login + 1
      /\ q.settled = revisions.settled
  <2>1. q = [revisions EXCEPT !.login = n, !.loginProfile = p]
    BY <1>6, <1>n
  <2>2. QED
    BY <1>2, <1>3, <1>n, <2>1 DEF RevisionsType
<1>8. PICK a : a = [account EXCEPT !.pending = TRUE, !.attempt = 0, !.error = FALSE]
  OBVIOUS
<1>9. a \in AccountType /\ a.pending /\ a.attempt = 0 /\ a.connection = account.connection
  BY <1>3, <1>8 DEF AccountType
<1>10. PICK h : h = [account |-> a, revisions |-> q, saved |-> saved, task |-> k]
  OBVIOUS
<1>11. h \in StepType
  BY <1>3, <1>5, <1>7, <1>9, <1>10 DEF StepType
<1>12. h = [Here(k) EXCEPT !.revisions.login = @ + 1, !.revisions.loginProfile = p,
                           !.account = [@ EXCEPT !.pending = TRUE, !.attempt = 0, !.error = FALSE]]
  <2>1. PICK z : z = [account |-> account, revisions |-> [revisions EXCEPT !.login = @ + 1],
                      saved |-> saved, task |-> k]
    OBVIOUS
  <2>2. z = [Here(k) EXCEPT !.revisions.login = @ + 1]
    BY <2>1 DEF Here
  <2>3. PICK y : y = [account |-> account, revisions |-> q, saved |-> saved, task |-> k]
    OBVIOUS
  <2>4. y = [z EXCEPT !.revisions.loginProfile = p]
    BY <1>6, <2>1, <2>3
  <2>5. h = [y EXCEPT !.account = [@ EXCEPT !.pending = TRUE, !.attempt = 0, !.error = FALSE]]
    BY <1>8, <1>10, <2>3
  <2>6. QED
    BY <2>2, <2>4, <2>5
<1>13. PICK s : s = Ask(h, "login", p)
  OBVIOUS
<1>14. /\ s \in StepType /\ s.saved = saved /\ s.account = a /\ s.revisions = q
       /\ s.task.request = "login" /\ s.task.profile = p /\ s.task.answer = None
       /\ s.task.revision = q.revision /\ s.task.then = None /\ s.task.login = q.login
  BY <1>2, <1>5, <1>7, <1>10, <1>11, <1>13, AskIs
<1>15. Operation(s)
  BY <1>1, <1>4, <1>12, <1>13
<1>16. PICK t \in Tasks : /\ tasks[t] = NoTask
                          /\ account' = s.account /\ revisions' = s.revisions /\ saved' = s.saved
                          /\ tasks' = [tasks EXCEPT ![t] = s.task]
  BY <1>15, BeginIs DEF Operation
<1>17. service' = service
  BY <1>15 DEF Operation
<1>18. /\ Plain(s.task) /\ s.task.revision <= s.revisions.revision /\ ~ReadsOf(s.task, s.revisions)
  BY <1>2, <1>3, <1>7, <1>14 DEF Plain, ReadsOf, None
<1>19. /\ ClientType(account, revisions, saved, tasks) /\ Log(account, revisions, tasks, service.attempts)
       /\ Conn(account, revisions, saved, tasks, service.profiles)
  BY DEF ConnectionsInv, Good
<1>20. ClientType(s.account, s.revisions, s.saved, [tasks EXCEPT ![t] = s.task])
  <2>1. revisions.revision <= s.revisions.revision
    BY <1>3, <1>7, <1>14
  <2>2. QED
    BY <1>14, <1>18, <1>19, <2>1, ClientKept
<1>21. Conn(s.account, s.revisions, s.saved, [tasks EXCEPT ![t] = s.task], service.profiles)
  BY <1>3, <1>7, <1>9, <1>14, <1>16, <1>18, <1>19, NothingHandedYet, ConnSame
<1>22. Log(s.account, s.revisions, [tasks EXCEPT ![t] = s.task], service.attempts)
  <2>1. /\ s.task.login = s.revisions.login /\ s.account.attempt = 0 /\ s.account.pending
        /\ s.revisions.login = revisions.login + 1 /\ s.revisions.settled = revisions.settled
    BY <1>7, <1>9, <1>14
  <2>2. QED
    BY <1>2, <1>3, <1>14, <1>16, <1>19, <2>1, LogBegun
<1>23. QED
  BY <1>7, <1>14, <1>16, <1>17, <1>20, <1>21, <1>22, ClientStep DEF Good

\* What a withdrawal leaves, with what its callers do besides.
LEMMA WithdrawnHere ==
  ASSUME ConnectionsInv, NEW k \in TaskType, NEW s, s = Withdrawn(Here(k))
  PROVE  /\ s \in StepType /\ s.saved = saved /\ s.account.connection = account.connection
         /\ s.account.attempt = 0 /\ s.account.pending = FALSE /\ s.account.profile = account.profile
         /\ s.revisions.revision = revisions.revision
         /\ s.revisions.login = revisions.login + 1 /\ s.revisions.settled = revisions.settled
         /\ s.task \in TaskType /\ s.task.found = account.attempt /\ s.task.request = k.request
         /\ s.task.then = k.then /\ s.task.target = k.target /\ s.task.answer = k.answer
<1>1. PICK h : h = Here(k)
  OBVIOUS
<1>2. h \in StepType /\ h.account = account /\ h.revisions = revisions /\ h.saved = saved /\ h.task = k
  BY <1>1, HereIs
<1>3. /\ s \in StepType /\ s.saved = h.saved /\ s.account.connection = h.account.connection
      /\ s.account.attempt = 0 /\ s.account.pending = FALSE
      /\ s.account.profile = h.account.profile
      /\ s.revisions.revision = h.revisions.revision
      /\ s.revisions.login = h.revisions.login + 1 /\ s.revisions.settled = h.revisions.settled
      /\ s.task = [h.task EXCEPT !.found = h.account.attempt]
  BY <1>1, <1>2, WithdrawnIs
<1>4. /\ s.task \in TaskType /\ s.task.found = account.attempt /\ s.task.request = k.request
      /\ s.task.then = k.then /\ s.task.target = k.target /\ s.task.answer = k.answer
  BY <1>2, <1>3 DEF StepType, TaskType
<1>5. QED
  BY <1>2, <1>3, <1>4

LEMMA InvParts ==
  ASSUME ConnectionsInv
  PROVE  /\ ClientType(account, revisions, saved, tasks) /\ Log(account, revisions, tasks, service.attempts)
         /\ Conn(account, revisions, saved, tasks, service.profiles)
         /\ service \in ServiceType /\ Numbered(service, revisions)
  BY DEF ConnectionsInv, Good

LEMMA CancelLoginOpKeeps == ASSUME ConnectionsInv, CancelLoginOp PROVE ConnectionsInv'
<1>1. PICK k : k = [NoTask EXCEPT !.then = "end"]
  OBVIOUS
<1>2. k \in TaskType /\ k.then = "end" /\ k.answer = None
  BY <1>1, Names DEF TaskType, Followed
<1>3. PICK w : w = Withdrawn(Here(k))
  OBVIOUS
<1>4. /\ w \in StepType /\ w.saved = saved /\ w.account.connection = account.connection
      /\ w.account.attempt = 0 /\ w.account.pending = FALSE
      /\ w.revisions.revision = revisions.revision
      /\ w.revisions.login = revisions.login + 1 /\ w.revisions.settled = revisions.settled
      /\ w.task \in TaskType /\ w.task.found = account.attempt
      /\ w.task.then = "end"
  BY <1>2, <1>3, WithdrawnHere
<1>5. PICK s : s = IF w.task.found = 0 THEN End(w) ELSE Ask(w, "cancel", None)
  OBVIOUS
<1>6. Operation(s)
  BY <1>1, <1>3, <1>5 DEF CancelLoginOp
<1>7. PICK t \in Tasks : /\ tasks[t] = NoTask
                         /\ account' = s.account /\ revisions' = s.revisions /\ saved' = s.saved
                         /\ tasks' = [tasks EXCEPT ![t] = s.task]
  BY <1>6, BeginIs DEF Operation
<1>8. service' = service
  BY <1>6 DEF Operation
<1>9. /\ account \in AccountType /\ revisions \in RevisionsType /\ saved \in SavedType
      /\ tasks \in [Tasks -> TaskType] /\ revisions.revision \in Nat /\ revisions.login \in Nat
  BY HereIs, Names
<1>10. /\ s \in StepType /\ s.saved = saved /\ s.account = w.account /\ s.revisions = w.revisions
       /\ Plain(s.task) /\ s.task.revision <= revisions.revision /\ s.task.request \in {None, "cancel"}
       /\ account.attempt # 0 => Hands(s.task, account.attempt)
  <2>1. CASE account.attempt = 0
    <3>1. s = End(w)
      BY <1>4, <1>5, <2>1
    <3>2. s \in StepType /\ s.saved = w.saved /\ s.account = w.account /\ s.revisions = w.revisions /\ s.task = NoTask
      BY <1>4, <3>1, EndIs
    <3>3. QED
      BY <1>4, <1>9, <2>1, <3>2, Names
  <2>2. CASE account.attempt # 0
    <3>1. s = Ask(w, "cancel", None) /\ "cancel" \in TaskRequests /\ None \in Maybe
      BY <1>4, <1>5, <2>2 DEF TaskRequests, Maybe
    <3>2. /\ s \in StepType /\ s.saved = w.saved /\ s.account = w.account /\ s.revisions = w.revisions
          /\ s.task.request = "cancel" /\ s.task.answer = None
          /\ s.task.revision = w.revisions.revision /\ s.task.then = w.task.then
          /\ s.task.found = w.task.found
      BY <1>4, <3>1, AskIs
    <3>3. Plain(s.task)
      BY <1>4, <3>2 DEF Plain, None
    <3>4. Hands(s.task, account.attempt)
      BY <1>4, <3>2 DEF Hands
    <3>5. QED
      BY <1>4, <1>9, <3>2, <3>3, <3>4
  <2>3. QED
    BY <2>1, <2>2
<1>11. /\ ClientType(account, revisions, saved, tasks) /\ Log(account, revisions, tasks, service.attempts)
       /\ Conn(account, revisions, saved, tasks, service.profiles)
  BY InvParts
<1>12. ClientType(s.account, s.revisions, s.saved, [tasks EXCEPT ![t] = s.task])
  <2>1. revisions.revision <= s.revisions.revision /\ s.task.revision <= s.revisions.revision
    BY <1>4, <1>9, <1>10
  <2>2. QED
    BY <1>10, <1>11, <2>1, ClientKept
<1>13. Conn(s.account, s.revisions, s.saved, [tasks EXCEPT ![t] = s.task], service.profiles)
  <2>1. ~ReadsOf(s.task, s.revisions)
    BY <1>10 DEF ReadsOf, None
  <2>2. QED
    BY <1>4, <1>7, <1>9, <1>10, <1>11, <2>1, NothingHandedYet, ConnSame
<1>14. Log(s.account, s.revisions, [tasks EXCEPT ![t] = s.task], service.attempts)
  <2>1. \A b \in service.attempts : b.attempt \notin s.revisions.settled /\ b.attempt > 0
    BY <1>4, <1>10, <1>11 DEF Log
  <2>2. \A b \in service.attempts : account.pending /\ b.attempt = account.attempt => Hands(s.task, b.attempt)
    BY <1>10, <2>1
  <2>3. s.task.request # "login"
    BY <1>10 DEF None
  <2>4. s.account.attempt = 0 /\ s.account.pending = FALSE /\ s.revisions.login = revisions.login + 1
    BY <1>4, <1>10
  <2>5. \A b \in service.attempts : b.attempt \notin s.revisions.settled
    BY <2>1
  <2>6. s \in StepType
    BY <1>10
  <2>7. QED
    BY <1>7, <1>9, <1>11, <2>2, <2>3, <2>4, <2>5, <2>6, LogWithdrawn
<1>15. QED
  BY <1>4, <1>7, <1>8, <1>10, <1>12, <1>13, <1>14, ClientStep DEF Good

\* Logging out, and a login that ended: a newer revision without a connection.
LEMMA WithdrawnGood ==
  ASSUME ConnectionsInv, NEW s \in StepType, NEW t \in Tasks, tasks[t] = NoTask,
         s.account.connection = NoConnection, s.account.attempt = 0, s.account.pending = FALSE,
         s.revisions.revision = revisions.revision + 1, s.revisions.login = revisions.login + 1,
         Plain(s.task), s.task.revision <= s.revisions.revision, s.task.answer = None,
         s.task.request \in {"profiles", "logout"},
         \A b \in service.attempts : b.attempt \notin s.revisions.settled,
         \A b \in service.attempts : ~(account.pending /\ b.attempt = account.attempt)
  PROVE  Good(s.account, s.revisions, s.saved, [tasks EXCEPT ![t] = s.task], service.profiles, service.attempts)
<1>1. /\ account \in AccountType /\ revisions \in RevisionsType /\ saved \in SavedType
      /\ tasks \in [Tasks -> TaskType] /\ revisions.revision \in Nat /\ revisions.login \in Nat
  BY HereIs, Names
<1>2. revisions.revision < s.revisions.revision /\ revisions.revision <= s.revisions.revision
  BY <1>1
<1>3. ClientType(s.account, s.revisions, s.saved, [tasks EXCEPT ![t] = s.task])
  BY <1>2, InvParts, ClientKept
<1>4. Conn(s.account, s.revisions, s.saved, [tasks EXCEPT ![t] = s.task], service.profiles)
  BY <1>2, InvParts, ConnNewer
<1>5. Log(s.account, s.revisions, [tasks EXCEPT ![t] = s.task], service.attempts)
  BY <1>1, InvParts, LogWithdrawn
<1>6. QED
  BY <1>3, <1>4, <1>5 DEF Good

\* Newer(Unconnected(...)): what logout and an outage begin with.
LEMMA DisconnectedIs ==
  ASSUME ConnectionsInv, NEW w, w = Withdrawn(Newer(Unconnected(Here(NoTask))))
  PROVE  /\ w \in StepType /\ w.saved = saved /\ w.account.connection = NoConnection
         /\ w.account.attempt = 0 /\ w.account.pending = FALSE
         /\ w.revisions.revision = revisions.revision + 1
         /\ w.revisions.login = revisions.login + 1 /\ w.revisions.settled = revisions.settled
         /\ w.task.then = None
<1>1. /\ account \in AccountType /\ revisions \in RevisionsType /\ saved \in SavedType
      /\ revisions.revision \in Nat
  BY HereIs, Names
<1>2. PICK a : a = [account EXCEPT !.connection = NoConnection]
  OBVIOUS
<1>3. a \in AccountType /\ a.connection = NoConnection /\ a.profile = account.profile
  BY <1>1, <1>2, Names DEF AccountType
<1>4. PICK q : q = [revisions EXCEPT !.revision = @ + 1]
  OBVIOUS
<1>5. /\ q \in RevisionsType /\ q.revision = revisions.revision + 1 /\ q.login = revisions.login
      /\ q.settled = revisions.settled
  BY <1>1, <1>4 DEF RevisionsType
<1>6. PICK h : h = [account |-> a, revisions |-> q, saved |-> saved, task |-> NoTask]
  OBVIOUS
<1>7. h \in StepType
  BY <1>1, <1>3, <1>5, <1>6, Names DEF StepType
<1>8. h = Newer(Unconnected(Here(NoTask)))
  <2>1. PICK z : z = [account |-> a, revisions |-> revisions, saved |-> saved, task |-> NoTask]
    OBVIOUS
  <2>2. z = Unconnected(Here(NoTask))
    BY <1>2, <2>1 DEF Unconnected, Here
  <2>3. h = Newer(z)
    BY <1>4, <1>6, <2>1 DEF Newer
  <2>4. QED
    BY <2>2, <2>3
<1>9. /\ w \in StepType /\ w.saved = h.saved /\ w.account.connection = h.account.connection
      /\ w.account.attempt = 0 /\ w.account.pending = FALSE
      /\ w.account.profile = h.account.profile
      /\ w.revisions.revision = h.revisions.revision
      /\ w.revisions.login = h.revisions.login + 1 /\ w.revisions.settled = h.revisions.settled
      /\ w.task = [h.task EXCEPT !.found = h.account.attempt]
  BY <1>7, <1>8, WithdrawnIs
<1>10. w.task.then = None
  BY <1>6, <1>9, Names DEF TaskType
<1>11. QED
  BY <1>3, <1>5, <1>6, <1>9, <1>10

LEMMA LogoutOpKeeps == ASSUME ConnectionsInv, LogoutOp PROVE ConnectionsInv'
<1>1. PICK w : w = Withdrawn(Newer(Unconnected(Here(NoTask))))
  OBVIOUS
<1>2. /\ w \in StepType /\ w.saved = saved /\ w.account.connection = NoConnection
      /\ w.account.attempt = 0 /\ w.account.pending = FALSE
      /\ w.revisions.revision = revisions.revision + 1
      /\ w.revisions.login = revisions.login + 1 /\ w.revisions.settled = revisions.settled
      /\ w.task.then = None
  BY <1>1, DisconnectedIs
<1>3. PICK s : s = Ask(w, "logout", account.profile)
  OBVIOUS
<1>4. Operation(s) /\ ~account.pending /\ account.profile # None
  BY <1>1, <1>3 DEF LogoutOp, Unlocked
<1>5. account.profile \in Profiles /\ account.profile \in Maybe /\ "logout" \in TaskRequests
  <2>1. account \in AccountType
    BY HereIs, Names
  <2>2. QED
    BY <1>4, <2>1 DEF AccountType, Maybe, TaskRequests
<1>6. /\ s \in StepType /\ s.saved = w.saved /\ s.account = w.account /\ s.revisions = w.revisions
      /\ s.task.request = "logout" /\ s.task.profile = account.profile /\ s.task.answer = None
      /\ s.task.revision = w.revisions.revision /\ s.task.then = w.task.then
  BY <1>2, <1>3, <1>5, AskIs
<1>7. PICK t \in Tasks : /\ tasks[t] = NoTask
                         /\ account' = s.account /\ revisions' = s.revisions /\ saved' = s.saved
                         /\ tasks' = [tasks EXCEPT ![t] = s.task]
  BY <1>4, BeginIs DEF Operation
<1>8. service' = service
  BY <1>4 DEF Operation
<1>9. Plain(s.task) /\ s.task.revision <= s.revisions.revision
  <2>1. s.revisions.revision \in Nat
    BY <1>6 DEF StepType, RevisionsType
  <2>2. QED
    BY <1>2, <1>5, <1>6, <2>1 DEF Plain, None
<1>10. Good(s.account, s.revisions, s.saved, [tasks EXCEPT ![t] = s.task], service.profiles, service.attempts)
  <2>1. \A b \in service.attempts : b.attempt \notin s.revisions.settled
    BY <1>2, <1>6, InvParts DEF Log
  <2>2. /\ s.account.connection = NoConnection /\ s.account.attempt = 0 /\ s.account.pending = FALSE
        /\ s.revisions.revision = revisions.revision + 1 /\ s.revisions.login = revisions.login + 1
    BY <1>2, <1>6
  <2>3. QED
    BY <1>4, <1>6, <1>7, <1>9, <2>1, <2>2, WithdrawnGood
<1>11. QED
  BY <1>2, <1>6, <1>7, <1>8, <1>10, ClientStep

LEMMA ProceedKeeps == ASSUME ConnectionsInv, Proceed PROVE ConnectionsInv'
<1>1. PICK t \in Tasks : tasks[t].answer # None /\ \E s \in {Continue(Here(tasks[t]))} : Goes(t, s)
  BY DEF Proceed
<1>2. PICK h : h = Here(tasks[t])
  OBVIOUS
<1>3. PICK x : x = Continue(h)
  OBVIOUS
<1>4. Goes(t, x) /\ service' = service
  BY <1>1, <1>2, <1>3 DEF Proceed
<1>5. tasks[t].request # None
  <2>1. Plain(tasks[t])
    BY DEF ConnectionsInv, Good, ClientType
  <2>2. QED
    BY <1>1, <2>1, Names DEF Plain
<1>6. h = [account |-> account, revisions |-> revisions, saved |-> saved, task |-> tasks[t]]
  BY <1>2 DEF Here
<1>7. Onward(x, h, t, tasks, service.profiles, service.attempts)
  BY <1>1, <1>3, <1>5, <1>6, ContinueGood DEF ConnectionsInv
<1>8. QED
  BY <1>4, <1>6, <1>7, ClientStep DEF Onward, Goes

LEMMA AuthChangedKeeps == ASSUME ConnectionsInv, AuthChanged PROVE ConnectionsInv'
<1>0. /\ account \in AccountType /\ revisions \in RevisionsType /\ saved \in SavedType
      /\ tasks \in [Tasks -> TaskType] /\ revisions.revision \in Nat /\ revisions.login \in Nat
  BY HereIs, Names
<1>s. service \in ServiceType /\ Numbered(service, revisions)
  BY InvParts
<1>1. PICK n \in service.news :
        /\ service' = [service EXCEPT !.news = @ \ {n}]
        /\ IF ~Concerns(n) THEN UNCHANGED <<account, revisions, saved, tasks>>
           ELSE Begin(Refresh([Withdrawn(Here([NoTask EXCEPT !.login = revisions.login + 1]))
                                 EXCEPT !.revisions.settled = @ \cup {n.attempt},
                                        !.saved = IF n.success THEN n.profile ELSE @],
                              IF n.success THEN "end" ELSE "failure"))
  BY DEF AuthChanged
<1>2. /\ service' \in ServiceType /\ service'.profiles = service.profiles /\ service'.attempts = service.attempts
      /\ service'.news \subseteq service.news /\ service'.logins = service.logins
      /\ n \in NewsType /\ n.attempt <= service.logins /\ \A b \in service.attempts : b.attempt # n.attempt
  BY <1>s, <1>1 DEF ServiceType, Numbered
<1>3. CASE ~Concerns(n)
  BY <1>1, <1>2, <1>3 DEF ConnectionsInv, Numbered
<1>4. CASE Concerns(n)
  <2>1. PICK m \in Nat : m = revisions.login + 1
    BY <1>0
  <2>2. PICK k : k = [NoTask EXCEPT !.login = m]
    OBVIOUS
  <2>3. k \in TaskType /\ k.then = None /\ k.target = None /\ k.answer = None
    BY <2>2, Names DEF TaskType, NoTask
  <2>4. PICK w : w = Withdrawn(Here(k))
    OBVIOUS
  <2>5. /\ w \in StepType /\ w.saved = saved /\ w.account.connection = account.connection
        /\ w.account.attempt = 0 /\ w.account.pending = FALSE
        /\ w.revisions.revision = revisions.revision
        /\ w.revisions.login = revisions.login + 1 /\ w.revisions.settled = revisions.settled
        /\ w.task \in TaskType
    BY <2>3, <2>4, WithdrawnHere
  <2>6. PICK q : q = [w.revisions EXCEPT !.settled = @ \cup {n.attempt}]
    OBVIOUS
  <2>7. /\ q \in RevisionsType /\ q.revision = revisions.revision /\ q.login = revisions.login + 1
        /\ q.settled = revisions.settled \cup {n.attempt}
    BY <1>2, <2>5, <2>6 DEF RevisionsType, StepType, NewsType
  <2>8. PICK v : v = IF n.success THEN n.profile ELSE w.saved
    OBVIOUS
  <2>9. v \in SavedType
    BY <1>0, <1>2, <2>5, <2>8 DEF SavedType, Maybe, NewsType
  <2>10. PICK y : y = [account |-> w.account, revisions |-> q, saved |-> v, task |-> w.task]
    OBVIOUS
  <2>11. y \in StepType
    BY <2>5, <2>7, <2>9, <2>10 DEF StepType
  <2>12. y = [w EXCEPT !.revisions.settled = @ \cup {n.attempt}, !.saved = IF n.success THEN n.profile ELSE @]
    <3>1. PICK z : z = [account |-> w.account, revisions |-> q, saved |-> w.saved, task |-> w.task]
      OBVIOUS
    <3>0. w = [account |-> w.account, revisions |-> w.revisions, saved |-> w.saved, task |-> w.task]
      BY <2>5 DEF StepType
    <3>1a. z = [w EXCEPT !.revisions = q]
      BY <3>0, <3>1
    <3>1b. q = [w.revisions EXCEPT !.settled = w.revisions.settled \cup {n.attempt}]
      BY <2>6
    <3>2. z = [w EXCEPT !.revisions.settled = @ \cup {n.attempt}]
      BY <3>1a, <3>1b
    <3>3. y = [z EXCEPT !.saved = IF n.success THEN n.profile ELSE @]
      BY <2>8, <2>10, <3>1
    <3>4. QED
      BY <3>2, <3>3
  <2>13. PICK then : then = IF n.success THEN "end" ELSE "failure"
    OBVIOUS
  <2>14. then \in Followed /\ then \notin {"saved", "connect"}
    BY <2>13 DEF Followed
  <2>15. PICK x : x = Refresh(y, then)
    OBVIOUS
  <2>16. Begin(x)
    BY <1>1, <1>4, <2>1, <2>2, <2>4, <2>12, <2>13, <2>15
  <2>17. /\ x \in StepType /\ x.saved = y.saved
         /\ x.account.connection = NoConnection
         /\ x.account.attempt = y.account.attempt /\ x.account.pending = y.account.pending
         /\ x.revisions.revision = y.revisions.revision + 1
         /\ x.revisions.login = y.revisions.login /\ x.revisions.settled = y.revisions.settled
         /\ x.task.request = "profiles" /\ x.task.answer = None /\ x.task.then = then
         /\ x.task.revision = x.revisions.revision
    BY <2>11, <2>14, <2>15, RefreshIs
  <2>18. PICK t \in Tasks : /\ tasks[t] = NoTask
                            /\ account' = x.account /\ revisions' = x.revisions /\ saved' = x.saved
                            /\ tasks' = [tasks EXCEPT ![t] = x.task]
    BY <2>16, BeginIs
  <2>19. /\ x.revisions.revision = revisions.revision + 1 /\ x.revisions.login = revisions.login + 1
         /\ x.revisions.settled = revisions.settled \cup {n.attempt}
         /\ x.account.attempt = 0 /\ x.account.pending = FALSE
    BY <2>5, <2>7, <2>10, <2>17
  <2>20. Plain(x.task) /\ x.task.revision <= x.revisions.revision
    BY <1>0, <2>14, <2>17, <2>19 DEF Plain, None
  <2>21. /\ \A b \in service.attempts : b.attempt \notin x.revisions.settled
         /\ \A b \in service.attempts : ~(account.pending /\ b.attempt = account.attempt)
    <3>1. \A b \in service.attempts : b.attempt \notin revisions.settled /\ b.attempt > 0
      BY InvParts DEF Log
    <3>2. account.attempt \in {0, n.attempt}
      BY <1>4 DEF Concerns
    <3>3. QED
      BY <1>2, <2>19, <3>1, <3>2
  <2>22. Good(x.account, x.revisions, x.saved, [tasks EXCEPT ![t] = x.task], service.profiles, service.attempts)
    BY <2>17, <2>18, <2>19, <2>20, <2>21, WithdrawnGood
  <2>23. Numbered(service', revisions')
    BY <1>s, <1>2, <2>18, <2>19 DEF Numbered
  <2>24. QED
    BY <1>2, <2>18, <2>22, <2>23 DEF ConnectionsInv
<1>5. QED
  BY <1>3, <1>4

LEMMA OutageKeeps == ASSUME ConnectionsInv, Outage PROVE ConnectionsInv'
<1>1. PICK first : first = Withdrawn(Newer(Unconnected(Here(NoTask))))
  OBVIOUS
<1>2. /\ first \in StepType /\ first.account.connection = NoConnection
      /\ first.account.attempt = 0 /\ first.account.pending = FALSE
      /\ first.revisions.revision = revisions.revision + 1
      /\ first.revisions.login = revisions.login + 1 /\ first.revisions.settled = revisions.settled
  BY <1>1, DisconnectedIs
<1>3. /\ account \in AccountType /\ revisions \in RevisionsType /\ saved \in SavedType
      /\ tasks \in [Tasks -> TaskType] /\ revisions.revision \in Nat /\ revisions.login \in Nat
  BY HereIs, Names
<1>4. PICK a : a = [first.account EXCEPT !.loading = FALSE]
  OBVIOUS
<1>5. a \in AccountType /\ a.connection = NoConnection
  BY <1>2, <1>4 DEF AccountType, StepType
<1>6. PICK c : c = [account |-> a, revisions |-> first.revisions, saved |-> saved, tasks |-> tasks]
  OBVIOUS
<1>7. PICK y : y = AllRejected(c)
  OBVIOUS
<1>8. /\ account' = y.account /\ revisions' = y.revisions /\ saved' = y.saved /\ tasks' = y.tasks
      /\ service' = [service EXCEPT !.running = FALSE, !.attempts = {}, !.news = {}]
  BY <1>1, <1>4, <1>6, <1>7 DEF Outage
<1>9. Cold(c, service.profiles)
  <2>1. first.revisions \in RevisionsType /\ first.revisions.revision \in Nat
    BY <1>2 DEF StepType, RevisionsType
  <2>2. ASSUME NEW t \in Tasks
        PROVE  /\ Plain(tasks[t]) /\ tasks[t].revision <= first.revisions.revision
               /\ ~ReadsOf(tasks[t], first.revisions)
    <3>1. Plain(tasks[t]) /\ tasks[t].revision <= revisions.revision /\ tasks[t].revision \in Nat
      BY <1>3, InvParts DEF ClientType, TaskType
    <3>2. QED
      BY <1>2, <1>3, <3>1 DEF ReadsOf
  <2>3. ClientType(a, first.revisions, saved, tasks)
    BY <1>3, <1>5, <2>1, <2>2 DEF ClientType
  <2>4. Conn(a, first.revisions, saved, tasks, service.profiles)
    BY <1>5, <2>2 DEF Conn, Backed
  <2>5. Log(a, first.revisions, tasks, {})
    <3>1. ASSUME NEW t \in Tasks, tasks[t].request = "login"
          PROVE  tasks[t].login <= first.revisions.login /\ ~Mine(tasks[t], first.revisions)
      <4>1. tasks[t].login <= revisions.login /\ tasks[t].login \in Nat
        BY <1>3, <3>1, InvParts DEF Log, TaskType
      <4>2. QED
        BY <1>2, <1>3, <4>1 DEF Mine
    <3>2. \A t \in Tasks : ~Mine(tasks[t], first.revisions)
      BY <3>1 DEF Mine
    <3>3. QED
      BY <3>1, <3>2 DEF Log
  <2>6. QED
    BY <1>5, <1>6, <2>2, <2>3, <2>4, <2>5 DEF Cold, Good
<1>10. Cold(y, service.profiles) /\ y.revisions.settled = c.revisions.settled
  BY <1>7, <1>9, AllRejectedCold
<1>11. y.revisions.settled = revisions.settled
  BY <1>2, <1>6, <1>10
<1>12. /\ service' \in ServiceType /\ service'.profiles = service.profiles /\ service'.attempts = {}
       /\ service'.news = {} /\ service'.logins = service.logins
  BY <1>8, InvParts DEF ServiceType
<1>13. Numbered(service', revisions')
  BY <1>8, <1>11, <1>12, InvParts DEF Numbered
<1>14. Good(account', revisions', saved', tasks', service'.profiles, service'.attempts)
  BY <1>8, <1>10, <1>12 DEF Cold
<1>15. QED
  BY <1>12, <1>13, <1>14 DEF ConnectionsInv

LEMMA RestartedKeeps == ASSUME ConnectionsInv, Restarted PROVE ConnectionsInv'
<1>1. /\ account \in AccountType /\ revisions \in RevisionsType /\ saved \in SavedType
      /\ tasks \in [Tasks -> TaskType] /\ revisions.revision \in Nat /\ revisions.login \in Nat
  BY HereIs, Names
<1>2. /\ service' \in ServiceType /\ service'.profiles = service.profiles /\ service'.attempts = service.attempts
      /\ service'.news = service.news /\ service'.logins = service.logins
  BY InvParts DEF Restarted, ServiceType
<1>3. CASE account.loading
  BY <1>2, <1>3, InvParts DEF Restarted, ConnectionsInv, Numbered
<1>4. CASE ~account.loading
  <2>1. PICK h : h = Here(NoTask)
    OBVIOUS
  <2>2. /\ h \in StepType /\ h.account = account /\ h.revisions = revisions /\ h.saved = saved
        /\ h.task = NoTask
    BY <2>1, HereIs, Names
  <2>3. PICK x : x = Refresh(h, "end")
    OBVIOUS
  <2>4. /\ x \in StepType /\ x.account.connection = NoConnection
        /\ x.account.attempt = h.account.attempt /\ x.account.pending = h.account.pending
        /\ x.revisions.revision = h.revisions.revision + 1
        /\ x.revisions.login = h.revisions.login /\ x.revisions.settled = h.revisions.settled
        /\ x.task.request = "profiles" /\ x.task.answer = None /\ x.task.then = "end"
        /\ x.task.revision = x.revisions.revision
    <3>1. "end" \in Followed
      BY DEF Followed
    <3>2. QED
      BY <2>2, <2>3, <3>1, RefreshIs
  <2>5. PICK t \in Tasks : /\ tasks[t] = NoTask
                           /\ account' = x.account /\ revisions' = x.revisions /\ saved' = x.saved
                           /\ tasks' = [tasks EXCEPT ![t] = x.task]
    BY <1>4, <2>1, <2>3, BeginIs DEF Restarted
  <2>6. x.revisions.revision = revisions.revision + 1 /\ revisions.revision < x.revisions.revision
        /\ x.task.revision <= x.revisions.revision
    BY <1>1, <2>2, <2>4
  <2>7. Plain(x.task)
    BY <2>4 DEF Plain, None
  <2>8. Good(x.account, x.revisions, x.saved, [tasks EXCEPT ![t] = x.task], service.profiles, service.attempts)
    <3>1. \A b \in service.attempts : ~Hands(tasks[t], b.attempt)
      BY <2>5, NothingHandedYet
    <3>2. x.task.request \notin {"models", "login"}
      BY <2>4
    <3>3. /\ x.account.attempt = account.attempt /\ x.account.pending = account.pending
          /\ x.revisions.login = revisions.login /\ x.revisions.settled = revisions.settled
      BY <2>2, <2>4
    <3>4. Good(account, revisions, saved, tasks, service.profiles, service.attempts)
      BY DEF ConnectionsInv
    <3>5. QED
      BY <2>4, <2>6, <2>7, <3>1, <3>2, <3>3, <3>4, GoodNewer
  <2>9. Numbered(service', revisions')
    BY <1>2, <2>2, <2>4, <2>5, InvParts DEF Numbered
  <2>10. QED
    BY <1>2, <2>5, <2>8, <2>9 DEF ConnectionsInv
<1>5. QED
  BY <1>3, <1>4

-----------------------------------------------------------------------------
(* The native side answers a task.                                         *)

Same(k, l) ==
  /\ l.request = k.request /\ l.target = k.target /\ l.profile = k.profile /\ l.then = k.then
  /\ l.revision = k.revision /\ l.login = k.login

LEMMA AnswerClient ==
  ASSUME NEW a, NEW r, NEW v, NEW ks, ClientType(a, r, v, ks),
         NEW t \in Tasks, NEW k \in TaskType, Same(ks[t], k), ks[t].request # None
  PROVE  ClientType(a, r, v, [ks EXCEPT ![t] = k])
<1>. DEFINE ls == [ks EXCEPT ![t] = k]
<1>1. ls \in [Tasks -> TaskType] /\ ls[t] = k /\ \A u \in Tasks : u # t => ls[u] = ks[u]
  BY DEF ClientType
<1>2. Plain(k) /\ k.revision <= r.revision
  BY DEF ClientType, Plain, Same
<1>. HIDE DEF ls
<1>3. \A u \in Tasks : Plain(ls[u]) /\ ls[u].revision <= r.revision
  BY <1>1, <1>2 DEF ClientType
<1>4. ClientType(a, r, v, ls)
  BY <1>1, <1>3 DEF ClientType
<1>5. QED
  BY <1>4 DEF ls

\* What the native side may make of the credentials.
Lasts(given, next, ls) ==
  \A p \in Profiles : next[p] = given[p] \/ ~given[p].signedIn \/ Awaited(ls)

Carries(ks, ls) == Awaited(ks) => Awaited(ls)

LEMMA HoldsLasts ==
  ASSUME NEW given, NEW next, NEW ks, NEW ls, Lasts(given, next, ls), Carries(ks, ls),
         NEW p \in Profiles, NEW n, Holds(p, n, ks, given)
  PROVE  Holds(p, n, ls, next)
<1>1. CASE Awaited(ls)
  BY <1>1 DEF Holds
<1>2. CASE ~Awaited(ls)
  <2>1. given[p] = [version |-> n, signedIn |-> TRUE]
    BY <1>2 DEF Holds, Carries
  <2>2. given[p].signedIn
    BY <2>1
  <2>3. QED
    BY <1>2, <2>1, <2>2 DEF Holds, Lasts
<1>3. QED
  BY <1>1, <1>2

TellsTruth(k, ls, given) == k.answer \in {"models", "no models"} => Holds(k.profile, k.found, ls, given)

LEMMA AnswerConn ==
  ASSUME NEW a, NEW r, NEW v, NEW ks, NEW given, ClientType(a, r, v, ks), Conn(a, r, v, ks, given),
         NEW t \in Tasks, NEW k \in TaskType, Same(ks[t], k), ks[t].answer = None,
         NEW ls, ls = [ks EXCEPT ![t] = k], NEW next, Lasts(given, next, ls),
         TellsTruth(k, ls, next)
  PROVE  Conn(a, r, v, ls, next)
<1>1. ls[t] = k /\ \A u \in Tasks : u # t => ls[u] = ks[u]
  BY DEF ClientType
<1>2. Carries(ks, ls)
  <2>1. ~Changer(ks[t])
    BY DEF Changer, None
  <2>2. QED
    BY <1>1, <2>1 DEF Awaited, Carries
<1>3. \A u \in Tasks : ReadsOf(ls[u], r) => ReadsOf(ks[u], r)
  BY <1>1 DEF ReadsOf, Same
<1>4. Backed(a, v, ls, next)
  <2>1. CASE a.connection = NoConnection
    BY <2>1 DEF Backed
  <2>2. CASE a.connection # NoConnection
    <3>1. /\ a.connection.profile \in Profiles /\ v = a.connection.profile
          /\ Holds(a.connection.profile, a.connection.version, ks, given)
      BY <2>2 DEF Conn, Backed
    <3>2. Holds(a.connection.profile, a.connection.version, ls, next)
      BY <1>2, <3>1, HoldsLasts
    <3>3. QED
      BY <3>1, <3>2 DEF Backed
  <2>3. QED
    BY <2>1, <2>2
<1>5. ASSUME NEW u \in Tasks, ReadsOf(ls[u], r)
      PROVE  /\ ls[u].request # "connect" => a.connection = NoConnection
             /\ ls[u].request = "models" => v = ls[u].profile
  <2>1. ls[u].request = ks[u].request /\ ls[u].profile = ks[u].profile
    BY <1>1 DEF Same
  <2>2. QED
    BY <1>3, <1>5, <2>1 DEF Conn
<1>6. ASSUME NEW u \in Tasks, ReadsOf(ls[u], r), ls[u].request # "profiles",
             ls[u].answer \in {"models", "no models"}
      PROVE  Holds(ls[u].profile, ls[u].found, ls, next)
  <2>1. CASE u = t
    BY <1>1, <1>6, <2>1 DEF TellsTruth
  <2>2. CASE u # t
    <3>1. ks[u].profile \in Profiles
      BY <1>1, <1>6, <2>2 DEF ReadsOf, ClientType, Plain
    <3>2. Holds(ks[u].profile, ks[u].found, ks, given)
      BY <1>1, <1>3, <1>6, <2>2 DEF Conn
    <3>3. Holds(ks[u].profile, ks[u].found, ls, next)
      BY <1>2, <3>1, <3>2, HoldsLasts
    <3>4. QED
      BY <1>1, <2>2, <3>3
  <2>3. QED
    BY <2>1, <2>2
<1>7. \A u \in Tasks : ReadsOf(ls[u], r) => \A w \in Tasks : ReadsOf(ls[w], r) => w = u
  BY <1>3 DEF Conn
<1>8. QED
  BY <1>4, <1>5, <1>6, <1>7 DEF Conn

\* Every attempt that is left has an owner: its own one still, or the task that was answered.
LEMMA AnswerLog ==
  ASSUME NEW a, NEW r, NEW ks, NEW attempts, Log(a, r, ks, attempts), ks \in [Tasks -> TaskType],
         NEW t \in Tasks, NEW k \in TaskType, Same(ks[t], k), NEW ls, ls = [ks EXCEPT ![t] = k],
         NEW left, \A b \in left : \/ b \in attempts /\ ~Hands(ks[t], b.attempt)
                                   \/ Hands(k, b.attempt) /\ b.attempt \notin r.settled /\ b.attempt > 0
  PROVE  Log(a, r, ls, left)
<1>1. ls[t] = k /\ \A u \in Tasks : u # t => ls[u] = ks[u]
  OBVIOUS
<1>2. ASSUME NEW b \in left
      PROVE  Owner(b, a, ls) /\ b.attempt \notin r.settled /\ b.attempt > 0
  <2>1. CASE b \in attempts /\ ~Hands(ks[t], b.attempt)
    BY <1>1, <2>1 DEF Log, Owner
  <2>2. CASE Hands(k, b.attempt) /\ b.attempt \notin r.settled /\ b.attempt > 0
    BY <1>1, <2>2 DEF Owner
  <2>3. QED
    BY <2>1, <2>2
<1>3. \A u \in Tasks : ls[u].request = "login" => ls[u].login <= r.login
  BY <1>1 DEF Log, Same
<1>4. \A u \in Tasks : Mine(ls[u], r) => Mine(ks[u], r)
  BY <1>1 DEF Mine, Same
<1>5. QED
  BY <1>2, <1>3, <1>4 DEF Log

LEMMA AnswerGood ==
  ASSUME NEW a, NEW r, NEW v, NEW ks, NEW given, NEW attempts, Good(a, r, v, ks, given, attempts),
         NEW t \in Tasks, NEW k \in TaskType, Same(ks[t], k), ks[t].answer = None, ks[t].request # None,
         NEW ls, ls = [ks EXCEPT ![t] = k], NEW next, Lasts(given, next, ls),
         TellsTruth(k, ls, next),
         NEW left, \A b \in left : \/ b \in attempts /\ ~Hands(ks[t], b.attempt)
                                   \/ Hands(k, b.attempt) /\ b.attempt \notin r.settled /\ b.attempt > 0
  PROVE  Good(a, r, v, ls, next, left)
<1>1. ClientType(a, r, v, ks) /\ Conn(a, r, v, ks, given) /\ Log(a, r, ks, attempts)
      /\ ks \in [Tasks -> TaskType]
  BY DEF Good, ClientType
<1>2. ClientType(a, r, v, ls)
  BY <1>1, AnswerClient
<1>3. Conn(a, r, v, ls, next)
  BY <1>1, AnswerConn
<1>4. Log(a, r, ls, left)
  BY <1>1, AnswerLog
<1>5. QED
  BY <1>2, <1>3, <1>4 DEF Good

\* An answer of the native side, and what it does to its own state.
LEMMA AnswerKeeps ==
  ASSUME ConnectionsInv, NEW t \in Tasks, NEW k \in TaskType, Same(tasks[t], k),
         tasks[t].answer = None, tasks[t].request # None, NEW ls, ls = [tasks EXCEPT ![t] = k],
         tasks' = ls, account' = account, revisions' = revisions, saved' = saved,
         service' \in ServiceType, Numbered(service', revisions), Lasts(service.profiles, service'.profiles, ls),
         TellsTruth(k, ls, service'.profiles),
         \A b \in service'.attempts :
           \/ b \in service.attempts /\ ~Hands(tasks[t], b.attempt)
           \/ Hands(k, b.attempt) /\ b.attempt \notin revisions.settled /\ b.attempt > 0
  PROVE  ConnectionsInv'
<1>1. Good(account, revisions, saved, tasks, service.profiles, service.attempts)
  BY DEF ConnectionsInv
<1>2. Good(account, revisions, saved, ls, service'.profiles, service'.attempts)
  BY <1>1, AnswerGood
<1>3. Good(account', revisions', saved', tasks', service'.profiles, service'.attempts)
  BY <1>2
<1>4. Numbered(service', revisions')
  OBVIOUS
<1>5. QED
  BY <1>3, <1>4 DEF ConnectionsInv

\* The task an answer makes.
LEMMA AnswersIs ==
  ASSUME ConnectionsInv, NEW t \in Tasks, NEW answer \in AnswerKinds, NEW found \in Nat, Answers(t, answer, found),
         tasks[t].request # None
  PROVE  \E k \in TaskType :
           /\ Same(tasks[t], k) /\ k.answer = answer /\ k.found = found
           /\ tasks' = [tasks EXCEPT ![t] = k]
<1>1. tasks \in [Tasks -> TaskType]
  BY InvParts DEF ClientType
<1>2. PICK k : k = [tasks[t] EXCEPT !.answer = answer, !.found = found]
  OBVIOUS
<1>3. k \in TaskType /\ Same(tasks[t], k) /\ k.answer = answer /\ k.found = found
  BY <1>1, <1>2 DEF TaskType, Same
<1>4. tasks' = [tasks EXCEPT ![t] = k]
  BY <1>1, <1>2 DEF Answers, TaskType
<1>5. QED
  BY <1>3, <1>4

LEMMA ListsProfilesKeeps ==
  ASSUME ConnectionsInv, NEW t \in Tasks, ListsProfiles(t), UNCHANGED <<account, revisions, saved>>
  PROVE  ConnectionsInv'
<1>1. tasks \in [Tasks -> TaskType] /\ service \in ServiceType /\ Numbered(service, revisions)
  BY InvParts DEF ClientType
<1>2. /\ tasks[t].request = "profiles" /\ tasks[t].answer = None /\ service' = service
      /\ tasks' = [tasks EXCEPT ![t].answer = "profiles", ![t].profiles = service.profiles]
  BY DEF ListsProfiles, Unanswered
<1>3. PICK k : k = [tasks[t] EXCEPT !.answer = "profiles", !.profiles = service.profiles]
  OBVIOUS
<1>4. k \in TaskType /\ Same(tasks[t], k) /\ k.answer = "profiles"
  BY <1>1, <1>3 DEF TaskType, Same, ServiceType, AnswerKinds
<1>5. tasks' = [tasks EXCEPT ![t] = k]
  BY <1>1, <1>2, <1>3 DEF TaskType
<1>6. TellsTruth(k, tasks', service'.profiles) /\ Lasts(service.profiles, service'.profiles, tasks')
  BY <1>2, <1>4 DEF TellsTruth, Lasts
<1>7. \A b \in service'.attempts : b \in service.attempts /\ ~Hands(tasks[t], b.attempt)
  BY <1>2 DEF Hands
<1>8. tasks[t].request # None
  BY <1>2 DEF None
<1>9. QED
  BY <1>1, <1>2, <1>4, <1>5, <1>6, <1>7, <1>8, AnswerKeeps

LEMMA FailsKeeps ==
  ASSUME ConnectionsInv, NEW t \in Tasks, Fails(t), UNCHANGED <<account, revisions, saved>>
  PROVE  ConnectionsInv'
<1>1. service \in ServiceType /\ Numbered(service, revisions)
  BY InvParts
<1>2. /\ tasks[t].request \notin {None, "cancel"} /\ tasks[t].answer = None /\ service' = service
      /\ Answers(t, "failed", 0)
  BY DEF Fails
<1>3. PICK k \in TaskType : /\ Same(tasks[t], k) /\ k.answer = "failed"
                            /\ tasks' = [tasks EXCEPT ![t] = k]
  <2>1. "failed" \in AnswerKinds /\ 0 \in Nat /\ tasks[t].request # None
    BY <1>2 DEF AnswerKinds
  <2>2. QED
    BY <1>2, <2>1, AnswersIs
<1>4. TellsTruth(k, tasks', service'.profiles) /\ Lasts(service.profiles, service'.profiles, tasks')
  BY <1>2, <1>3 DEF TellsTruth, Lasts
<1>5. \A b \in service'.attempts : b \in service.attempts /\ ~Hands(tasks[t], b.attempt)
  BY <1>2 DEF Hands, None
<1>6. tasks[t].request # None
  BY <1>2
<1>7. QED
  BY <1>1, <1>2, <1>3, <1>4, <1>5, <1>6, AnswerKeeps

LEMMA ListsModelsKeeps ==
  ASSUME ConnectionsInv, NEW t \in Tasks, ListsModels(t), UNCHANGED <<account, revisions, saved>>
  PROVE  ConnectionsInv'
<1>1. service \in ServiceType /\ Numbered(service, revisions) /\ Plain(tasks[t])
  BY InvParts DEF ClientType
<1>2. /\ tasks[t].request \in {"models", "connect"} /\ tasks[t].answer = None /\ service' = service
      /\ service.profiles[tasks[t].profile].signedIn
  BY DEF ListsModels, Unanswered
<1>3. tasks[t].profile \in Profiles
  BY <1>1, <1>2 DEF Plain
<1>4. PICK n \in Nat : n = service.profiles[tasks[t].profile].version
  BY <1>1, <1>3 DEF ServiceType, Credentials, Credential
<1>5. service.profiles[tasks[t].profile] = [version |-> n, signedIn |-> TRUE]
  BY <1>1, <1>2, <1>3, <1>4 DEF ServiceType, Credentials, Credential
<1>6. PICK answer \in AnswerKinds : answer \in {"models", "no models"} /\ Answers(t, answer, n)
  BY <1>4 DEF ListsModels, AnswerKinds
<1>7. PICK k \in TaskType : /\ Same(tasks[t], k) /\ k.answer = answer /\ k.found = n
                            /\ tasks' = [tasks EXCEPT ![t] = k]
  <2>1. tasks[t].request # None
    BY <1>2 DEF None
  <2>2. Answers(t, answer, n)
    BY <1>6
  <2>3. QED
    BY <2>1, <2>2, AnswersIs
<1>8. Holds(k.profile, k.found, tasks', service'.profiles)
  BY <1>2, <1>5, <1>7 DEF Holds, Same
<1>9. TellsTruth(k, tasks', service'.profiles) /\ Lasts(service.profiles, service'.profiles, tasks')
  BY <1>2, <1>8 DEF TellsTruth, Lasts
<1>10. \A b \in service'.attempts : b \in service.attempts /\ ~Hands(tasks[t], b.attempt)
  BY <1>2 DEF Hands, None
<1>11. tasks[t].request # None
  BY <1>2 DEF None
<1>12. QED
  BY <1>1, <1>2, <1>7, <1>9, <1>10, <1>11, AnswerKeeps

LEMMA StartsLoginKeeps ==
  ASSUME ConnectionsInv, NEW t \in Tasks, StartsLogin(t), UNCHANGED <<account, revisions, saved>>
  PROVE  ConnectionsInv'
<1>1. service \in ServiceType /\ Numbered(service, revisions) /\ Plain(tasks[t]) /\ service.logins \in Nat
  BY InvParts DEF ClientType, ServiceType
<1>2. tasks[t].request = "login" /\ tasks[t].answer = None /\ Answers(t, "started", service.logins + 1)
  BY DEF StartsLogin, Unanswered
<1>3. PICK new : new = [attempt |-> service.logins + 1, profile |-> tasks[t].profile,
                        version |-> service.profiles[tasks[t].profile].version]
  OBVIOUS
<1>4. service' = [service EXCEPT !.logins = @ + 1, !.attempts = @ \cup {new}]
  BY <1>3 DEF StartsLogin
<1>5. new \in AttemptType /\ new.attempt = service.logins + 1
  BY <1>1, <1>2, <1>3 DEF Plain, AttemptType, ServiceType, Credentials, Credential
<1>6. /\ service' \in ServiceType /\ service'.logins = service.logins + 1 /\ service'.news = service.news
      /\ service'.attempts = service.attempts \cup {new} /\ service'.profiles = service.profiles
  <2>1. service.logins + 1 \in Nat /\ service.attempts \cup {new} \in SUBSET AttemptType
    BY <1>1, <1>5 DEF ServiceType
  <2>2. PICK n \in Nat : n = service.logins + 1
    BY <2>1
  <2>3. service' = [service EXCEPT !.logins = n, !.attempts = service.attempts \cup {new}]
    BY <1>4, <2>2
  <2>4. QED
    BY <1>1, <2>1, <2>2, <2>3 DEF ServiceType
<1>7. PICK k \in TaskType : /\ Same(tasks[t], k) /\ k.answer = "started" /\ k.found = service.logins + 1
                            /\ tasks' = [tasks EXCEPT ![t] = k]
  <2>1. "started" \in AnswerKinds /\ tasks[t].request # None /\ service.logins + 1 \in Nat
    BY <1>1, <1>2 DEF AnswerKinds, None
  <2>2. QED
    BY <1>2, <2>1, AnswersIs
<1>8. /\ \A b \in service.attempts : b.attempt \in Nat /\ b.attempt <= service.logins
      /\ \A n \in service.news : n.attempt \in Nat /\ n.attempt <= service.logins
      /\ \A i \in revisions.settled : i \in Nat /\ i <= service.logins
  <2>1. revisions \in RevisionsType
    BY HereIs, Names
  <2>2. QED
    BY <1>1, <2>1 DEF Numbered, ServiceType, AttemptType, NewsType, RevisionsType
<1>9. Numbered(service', revisions)
  <2>1. ASSUME NEW b \in service'.attempts
        PROVE  b.attempt <= service'.logins /\ \A c \in service'.attempts : c.attempt = b.attempt => c = b
    BY <1>1, <1>5, <1>6, <1>8 DEF Numbered
  <2>2. ASSUME NEW n \in service'.news
        PROVE  n.attempt <= service'.logins /\ \A b \in service'.attempts : b.attempt # n.attempt
    BY <1>1, <1>5, <1>6, <1>8 DEF Numbered
  <2>3. \A i \in revisions.settled : i <= service'.logins
    BY <1>1, <1>6, <1>8
  <2>4. QED
    BY <2>1, <2>2, <2>3 DEF Numbered
<1>10. TellsTruth(k, tasks', service'.profiles) /\ Lasts(service.profiles, service'.profiles, tasks')
  BY <1>6, <1>7 DEF TellsTruth, Lasts
<1>11. \A b \in service'.attempts :
         \/ b \in service.attempts /\ ~Hands(tasks[t], b.attempt)
         \/ Hands(k, b.attempt) /\ b.attempt \notin revisions.settled /\ b.attempt > 0
  <2>1. \A i : ~Hands(tasks[t], i)
    BY <1>2 DEF Hands, None
  <2>2. Hands(k, new.attempt)
    BY <1>2, <1>5, <1>7 DEF Hands, Same
  <2>3. new.attempt \notin revisions.settled /\ new.attempt > 0
    BY <1>1, <1>5, <1>8
  <2>4. QED
    BY <1>6, <2>1, <2>2, <2>3
<1>12. tasks[t].request # None
  BY <1>2 DEF None
<1>13. QED
  BY <1>2, <1>6, <1>7, <1>9, <1>10, <1>11, <1>12, AnswerKeeps

LEMMA CancelsLoginKeeps ==
  ASSUME ConnectionsInv, NEW t \in Tasks, CancelsLogin(t), UNCHANGED <<account, revisions, saved>>
  PROVE  ConnectionsInv'
<1>1. service \in ServiceType /\ Numbered(service, revisions)
  BY InvParts
<1>2. tasks[t].request = "cancel" /\ tasks[t].answer = None /\ Answers(t, "cancelled", 0)
  BY DEF CancelsLogin, Unanswered
<1>3. PICK ended : ended = {a \in service.attempts : a.attempt = tasks[t].found}
  OBVIOUS
<1>4. PICK told : told = {News(a, FALSE) : a \in ended}
  OBVIOUS
<1>5. service' = [service EXCEPT !.attempts = @ \ ended, !.news = @ \cup told]
  BY <1>3, <1>4 DEF CancelsLogin
<1>6. told \subseteq NewsType /\ \A n \in told : \E a \in ended : n.attempt = a.attempt
  <2>1. \A a \in ended : News(a, FALSE) \in NewsType /\ News(a, FALSE).attempt = a.attempt
    BY <1>1, <1>3 DEF News, NewsType, ServiceType, AttemptType
  <2>2. QED
    BY <1>4, <2>1
<1>7. /\ service' \in ServiceType /\ service'.logins = service.logins /\ service'.news = service.news \cup told
      /\ service'.attempts = service.attempts \ ended /\ service'.profiles = service.profiles
  BY <1>1, <1>5, <1>6 DEF ServiceType
<1>8. PICK k \in TaskType : /\ Same(tasks[t], k) /\ k.answer = "cancelled"
                            /\ tasks' = [tasks EXCEPT ![t] = k]
  <2>1. "cancelled" \in AnswerKinds /\ 0 \in Nat /\ tasks[t].request # None
    BY <1>2 DEF AnswerKinds, None
  <2>2. QED
    BY <1>2, <2>1, AnswersIs
<1>9. Numbered(service', revisions)
  <2>1. ASSUME NEW b \in service'.attempts
        PROVE  b.attempt <= service'.logins /\ \A c \in service'.attempts : c.attempt = b.attempt => c = b
    BY <1>1, <1>7 DEF Numbered
  <2>2. ASSUME NEW n \in service'.news
        PROVE  n.attempt <= service'.logins /\ \A b \in service'.attempts : b.attempt # n.attempt
    <3>1. CASE n \in service.news
      BY <1>1, <1>7, <3>1 DEF Numbered
    <3>2. CASE n \in told
      BY <1>1, <1>3, <1>6, <1>7, <3>2 DEF Numbered
    <3>3. QED
      BY <1>7, <3>1, <3>2
  <2>3. \A i \in revisions.settled : i <= service'.logins
    BY <1>1, <1>7 DEF Numbered
  <2>4. QED
    BY <2>1, <2>2, <2>3 DEF Numbered
<1>10. TellsTruth(k, tasks', service'.profiles) /\ Lasts(service.profiles, service'.profiles, tasks')
  BY <1>7, <1>8 DEF TellsTruth, Lasts
<1>11. \A b \in service'.attempts : b \in service.attempts /\ ~Hands(tasks[t], b.attempt)
  BY <1>3, <1>7 DEF Hands
<1>12. tasks[t].request # None
  BY <1>2 DEF None
<1>13. QED
  BY <1>2, <1>7, <1>8, <1>9, <1>10, <1>11, <1>12, AnswerKeeps

LEMMA ChangesProfileKeeps ==
  ASSUME ConnectionsInv, NEW t \in Tasks, ChangesProfile(t), UNCHANGED <<account, revisions, saved>>
  PROVE  ConnectionsInv'
<1>1. service \in ServiceType /\ Numbered(service, revisions) /\ Plain(tasks[t])
  BY InvParts DEF ClientType
<1>2. /\ tasks[t].request \in {"logout", "forget", "save"} /\ tasks[t].answer = None
      /\ Answers(t, "done", 0)
  BY DEF ChangesProfile, Unanswered
<1>3. tasks[t].profile \in Profiles /\ tasks[t].request # None
  BY <1>1, <1>2, Names DEF Plain
<1>4. PICK signedIn \in BOOLEAN :
        service' = [service EXCEPT !.profiles[tasks[t].profile] = [version |-> @.version + 1, signedIn |-> signedIn]]
  BY DEF ChangesProfile
<1>5. /\ service' \in ServiceType /\ service'.logins = service.logins /\ service'.news = service.news
      /\ service'.attempts = service.attempts
  <2>1. PICK c : c = [version |-> service.profiles[tasks[t].profile].version + 1, signedIn |-> signedIn]
    OBVIOUS
  <2>2. c \in Credential
    BY <1>1, <1>3, <2>1 DEF ServiceType, Credentials, Credential
  <2>3. [service.profiles EXCEPT ![tasks[t].profile] = c] \in Credentials
    BY <1>1, <2>2 DEF ServiceType, Credentials
  <2>4. service' = [service EXCEPT !.profiles = [service.profiles EXCEPT ![tasks[t].profile] = c]]
    BY <1>4, <2>1
  <2>5. QED
    BY <1>1, <2>3, <2>4 DEF ServiceType
<1>6. PICK k \in TaskType : /\ Same(tasks[t], k) /\ k.answer = "done"
                            /\ tasks' = [tasks EXCEPT ![t] = k]
  <2>1. "done" \in AnswerKinds /\ 0 \in Nat
    BY DEF AnswerKinds
  <2>2. QED
    BY <1>2, <1>3, <2>1, AnswersIs
<1>7. Awaited(tasks')
  <2>1. tasks'[t] = k
    BY <1>6, InvParts DEF ClientType
  <2>2. Changer(k)
    BY <1>2, <1>6 DEF Changer, Same
  <2>3. QED
    BY <2>1, <2>2 DEF Awaited
<1>8. TellsTruth(k, tasks', service'.profiles) /\ Lasts(service.profiles, service'.profiles, tasks')
  BY <1>6, <1>7 DEF TellsTruth, Lasts
<1>9. \A b \in service'.attempts : b \in service.attempts /\ ~Hands(tasks[t], b.attempt)
  BY <1>2, <1>5 DEF Hands, None
<1>10. Numbered(service', revisions)
  BY <1>1, <1>5 DEF Numbered
<1>11. QED
  BY <1>2, <1>3, <1>5, <1>6, <1>8, <1>9, <1>10, AnswerKeeps

LEMMA LoginEndsKeeps ==
  ASSUME ConnectionsInv, LoginEnds, UNCHANGED <<account, revisions, saved>>
  PROVE  ConnectionsInv'
<1>1. /\ service \in ServiceType /\ Numbered(service, revisions) /\ tasks' = tasks
      /\ service.profiles \in Credentials
  BY InvParts DEF LoginEnds, ServiceType
<1>2. PICK a \in service.attempts, success \in BOOLEAN :
        service' = [service EXCEPT !.attempts = @ \ {a}, !.news = @ \cup {News(a, success)},
                                   !.profiles[a.profile].signedIn = @ \/ success]
  BY DEF LoginEnds
<1>3. a \in AttemptType /\ a.profile \in Profiles
  BY <1>1 DEF ServiceType, AttemptType
<1>4. News(a, success) \in NewsType /\ News(a, success).attempt = a.attempt
  BY <1>3 DEF News, NewsType, AttemptType
<1>5. PICK n : n = News(a, success)
  OBVIOUS
<1>6. PICK g : g = service.profiles[a.profile]
  OBVIOUS
<1>7. g \in Credential /\ g.signedIn \in BOOLEAN
  BY <1>1, <1>3, <1>6 DEF Credentials, Credential
<1>8. PICK b \in BOOLEAN : b = (g.signedIn \/ success) /\ (g.signedIn => b)
  <2>1. (g.signedIn \/ success) \in BOOLEAN
    OBVIOUS
  <2>2. QED
    BY <2>1
<1>9. PICK c : c = [g EXCEPT !.signedIn = b]
  OBVIOUS
<1>10. c \in Credential /\ (g.signedIn => c = g)
  <2>1. c \in Credential
    BY <1>7, <1>8, <1>9 DEF Credential
  <2>2. ASSUME g.signedIn PROVE c = g
    <3>1. b = TRUE /\ g.signedIn = TRUE
      BY <1>7, <1>8, <2>2
    <3>2. QED
      BY <1>7, <1>9, <3>1 DEF Credential
  <2>3. QED
    BY <2>1, <2>2
<1>11. PICK next : next = [service.profiles EXCEPT ![a.profile] = c]
  OBVIOUS
<1>12. next \in Credentials
  BY <1>1, <1>10, <1>11 DEF Credentials
<1>13. service' = [service EXCEPT !.attempts = @ \ {a}, !.news = @ \cup {n}, !.profiles = next]
  BY <1>2, <1>5, <1>6, <1>8, <1>9, <1>11
<1>14. /\ service' \in ServiceType /\ service'.logins = service.logins /\ service'.profiles = next
       /\ service'.attempts = service.attempts \ {a} /\ service'.news = service.news \cup {n}
  BY <1>1, <1>4, <1>5, <1>12, <1>13 DEF ServiceType
<1>15. Lasts(service.profiles, next, tasks)
  <2>1. \A p \in Profiles : next[p] = IF p = a.profile THEN c ELSE service.profiles[p]
    BY <1>1, <1>11 DEF Credentials
  <2>2. QED
    BY <1>6, <1>10, <2>1 DEF Lasts
<1>16. Numbered(service', revisions)
  <2>1. ASSUME NEW d \in service'.attempts
        PROVE  d.attempt <= service'.logins /\ \A e \in service'.attempts : e.attempt = d.attempt => e = d
    BY <1>1, <1>14 DEF Numbered
  <2>2. ASSUME NEW m \in service'.news
        PROVE  m.attempt <= service'.logins /\ \A d \in service'.attempts : d.attempt # m.attempt
    <3>1. CASE m \in service.news
      BY <1>1, <1>14, <3>1 DEF Numbered
    <3>2. CASE m = n
      BY <1>1, <1>2, <1>4, <1>5, <1>14, <3>2 DEF Numbered
    <3>3. QED
      BY <1>14, <3>1, <3>2
  <2>3. \A i \in revisions.settled : i <= service'.logins
    BY <1>1, <1>14 DEF Numbered
  <2>4. QED
    BY <2>1, <2>2, <2>3 DEF Numbered
<1>17. Good(account, revisions, saved, tasks, next, service'.attempts)
  <2>1. Backed(account, saved, tasks, next)
    <3>1. CASE account.connection = NoConnection
      BY <3>1 DEF Backed
    <3>2. CASE account.connection # NoConnection
      <4>1. /\ account.connection.profile \in Profiles /\ saved = account.connection.profile
            /\ Holds(account.connection.profile, account.connection.version, tasks, service.profiles)
        BY <3>2, InvParts DEF Conn, Backed
      <4>2. Carries(tasks, tasks)
        BY DEF Carries
      <4>3. Holds(account.connection.profile, account.connection.version, tasks, next)
        BY <1>15, <4>1, <4>2, HoldsLasts
      <4>4. QED
        BY <4>1, <4>3 DEF Backed
    <3>3. QED
      BY <3>1, <3>2
  <2>2. ASSUME NEW t \in Tasks, ReadsOf(tasks[t], revisions), tasks[t].request # "profiles",
               tasks[t].answer \in {"models", "no models"}
        PROVE  Holds(tasks[t].profile, tasks[t].found, tasks, next)
    <3>1. tasks[t].profile \in Profiles
      BY <2>2, InvParts DEF ReadsOf, ClientType, Plain
    <3>2. Holds(tasks[t].profile, tasks[t].found, tasks, service.profiles)
      BY <2>2, InvParts DEF Conn
    <3>3. Carries(tasks, tasks)
      BY DEF Carries
    <3>4. QED
      BY <1>15, <3>1, <3>2, <3>3, HoldsLasts
  <2>3. Conn(account, revisions, saved, tasks, next)
    BY <2>1, <2>2, InvParts DEF Conn
  <2>4. Log(account, revisions, tasks, service'.attempts)
    BY <1>14, InvParts DEF Log
  <2>5. QED
    BY <2>3, <2>4, InvParts DEF Good
<1>18. QED
  BY <1>1, <1>14, <1>16, <1>17 DEF ConnectionsInv

LEMMA NativeKeeps == ASSUME ConnectionsInv, Native PROVE ConnectionsInv'
<1>1. UNCHANGED <<account, revisions, saved>>
  BY DEF Native
<1>2. \/ LoginEnds
      \/ \E t \in Tasks : \/ ListsProfiles(t) \/ StartsLogin(t) \/ CancelsLogin(t) \/ ChangesProfile(t)
                          \/ ListsModels(t) \/ Fails(t)
  BY DEF Native
<1>3. CASE LoginEnds
  BY <1>1, <1>3, LoginEndsKeeps
<1>4. ASSUME NEW t \in Tasks, \/ ListsProfiles(t) \/ StartsLogin(t) \/ CancelsLogin(t) \/ ChangesProfile(t)
                              \/ ListsModels(t) \/ Fails(t)
      PROVE  ConnectionsInv'
  BY <1>1, <1>4, ListsProfilesKeeps, StartsLoginKeeps, CancelsLoginKeeps, ChangesProfileKeeps,
     ListsModelsKeeps, FailsKeeps
<1>5. QED
  BY <1>2, <1>3, <1>4

LEMMA InitHolds == ASSUME ConnectionsInit PROVE ConnectionsInv
<1>1. Unknown \in Credentials /\ NoConnection \in [profile : Maybe, version : Nat] /\ None \in Maybe
  BY Names DEF Unknown, Credentials, Credential, Maybe
<1>2. account \in AccountType /\ account.connection = NoConnection /\ ~account.pending /\ account.attempt = 0
  BY <1>1 DEF ConnectionsInit, AccountType
<1>3. /\ revisions \in RevisionsType /\ revisions.revision = 1 /\ revisions.login = 0 /\ revisions.settled = {}
      /\ saved \in SavedType
  BY <1>1 DEF ConnectionsInit, RevisionsType, SavedType
<1>4. PICK first : first = [NoTask EXCEPT !.request = "profiles", !.then = "end", !.revision = 1]
  OBVIOUS
<1>5. /\ first \in TaskType /\ first.request = "profiles" /\ first.answer = None /\ first.then = "end"
      /\ first.revision = 1
  BY <1>4, Names DEF TaskType, TaskRequests, Followed
<1>6. tasks = [t \in Tasks |-> IF t = 1 THEN first ELSE NoTask]
  BY <1>4 DEF ConnectionsInit
<1>7. Plain(first)
  BY <1>5 DEF Plain, None
<1>8. \A t \in Tasks : Plain(tasks[t]) /\ tasks[t].revision <= 1
  BY <1>5, <1>6, <1>7, Names
<1>9. tasks \in [Tasks -> TaskType]
  BY <1>5, <1>6, Names
<1>10. ClientType(account, revisions, saved, tasks)
  BY <1>2, <1>3, <1>8, <1>9 DEF ClientType
<1>11. /\ service \in ServiceType /\ service.attempts = {} /\ service.news = {}
  <2>1. PICK signed \in SUBSET Profiles :
          service = [profiles |-> [p \in Profiles |-> [version |-> 1, signedIn |-> p \in signed]],
                     attempts |-> {}, news |-> {}, running |-> TRUE, logins |-> 0]
    BY DEF ConnectionsInit
  <2>2. [p \in Profiles |-> [version |-> 1, signedIn |-> p \in signed]] \in Credentials
    BY DEF Credentials, Credential
  <2>3. QED
    BY <2>1, <2>2 DEF ServiceType
<1>12. \A t \in Tasks : /\ tasks[t].request \notin {"models", "connect", "login"}
                        /\ ReadsOf(tasks[t], revisions) => t = 1
  BY <1>5, <1>6, Names DEF ReadsOf
<1>13. Conn(account, revisions, saved, tasks, service.profiles)
  BY <1>2, <1>12 DEF Conn, Backed, ReadsOf
<1>14. Log(account, revisions, tasks, service.attempts)
  BY <1>11, <1>12 DEF Log, Mine
<1>15. Numbered(service, revisions)
  BY <1>3, <1>11 DEF Numbered
<1>16. QED
  BY <1>10, <1>11, <1>13, <1>14, <1>15 DEF ConnectionsInv, Good

-----------------------------------------------------------------------------
(* The theorems.                                                           *)

\* In every reachable state: the client and the native side have their types, the connection
\* and the one answer that may still replace it are of the credentials as they are or a
\* refresh is bound to follow, and every browser login that waits is shown or about to be
\* shown or cancelled (src/harness/connections.ts with auth.rs).
THEOREM ConnectionsInvariant == ConnectionsSpec => []ConnectionsInv
<1>1. ConnectionsInit => ConnectionsInv
  BY InitHolds
<1>2. ASSUME ConnectionsInv, [ConnectionsNext]_connectionVars
      PROVE  ConnectionsInv'
  <2>1. CASE UNCHANGED connectionVars
    BY <1>2, <2>1 DEF ConnectionsInv, connectionVars
  <2>2. CASE ConnectionsNext
    BY <1>2, <2>2, ConnectOpKeeps, ForgetOpKeeps, LoginOpKeeps, CancelLoginOpKeeps, LogoutOpKeeps,
       ProceedKeeps, AuthChangedKeeps, OutageKeeps, RestartedKeeps, NativeKeeps DEF ConnectionsNext
  <2>3. QED
    BY <1>2, <2>1, <2>2
<1>3. QED
  BY <1>1, <1>2, PTL DEF ConnectionsSpec

\* Once nothing is on its way, requests would use the credentials their profile has now, of
\* the one profile the user activated, whatever refreshes, connects, logins, logouts, failures
\* and restarts of the native process overlapped (src/harness/connections.ts).
THEOREM ConnectionStaysCurrent == ConnectionsSpec => []ConnectionIsCurrent
<1>1. ASSUME ConnectionsInv PROVE ConnectionIsCurrent
  <2>1. SUFFICES ASSUME Quiet, account.connection # NoConnection
                 PROVE  /\ service.profiles[account.connection.profile] =
                             [version |-> account.connection.version, signedIn |-> TRUE]
                        /\ saved = account.connection.profile
    BY DEF ConnectionIsCurrent
  <2>2. ~Awaited(tasks)
    BY <2>1, NothingHandedYet DEF Quiet, Awaited
  <2>3. Backed(account, saved, tasks, service.profiles)
    BY <1>1, InvParts DEF Conn
  <2>4. QED
    BY <2>1, <2>2, <2>3 DEF Backed, Holds
<1>2. QED
  BY <1>1, ConnectionsInvariant, PTL

\* Once nothing is on its way, a browser login that still waits for the user is the one the
\* settings show: no withdrawn attempt is left behind in the native side
\* (src/harness/connections.ts, auth.rs).
THEOREM LoginsStayOwned == ConnectionsSpec => []LoginsAreOwned
<1>1. ASSUME ConnectionsInv PROVE LoginsAreOwned
  <2>1. SUFFICES ASSUME Quiet, NEW a \in service.attempts
                 PROVE  a.attempt = account.attempt /\ account.pending
    BY DEF LoginsAreOwned
  <2>2. \A t \in Tasks : ~Hands(tasks[t], a.attempt)
    BY <2>1, NothingHandedYet DEF Quiet
  <2>3. Owner(a, account, tasks)
    BY <1>1, InvParts DEF Log
  <2>4. QED
    BY <2>2, <2>3 DEF Owner
<1>2. QED
  BY <1>1, ConnectionsInvariant, PTL

-----------------------------------------------------------------------------
(* Workspace                                                               *)

-----------------------------------------------------------------------------
(* The state of the workspace.                                             *)

Scene     == [of : CanvasIds \cup {NoCanvas}, edit : Nat, meant : CanvasIds \cup {NoCanvas}]
Meta      == [version : Nat, canvases : Seq(CanvasIds)]
StoreType ==
  [metas : [Folders -> Meta], scenes : [CanvasIds -> Scene], talks : [Folders -> Seq(Nat)], deleted : SUBSET Nat]
ProjectType ==
  [folder : Folders \cup {Nowhere}, canvases : Seq(CanvasIds), talks : Seq(Nat), talk : Nat,
   canvas : CanvasIds \cup {NoCanvas}]
Commands == {"select canvas", "new canvas", "delete canvas", "select talk", "new talk", "delete talk", "open"}
Awaits   == {"scene kept", "scene read", "meta kept", "opened", "migrated", "listed", "talk deleted",
             "talk created", "talk selected", "removed"}
OpType ==
  [kind : Commands \cup {"none"}, at : Awaits \cup {"none"}, ok : BOOLEAN, target : Nat, place : Nat,
   folder : Folders \cup {Nowhere}, scene : Scene]
UsageType ==
  [commands : Nat, edits : Nat, breaks : Nat, canvases : Nat, talks : Nat, drawn : [CanvasIds -> Nat]]
StateType ==
  [store : StoreType, project : ProjectType, screen : Scene, op : OpType, saving : {"none", "scene", "meta"},
   usage : UsageType]
ImportType ==
  [at : {"none", "imported", "listed", "selected"}, ok : BOOLEAN, canvas : CanvasIds \cup {NoCanvas},
   talk : Nat, listed : Seq(Nat), crossed : BOOLEAN]

\* What the user drew is in the files of the canvases that are not on screen, and on the
\* screen for the one that is.
DrawnKept(s) == \A c \in CanvasIds : s.store.scenes[c].edit >= s.usage.drawn[c]
Numbers(s) ==
  /\ \A c \in CanvasIds : s.store.scenes[c].edit <= s.usage.edits /\ s.usage.drawn[c] <= s.usage.edits
  /\ s.screen.edit <= s.usage.edits /\ s.op.scene.edit <= s.usage.edits
OnScreen(s) ==
  s.project.canvas # NoCanvas =>
    s.screen.of = s.project.canvas /\ s.screen.edit >= s.usage.drawn[s.project.canvas]
InFiles(s) ==
  \A c \in CanvasIds :
    /\ c # s.project.canvas => s.store.scenes[c].edit >= s.usage.drawn[c]
    /\ s.store.scenes[c] = NoScene \/ s.store.scenes[c].of = c
Sound(s) == s \in StateType /\ Numbers(s) /\ OnScreen(s) /\ InFiles(s)

\* What is on screen is what is in the files, as far as no call failed; and the
\* conversations are those of the harness, if q: if no import disturbs them.
Fine(s)        == s.usage.breaks = 0
Chats(s, q)    == Fine(s) /\ q
CanvasShown(s) == s.project.canvas \in Range(s.project.canvases)
Recorded(s)    == s.store.metas[s.project.folder] = [version |-> 2, canvases |-> s.project.canvases]
TalksListed(s) == s.project.talks = s.store.talks[s.project.folder]
TalkChosen(s)  == s.project.talk \in Range(s.project.talks)
IsOpen(s)      == s.project.folder # Nowhere
Settled(s, q) ==
  /\ Fine(s) /\ IsOpen(s) => CanvasShown(s) /\ Recorded(s)
  /\ Chats(s, q) /\ IsOpen(s) => TalksListed(s) /\ TalkChosen(s)

\* What a transition may rely on at each of its awaits.
Room(s)    == s.usage.canvases < MaxCanvas
Opening(s, q) == s.op.kind = "open" /\ s.op.place = 0 /\ Room(s) /\ s.op.folder \in Folders /\ Settled(s, q)
Erased(s)  == s.op.target \in CanvasIds /\ s.usage.drawn[s.op.target] = 0
Selecting(s) == s.op.kind = "select canvas" /\ s.op.target \in Range(s.project.canvases)
Adding(s)    == s.op.kind = "new canvas" /\ Room(s)
Entered(s)   == s.op.kind = "open" /\ s.op.folder = s.project.folder /\ Room(s) /\ DrawnKept(s)

AtSceneKept(s, q) ==
  /\ s.op.ok => DrawnKept(s)
  /\ Settled(s, q)
  /\ Opening(s, q) \/ ((Selecting(s) \/ Adding(s)) /\ IsOpen(s))
AtSceneRead(s, q) ==
  /\ DrawnKept(s) /\ IsOpen(s)
  /\ s.op.place \in Range(s.project.canvases)
  /\ s.op.scene.of = s.op.place /\ s.op.scene.edit >= s.usage.drawn[s.op.place]
  /\ Chats(s, q) => TalksListed(s) /\ TalkChosen(s)
  /\ \/ s.op.kind = "new canvas"
     \/ s.op.kind = "delete canvas" /\ Erased(s)
     \/ s.op.kind = "select canvas" /\ (Fine(s) => Recorded(s))
     \/ /\ s.op.kind = "open" /\ s.op.folder = s.project.folder
        /\ Fine(s) => Recorded(s) \/ s.store.metas[s.project.folder].canvases = <<>>
AtMetaKept(s, q) ==
  /\ Settled(s, q)
  /\ \/ Opening(s, q) /\ DrawnKept(s)
     \/ s.op.kind = "open" /\ s.op.place # 0
     \/ s.op.kind \in {"new canvas", "delete talk"}
     \/ s.op.kind = "delete canvas" /\ Erased(s)
AtOpened(s, q) == Opening(s, q) /\ DrawnKept(s)
AtListed(s, q) == Opening(s, q) /\ DrawnKept(s) /\ (Fine(s) => s.store.metas[s.op.folder].version = 2)
AtTalkDeleted(s, q) ==
  /\ s.op.kind = "delete talk" /\ IsOpen(s) /\ s.op.place > 0
  /\ Fine(s) => CanvasShown(s) /\ Recorded(s)
  /\ Chats(s, q) =>
       /\ TalkChosen(s)
       /\ Range(s.project.talks) \ {s.op.target} \subseteq Range(s.store.talks[s.project.folder])
AtTalkCreated(s, q) ==
  /\ IsOpen(s)
  /\ Fine(s) => Recorded(s)
  /\ Chats(s, q) => s.op.place \in Range(s.store.talks[s.project.folder])
  /\ \/ Entered(s)
     \/ s.op.kind \in {"new talk", "delete talk"} /\ (Fine(s) => CanvasShown(s))
AtTalkSelected(s, q) ==
  /\ IsOpen(s)
  /\ Fine(s) => Recorded(s)
  /\ Chats(s, q) => TalksListed(s) /\ s.op.place \in Range(s.project.talks)
  /\ \/ Entered(s)
     \/ s.op.kind \in {"new talk", "delete talk", "select talk"} /\ (Fine(s) => CanvasShown(s))
AtRemoved(s, q) == Settled(s, q)

Parked(s, q) ==
  /\ Fine(s) => s.op.ok
  /\ \/ s.op.at = "scene kept" /\ AtSceneKept(s, q)
     \/ s.op.at = "scene read" /\ AtSceneRead(s, q)
     \/ s.op.at = "meta kept" /\ AtMetaKept(s, q)
     \/ s.op.at \in {"opened", "migrated"} /\ AtOpened(s, q)
     \/ s.op.at = "listed" /\ AtListed(s, q)
     \/ s.op.at = "talk deleted" /\ AtTalkDeleted(s, q)
     \/ s.op.at = "talk created" /\ AtTalkCreated(s, q)
     \/ s.op.at = "talk selected" /\ AtTalkSelected(s, q)
     \/ s.op.at = "removed" /\ AtRemoved(s, q)
Ready(s, q) == (s.op = NoOp /\ Settled(s, q)) \/ Parked(s, q)

\* An import no command was given beside finds the workspace as it was.
Importing(s, i) ==
  /\ s.op = NoOp /\ IsOpen(s)
  /\ Fine(s) => i.ok /\ CanvasShown(s) /\ Recorded(s)
  /\ Fine(s) =>
       \/ i.at = "imported" /\ i.talk \in Range(s.store.talks[s.project.folder])
       \/ i.at = "listed" /\ i.listed = s.store.talks[s.project.folder] /\ i.talk \in Range(i.listed)
       \/ i.at = "selected" /\ TalksListed(s) /\ i.talk \in Range(s.project.talks)

Undisturbed(i)   == i.at = "none" /\ ~i.crossed
Waiting(i) == i.at # "none" /\ ~i.crossed
WorkspaceInv ==
  /\ Sound(Now) /\ import \in ImportType
  /\ Ready(Now, Undisturbed(import))
  /\ Waiting(import) => Importing(Now, import)

-----------------------------------------------------------------------------
(* Lists.                                                                  *)

\* A member of a list is at one of its places,
LEMMA Members ==
  ASSUME NEW S, NEW seq \in Seq(S), NEW x \in Range(seq)
  PROVE  x \in S /\ \E i \in 1..Len(seq) : seq[i] = x
<1>1. PICK i \in DOMAIN seq : x = seq[i]
  BY DEF Range
<1>2. DOMAIN seq = 1..Len(seq) /\ seq \in [1..Len(seq) -> S]
  OBVIOUS
<1>3. QED
  BY <1>1, <1>2

\* and what is at a place is a member.
LEMMA MemberAt ==
  ASSUME NEW S, NEW seq \in Seq(S), NEW i \in 1..Len(seq)
  PROVE  seq[i] \in Range(seq) /\ seq[i] \in S
<1>1. DOMAIN seq = 1..Len(seq) /\ seq \in [1..Len(seq) -> S]
  OBVIOUS
<1>2. QED
  BY <1>1 DEF Range

\* A list that grew holds what it held, and what was added.
LEMMA Appended ==
  ASSUME NEW S, NEW seq \in Seq(S), NEW x \in S, NEW more, more = Append(seq, x)
  PROVE  more \in Seq(S) /\ x \in Range(more) /\ \A y \in Range(seq) : y \in Range(more)
<1>1. /\ more \in Seq(S) /\ Len(more) = Len(seq) + 1 /\ more[Len(seq) + 1] = x /\ Len(seq) \in Nat
      /\ \A i \in 1..Len(seq) : more[i] = seq[i]
  OBVIOUS
<1>2. Len(seq) + 1 \in 1..Len(more)
  BY <1>1
<1>3. x \in Range(more)
  BY <1>1, <1>2, MemberAt
<1>4. ASSUME NEW y \in Range(seq) PROVE y \in Range(more)
  <2>1. PICK i \in 1..Len(seq) : seq[i] = y
    BY Members
  <2>2. i \in 1..Len(more) /\ more[i] = y
    BY <1>1, <2>1
  <2>3. QED
    BY <1>1, <2>2, MemberAt
<1>5. QED
  BY <1>1, <1>3, <1>4

\* What activates the first of a list, or the one that takes the place of a removed one.
LEMMA FirstOf ==
  ASSUME NEW S, NEW seq \in Seq(S), seq # <<>>
  PROVE  seq[1] \in Range(seq) /\ seq[1] \in S
<1>1. 1 \in 1..Len(seq)
  OBVIOUS
<1>2. QED
  BY <1>1, MemberAt

LEMMA RemainingOf ==
  ASSUME NEW S, NEW seq \in Seq(S), seq # <<>>, NEW place \in Nat, place > 0
  PROVE  Remaining(seq, place) \in Range(seq) /\ Remaining(seq, place) \in S
<1>1. (IF place <= Len(seq) THEN place ELSE Len(seq)) \in 1..Len(seq)
  OBVIOUS
<1>2. QED
  BY <1>1, MemberAt DEF Remaining

\* The place of a member.
LEMMA IndexOf ==
  ASSUME NEW S, NEW seq \in Seq(S), NEW x \in Range(seq)
  PROVE  /\ IndexIn(seq, x) \in 1..Len(seq) /\ seq[IndexIn(seq, x)] = x
         /\ IndexIn(seq, x) \in Nat /\ IndexIn(seq, x) > 0
<1>1. DOMAIN seq = 1..Len(seq)
  OBVIOUS
<1>2. \E i \in DOMAIN seq : seq[i] = x
  BY <1>1, Members
<1>3. QED
  BY <1>1, <1>2 DEF IndexIn

\* What is left of a list without one of its members.
LEMMA WithoutOf ==
  ASSUME NEW S, NEW seq \in Seq(S), NEW x, NEW less, less = Without(seq, x)
  PROVE  less \in Seq(S) /\ \A y \in Range(seq) : y # x => y \in Range(less)
<1>1. CASE x \notin Range(seq)
  BY <1>1 DEF Without
<1>2. CASE x \in Range(seq)
  <2>1. PICK i \in 1..Len(seq) : i = IndexIn(seq, x) /\ seq[i] = x
    BY <1>2, IndexOf
  <2>2. PICK n \in Nat : n = Len(seq)
    OBVIOUS
  <2>3. PICK front : front = SubSeq(seq, 1, i - 1)
    OBVIOUS
  <2>4. PICK back : back = SubSeq(seq, i + 1, n)
    OBVIOUS
  <2>5. less = front \o back
    BY <1>2, <2>1, <2>2, <2>3, <2>4 DEF Without, RemoveAt
  <2>6. front \in Seq(S) /\ Len(front) = i - 1 /\ \A j \in 1..i-1 : front[j] = seq[j]
    BY <2>1, <2>2, <2>3
  <2>7. back \in Seq(S) /\ Len(back) = n - i /\ \A j \in 1..n-i : back[j] = seq[j + i]
    BY <2>1, <2>2, <2>4
  <2>8. /\ less \in Seq(S) /\ Len(less) = n - 1 /\ \A j \in 1..i-1 : less[j] = seq[j]
        /\ \A j \in i..n-1 : less[j] = seq[j + 1]
    <3>1. less \in Seq(S) /\ Len(less) = n - 1
      BY <2>1, <2>2, <2>5, <2>6, <2>7
    <3>2. \A j \in 1..i-1 : less[j] = seq[j]
      BY <2>1, <2>2, <2>5, <2>6, <2>7
    <3>3. ASSUME NEW j \in i..n-1 PROVE less[j] = seq[j + 1]
      <4>1. PICK m \in 1..n-i : m = j - (i - 1)
        BY <2>1, <2>2, <3>3
      <4>2. less[j] = back[j - Len(front)]
        <5>1. /\ front \in Seq(S) /\ back \in Seq(S) /\ less = front \o back
              /\ j \in Len(front) + 1 .. Len(front) + Len(back)
          BY <2>1, <2>2, <2>5, <2>6, <2>7, <3>3
        <5>2. QED
          BY <5>1
      <4>3. back[m] = seq[m + i]
        BY <2>7
      <4>4. m = j - Len(front) /\ m + i = j + 1
        BY <2>1, <2>2, <2>6, <3>3, <4>1
      <4>5. QED
        BY <4>2, <4>3, <4>4
    <3>4. QED
      BY <3>1, <3>2, <3>3
  <2>9. ASSUME NEW y \in Range(seq), y # x PROVE y \in Range(less)
    <3>1. PICK j \in 1..n : seq[j] = y
      BY <2>2, Members
    <3>2. j # i
      BY <2>1, <2>9, <3>1
    <3>3. CASE j < i
      <4>1. j \in 1..Len(less) /\ less[j] = y
        BY <2>1, <2>2, <2>8, <3>1, <3>3
      <4>2. QED
        BY <2>8, <4>1, MemberAt
    <3>4. CASE j > i
      <4>1. PICK k \in i..n-1 : k + 1 = j
        BY <2>1, <2>2, <3>1, <3>4
      <4>2. k \in 1..Len(less) /\ less[k] = y
        <5>1. less[k] = seq[k + 1] /\ seq[k + 1] = y
          BY <2>8, <3>1, <4>1
        <5>2. k \in 1..Len(less)
          BY <2>1, <2>2, <2>8, <4>1
        <5>3. QED
          BY <5>1, <5>2
      <4>3. QED
        BY <2>8, <4>2, MemberAt
    <3>5. QED
      BY <2>1, <2>2, <3>1, <3>2, <3>3, <3>4
  <2>10. QED
    BY <2>8, <2>9
<1>3. QED
  BY <1>1, <1>2

-----------------------------------------------------------------------------
(* What the calls make of the state.                                       *)

\* The constants of the model.
LEMMA ThingsAreTyped ==
  /\ NoCanvas \notin CanvasIds /\ CanvasIds \subseteq Nat /\ Unselected \in Nat /\ MaxCanvas \in Nat
  /\ NoScene \in Scene /\ NoScene.edit = 0 /\ NoOp \in OpType /\ NoOp.scene = NoScene /\ NoOp.at = "none"
  /\ NoOp.ok = TRUE /\ NoOp.place = 0 /\ NoOp.folder = Nowhere
<1>1. NoCanvas \notin CanvasIds /\ CanvasIds \subseteq Nat /\ MaxCanvas \in Nat
  BY CanvasesAssumption DEF CanvasIds, NoCanvas
<1>2. Unselected \in Nat
  BY CommandsAssumption DEF Unselected
<1>3. NoScene \in Scene /\ NoScene.edit = 0
  BY DEF NoScene, Scene
<1>4. NoOp \in OpType
  BY <1>3 DEF NoOp, OpType
<1>5. NoOp.scene = NoScene /\ NoOp.at = "none" /\ NoOp.ok = TRUE /\ NoOp.place = 0 /\ NoOp.folder = Nowhere
  BY DEF NoOp
<1>6. QED
  BY <1>1, <1>2, <1>3, <1>4, <1>5

\* x is s, parked at an await.
Waits(x, s, at, ok) ==
  /\ x.store = s.store /\ x.project = s.project /\ x.screen = s.screen /\ x.usage = s.usage /\ x.saving = s.saving
  /\ x.op.at = at /\ x.op.ok = ok
  /\ x.op.kind = s.op.kind /\ x.op.target = s.op.target /\ x.op.place = s.op.place
  /\ x.op.folder = s.op.folder /\ x.op.scene = s.op.scene

\* Await, EndOp and Broken: what they change, and that they keep the types.
LEMMA AwaitIs ==
  ASSUME NEW s \in StateType, NEW at \in Awaits, NEW ok \in BOOLEAN, NEW x, x = Await(s, at, ok)
  PROVE  x \in StateType /\ Waits(x, s, at, ok)
<1>1. PICK o : o = [s.op EXCEPT !.at = at, !.ok = ok]
  OBVIOUS
<1>2. /\ o \in OpType /\ o.at = at /\ o.ok = ok /\ o.kind = s.op.kind /\ o.target = s.op.target
      /\ o.place = s.op.place /\ o.folder = s.op.folder /\ o.scene = s.op.scene
  BY <1>1 DEF OpType, StateType
<1>3. x = [s EXCEPT !.op = o]
  BY <1>1 DEF Await, StateType
<1>4. QED
  BY <1>2, <1>3 DEF StateType, Waits

LEMMA EndOpIs ==
  ASSUME NEW s \in StateType, NEW x, x = EndOp(s)
  PROVE  /\ x \in StateType /\ x.store = s.store /\ x.project = s.project /\ x.screen = s.screen
         /\ x.usage = s.usage /\ x.saving = s.saving /\ x.op = NoOp
  BY ThingsAreTyped DEF EndOp, StateType

LEMMA BrokenIs ==
  ASSUME NEW s \in StateType, NEW ok \in BOOLEAN, NEW x, x = Broken(s, ok)
  PROVE  /\ x \in StateType /\ x.store = s.store /\ x.project = s.project /\ x.screen = s.screen
         /\ x.op = s.op /\ x.saving = s.saving
         /\ x.usage.drawn = s.usage.drawn /\ x.usage.edits = s.usage.edits
         /\ x.usage.canvases = s.usage.canvases /\ x.usage.talks = s.usage.talks
         /\ Fine(x) => ok /\ Fine(s)
<1>1. CASE ok
  BY <1>1 DEF Broken
<1>2. CASE ~ok
  <2>1. PICK u : u = [s.usage EXCEPT !.breaks = @ + 1]
    OBVIOUS
  <2>2. /\ u \in UsageType /\ u.drawn = s.usage.drawn /\ u.edits = s.usage.edits
        /\ u.canvases = s.usage.canvases /\ u.talks = s.usage.talks /\ u.breaks # 0
    BY <2>1 DEF UsageType, StateType
  <2>3. x = [s EXCEPT !.usage = u]
    BY <1>2, <2>1 DEF Broken, StateType
  <2>4. QED
    BY <2>2, <2>3 DEF StateType, Chats, Fine
<1>3. QED
  BY <1>1, <1>2

\* persistActiveCanvas writes the scene on screen to the file of its canvas.
LEMMA SceneSavedIs ==
  ASSUME NEW s \in StateType, NEW ok \in BOOLEAN, NEW x, x = SceneSaved(s, ok)
  PROVE  /\ x \in StateType /\ x.project = s.project /\ x.screen = s.screen /\ x.op = s.op
         /\ x.usage = s.usage /\ x.saving = s.saving
         /\ x.store.metas = s.store.metas /\ x.store.talks = s.store.talks /\ x.store.deleted = s.store.deleted
         /\ \A c \in CanvasIds : x.store.scenes[c] = IF ok /\ c = s.project.canvas THEN s.screen ELSE s.store.scenes[c]
<1>1. CASE s.project.canvas = NoCanvas \/ ~ok
  BY <1>1, ThingsAreTyped DEF SceneSaved
<1>2. CASE s.project.canvas # NoCanvas /\ ok
  <2>1. PICK z : z = [s.store.scenes EXCEPT ![s.project.canvas] = s.screen]
    OBVIOUS
  <2>2. s.store.scenes \in [CanvasIds -> Scene] /\ s.screen \in Scene
    BY DEF StateType, StoreType
  <2>3. /\ z \in [CanvasIds -> Scene]
        /\ \A c \in CanvasIds : z[c] = IF c = s.project.canvas THEN s.screen ELSE s.store.scenes[c]
    BY <2>1, <2>2
  <2>4. PICK t : t = [s.store EXCEPT !.scenes = z]
    OBVIOUS
  <2>5. /\ t \in StoreType /\ t.scenes = z /\ t.metas = s.store.metas /\ t.talks = s.store.talks
        /\ t.deleted = s.store.deleted
    BY <2>3, <2>4 DEF StateType, StoreType
  <2>6. x = [s EXCEPT !.store = t]
    BY <1>2, <2>1, <2>4 DEF SceneSaved, StateType, StoreType
  <2>7. QED
    BY <1>2, <2>3, <2>5, <2>6 DEF StateType
<1>3. QED
  BY <1>1, <1>2

\* x has the project's list of canvases in its file, if ok.
Records(x, s, ok) ==
  \A f \in Folders :
    x.store.metas[f] = IF ok /\ f = s.project.folder
                         THEN [version |-> 2, canvases |-> s.project.canvases] ELSE s.store.metas[f]

LEMMA MetaSavedIs ==
  ASSUME NEW s \in StateType, NEW ok \in BOOLEAN, NEW x, x = MetaSaved(s, ok)
  PROVE  /\ x \in StateType /\ x.project = s.project /\ x.screen = s.screen /\ x.op = s.op
         /\ x.usage = s.usage /\ x.saving = s.saving
         /\ x.store.scenes = s.store.scenes /\ x.store.talks = s.store.talks
         /\ Records(x, s, ok)
<1>1. CASE s.project.folder = Nowhere \/ ~ok
  BY <1>1, FoldersAssumption DEF MetaSaved, Records
<1>2. CASE s.project.folder # Nowhere /\ ok
  <2>1. PICK m : m = [version |-> 2, canvases |-> s.project.canvases]
    OBVIOUS
  <2>2. PICK z : z = [s.store.metas EXCEPT ![s.project.folder] = m]
    OBVIOUS
  <2>3. s.store.metas \in [Folders -> Meta] /\ m \in Meta
    BY <2>1 DEF StateType, StoreType, ProjectType, Meta
  <2>4. /\ z \in [Folders -> Meta]
        /\ \A f \in Folders : z[f] = IF f = s.project.folder THEN m ELSE s.store.metas[f]
    BY <2>2, <2>3
  <2>5. PICK t : t = [s.store EXCEPT !.metas = z]
    OBVIOUS
  <2>6. t \in StoreType /\ t.metas = z /\ t.scenes = s.store.scenes /\ t.talks = s.store.talks
    BY <2>4, <2>5 DEF StateType, StoreType
  <2>7. x = [s EXCEPT !.store = t]
    BY <1>2, <2>1, <2>2, <2>5 DEF MetaSaved, StateType, StoreType
  <2>8. QED
    BY <1>2, <2>1, <2>4, <2>6, <2>7 DEF StateType, Records
<1>3. QED
  BY <1>1, <1>2

\* x is s, waiting for the scene of canvas c.
ReadsScene(x, s, c, ok) ==
  /\ x.store = s.store /\ x.project = s.project /\ x.screen = s.screen /\ x.usage = s.usage /\ x.saving = s.saving
  /\ x.op.at = "scene read" /\ x.op.ok = ok /\ x.op.kind = s.op.kind /\ x.op.target = s.op.target
  /\ x.op.place = c /\ x.op.folder = s.op.folder
  /\ x.op.scene = IF s.store.scenes[c] = NoScene THEN Blank(c) ELSE s.store.scenes[c]

LEMMA LoadIs ==
  ASSUME NEW s \in StateType, NEW c \in CanvasIds, NEW ok \in BOOLEAN, NEW x, x = Load(s, c, ok)
  PROVE  x \in StateType /\ ReadsScene(x, s, c, ok)
<1>1. PICK z : z = IF s.store.scenes[c] = NoScene THEN Blank(c) ELSE s.store.scenes[c]
  OBVIOUS
<1>2. z \in Scene
  BY <1>1 DEF StateType, StoreType, Scene, Blank
<1>3. PICK o : o = [s.op EXCEPT !.place = c, !.scene = z]
  OBVIOUS
<1>4. /\ o \in OpType /\ o.kind = s.op.kind /\ o.target = s.op.target /\ o.place = c /\ o.folder = s.op.folder
      /\ o.scene = z
  BY <1>2, <1>3, ThingsAreTyped DEF OpType, StateType
<1>5. PICK y : y = [s EXCEPT !.op = o]
  OBVIOUS
<1>6. y \in StateType /\ y.store = s.store /\ y.project = s.project /\ y.screen = s.screen
      /\ y.usage = s.usage /\ y.saving = s.saving /\ y.op = o
  BY <1>4, <1>5 DEF StateType
<1>7. y = [s EXCEPT !.op.place = c, !.op.scene = IF s.store.scenes[c] = NoScene THEN Blank(c)
                                                 ELSE s.store.scenes[c]]
  BY <1>1, <1>3, <1>5 DEF StateType
<1>8. x = Await(y, "scene read", ok)
  BY <1>7 DEF Load
<1>9. "scene read" \in Awaits
  BY DEF Awaits
<1>10. x \in StateType /\ Waits(x, y, "scene read", ok)
  BY <1>6, <1>8, <1>9, AwaitIs
<1>11. QED
  BY <1>1, <1>4, <1>6, <1>10 DEF Waits, ReadsScene

\* The scene that was read comes on screen.
LEMMA ShowIs ==
  ASSUME NEW s \in StateType, s.op.place \in CanvasIds, NEW x, x = Show(s)
  PROVE  /\ x \in StateType /\ x.store = s.store /\ x.op = s.op /\ x.usage = s.usage /\ x.saving = s.saving
         /\ x.screen = s.op.scene /\ x.project.canvas = s.op.place
         /\ x.project.folder = s.project.folder /\ x.project.canvases = s.project.canvases
         /\ x.project.talks = s.project.talks /\ x.project.talk = s.project.talk
<1>1. PICK p : p = [s.project EXCEPT !.canvas = s.op.place]
  OBVIOUS
<1>2. /\ p \in ProjectType /\ p.canvas = s.op.place
      /\ p.folder = s.project.folder /\ p.canvases = s.project.canvases
      /\ p.talks = s.project.talks /\ p.talk = s.project.talk
  BY <1>1 DEF ProjectType, StateType
<1>3. x = [s EXCEPT !.screen = s.op.scene, !.project = p]
  BY <1>1 DEF Show, StateType
<1>4. s.op.scene \in Scene
  BY DEF StateType, OpType
<1>5. QED
  BY <1>2, <1>3, <1>4 DEF StateType

\* A new canvas is the next number, at the end of the list.
LEMMA AddCanvasIs ==
  ASSUME NEW s \in StateType, Room(s), NEW ok \in BOOLEAN, NEW x, x = AddCanvas(s, ok)
  PROVE  \E c \in CanvasIds, y \in StateType :
           /\ y.store = s.store /\ y.screen = s.screen /\ y.op = s.op
           /\ y.project.folder = s.project.folder /\ y.project.canvas = s.project.canvas
           /\ y.project.talks = s.project.talks /\ y.project.talk = s.project.talk
           /\ y.project.canvases = Append(s.project.canvases, c)
           /\ y.usage.drawn = s.usage.drawn /\ y.usage.edits = s.usage.edits /\ y.usage.breaks = s.usage.breaks
           /\ x = Load(y, c, ok)
<1>1. PICK c \in CanvasIds : c = s.usage.canvases + 1
  BY ThingsAreTyped DEF Room, CanvasIds, StateType, UsageType
<1>2. PICK u : u = [s.usage EXCEPT !.canvases = c]
  OBVIOUS
<1>3. u \in UsageType /\ u.drawn = s.usage.drawn /\ u.edits = s.usage.edits /\ u.breaks = s.usage.breaks
  BY <1>2, ThingsAreTyped DEF UsageType, StateType
<1>4. PICK p : p = [s.project EXCEPT !.canvases = Append(@, c)]
  OBVIOUS
<1>5. /\ p \in ProjectType /\ p.folder = s.project.folder /\ p.canvas = s.project.canvas
      /\ p.talks = s.project.talks /\ p.talk = s.project.talk
      /\ p.canvases = Append(s.project.canvases, c)
  <2>1. Append(s.project.canvases, c) \in Seq(CanvasIds)
    BY Appended DEF StateType, ProjectType
  <2>2. QED
    BY <1>4, <2>1 DEF ProjectType, StateType
<1>6. PICK y : y = [s EXCEPT !.usage = u, !.project = p]
  OBVIOUS
<1>7. /\ y \in StateType /\ y.store = s.store /\ y.screen = s.screen /\ y.saving = s.saving
      /\ y.op = s.op /\ y.usage = u /\ y.project = p
  BY <1>3, <1>5, <1>6 DEF StateType
<1>8. y = [s EXCEPT !.usage.canvases = c, !.project.canvases = Append(@, c)]
  BY <1>2, <1>4, <1>6 DEF StateType
<1>9. x = Load(y, c, ok)
  BY <1>1, <1>8 DEF AddCanvas
<1>10. QED
  BY <1>3, <1>5, <1>7, <1>9

\* x is s, waiting for conversation t to be selected.
Selects(x, s, t, ok) ==
  /\ x.store = s.store /\ x.project = s.project /\ x.screen = s.screen /\ x.usage = s.usage /\ x.saving = s.saving
  /\ x.op.at = "talk selected" /\ x.op.ok = ok /\ x.op.kind = s.op.kind /\ x.op.target = s.op.target
  /\ x.op.place = t /\ x.op.folder = s.op.folder /\ x.op.scene = s.op.scene

LEMMA ActivateIs ==
  ASSUME NEW s \in StateType, NEW t \in Nat, NEW ok \in BOOLEAN, NEW x, x = Activate(s, t, ok)
  PROVE  x \in StateType /\ Selects(x, s, t, ok)
<1>1. PICK o : o = [s.op EXCEPT !.place = t]
  OBVIOUS
<1>2. /\ o \in OpType /\ o.kind = s.op.kind /\ o.target = s.op.target /\ o.place = t
      /\ o.folder = s.op.folder /\ o.scene = s.op.scene
  BY <1>1 DEF OpType, StateType
<1>3. PICK y : y = [s EXCEPT !.op = o]
  OBVIOUS
<1>4. /\ y \in StateType /\ y.store = s.store /\ y.project = s.project /\ y.screen = s.screen
      /\ y.usage = s.usage /\ y.saving = s.saving /\ y.op = o
  BY <1>2, <1>3 DEF StateType
<1>5. y = [s EXCEPT !.op.place = t]
  BY <1>1, <1>3 DEF StateType
<1>6. x = Await(y, "talk selected", ok) /\ "talk selected" \in Awaits
  BY <1>5 DEF Activate, Awaits
<1>7. x \in StateType /\ Waits(x, y, "talk selected", ok)
  BY <1>4, <1>6, AwaitIs
<1>8. QED
  BY <1>2, <1>4, <1>7 DEF Waits, Selects

\* x is s, waiting for a conversation to be made; it is listed if ok.
Creates(x, s, ok) ==
  /\ x.project = s.project /\ x.screen = s.screen /\ x.saving = s.saving
  /\ x.store.metas = s.store.metas /\ x.store.scenes = s.store.scenes
  /\ x.usage.drawn = s.usage.drawn /\ x.usage.edits = s.usage.edits
  /\ x.usage.canvases = s.usage.canvases /\ x.usage.breaks = s.usage.breaks
  /\ x.op.at = "talk created" /\ x.op.ok = ok /\ x.op.kind = s.op.kind /\ x.op.target = s.op.target
  /\ x.op.folder = s.op.folder /\ x.op.scene = s.op.scene
  /\ ok => x.op.place \in Range(x.store.talks[s.project.folder])

LEMMA CreateTalkIs ==
  ASSUME NEW s \in StateType, IsOpen(s), NEW ok \in BOOLEAN, NEW x, x = CreateTalk(s, ok)
  PROVE  x \in StateType /\ Creates(x, s, ok)
<1>1. "talk created" \in Awaits
  BY DEF Awaits
<1>2. CASE ~ok
  <2>1. x = Await(s, "talk created", ok)
    BY <1>2 DEF CreateTalk
  <2>2. x \in StateType /\ Waits(x, s, "talk created", ok)
    BY <1>1, <2>1, AwaitIs
  <2>3. QED
    BY <1>2, <2>2 DEF Waits, Creates
<1>3. CASE ok
  <2>1. PICK t \in Nat : t = s.usage.talks + 1
    BY DEF StateType, UsageType
  <2>2. PICK f \in Folders : f = s.project.folder
    BY DEF IsOpen, StateType, ProjectType
  <2>3. s.store.talks \in [Folders -> Seq(Nat)] /\ s.store.talks[f] \in Seq(Nat)
    BY DEF StateType, StoreType
  <2>4. PICK more : more = Append(s.store.talks[f], t)
    OBVIOUS
  <2>5. more \in Seq(Nat) /\ t \in Range(more)
    <3>1. PICK talks \in Seq(Nat) : talks = s.store.talks[f]
      BY <2>3
    <3>2. more = Append(talks, t)
      BY <2>4, <3>1
    <3>3. QED
      BY <3>2, Appended
  <2>6. PICK z : z = [s.store.talks EXCEPT ![f] = more]
    OBVIOUS
  <2>7. z \in [Folders -> Seq(Nat)] /\ z[f] = more
    BY <2>3, <2>5, <2>6
  <2>8. PICK st : st = [s.store EXCEPT !.talks = z]
    OBVIOUS
  <2>9. st \in StoreType /\ st.metas = s.store.metas /\ st.scenes = s.store.scenes /\ st.talks = z
    BY <2>7, <2>8 DEF StateType, StoreType
  <2>10. PICK u : u = [s.usage EXCEPT !.talks = t]
    OBVIOUS
  <2>11. /\ u \in UsageType /\ u.drawn = s.usage.drawn /\ u.edits = s.usage.edits
         /\ u.canvases = s.usage.canvases /\ u.breaks = s.usage.breaks
    BY <2>10 DEF UsageType, StateType
  <2>12. PICK o : o = [s.op EXCEPT !.place = t]
    OBVIOUS
  <2>13. /\ o \in OpType /\ o.kind = s.op.kind /\ o.target = s.op.target /\ o.place = t
         /\ o.folder = s.op.folder /\ o.scene = s.op.scene
    BY <2>12 DEF OpType, StateType
  <2>14. PICK y : y = [s EXCEPT !.usage = u, !.op = o, !.store = st]
    OBVIOUS
  <2>15. /\ y \in StateType /\ y.store = st /\ y.project = s.project /\ y.screen = s.screen
         /\ y.usage = u /\ y.saving = s.saving /\ y.op = o
    BY <2>9, <2>11, <2>13, <2>14 DEF StateType
  <2>16. y = [s EXCEPT !.usage.talks = t, !.op.place = t, !.store.talks[s.project.folder] = Append(@, t)]
    BY <2>2, <2>3, <2>4, <2>6, <2>8, <2>10, <2>12, <2>14 DEF StateType, StoreType
  <2>17. x = Await(y, "talk created", ok)
    BY <1>3, <2>1, <2>16 DEF CreateTalk
  <2>18. x \in StateType /\ Waits(x, y, "talk created", ok)
    BY <1>1, <2>15, <2>17, AwaitIs
  <2>19. x.op.place \in Range(x.store.talks[s.project.folder])
    BY <2>2, <2>5, <2>7, <2>9, <2>13, <2>15, <2>18 DEF Waits
  <2>20. QED
    BY <2>9, <2>11, <2>13, <2>15, <2>18, <2>19 DEF Waits, Creates
<1>4. QED
  BY <1>2, <1>3

\* The state with another project.
LEMMA ProjectIs ==
  ASSUME NEW s \in StateType, NEW p \in ProjectType, NEW x, x = [s EXCEPT !.project = p]
  PROVE  /\ x \in StateType /\ x.store = s.store /\ x.screen = s.screen /\ x.op = s.op
         /\ x.usage = s.usage /\ x.saving = s.saving /\ x.project = p
  BY DEF StateType

-----------------------------------------------------------------------------
(* What the calls keep.                                                    *)

\* x differs from s in nothing that Sound speaks of, but for the scene that was read.
SamePictures(x, s) ==
  /\ x.store.scenes = s.store.scenes /\ x.screen = s.screen /\ x.project.canvas = s.project.canvas
  /\ x.usage.drawn = s.usage.drawn /\ x.usage.edits = s.usage.edits

\* Then it is sound if s was.
LEMMA SamePicturesSound ==
  ASSUME NEW s, Sound(s), NEW x \in StateType, SamePictures(x, s), x.op.scene.edit <= x.usage.edits
  PROVE  Sound(x) /\ (DrawnKept(s) => DrawnKept(x))
<1>1. Numbers(x) /\ OnScreen(x) /\ InFiles(x)
  BY DEF Sound, SamePictures, Numbers, OnScreen, InFiles
<1>2. DrawnKept(s) => DrawnKept(x)
  BY DEF SamePictures, DrawnKept
<1>3. QED
  BY <1>1, <1>2 DEF Sound

\* A call that failed is counted: while none is, the outcome was good.
OkIsTrue(s, ok) == Fine(s) => ok

\* A call that fails takes nothing from what a transition relies on.
LEMMA BrokenKeeps ==
  ASSUME NEW q \in BOOLEAN,
         NEW s, Sound(s), NEW ok \in BOOLEAN, NEW x, x = Broken(s, ok)
  PROVE  /\ Sound(x) /\ OkIsTrue(x, ok) /\ (Parked(s, q) => Parked(x, q)) /\ (Settled(s, q) => Settled(x, q))
         /\ \A i : Importing(s, i) => Importing(x, i)
<1>1. s \in StateType
  BY DEF Sound
<1>2. /\ x \in StateType /\ x.store = s.store /\ x.project = s.project /\ x.screen = s.screen
      /\ x.op = s.op /\ x.saving = s.saving
      /\ x.usage.drawn = s.usage.drawn /\ x.usage.edits = s.usage.edits
      /\ x.usage.canvases = s.usage.canvases /\ x.usage.talks = s.usage.talks
      /\ Fine(x) => ok /\ Fine(s)
  BY <1>1, BrokenIs
<1>3. SamePictures(x, s) /\ x.op.scene.edit <= x.usage.edits
  BY <1>2 DEF SamePictures, Sound, Numbers
<1>4. Sound(x) /\ (DrawnKept(s) => DrawnKept(x))
  BY <1>2, <1>3, SamePicturesSound
<1>5. OkIsTrue(x, ok)
  BY <1>2 DEF OkIsTrue
<1>6. /\ CanvasShown(x) = CanvasShown(s) /\ Recorded(x) = Recorded(s) /\ TalksListed(x) = TalksListed(s)
      /\ TalkChosen(x) = TalkChosen(s) /\ IsOpen(x) = IsOpen(s) /\ Erased(x) = Erased(s)
      /\ Selecting(x) = Selecting(s) /\ Room(x) = Room(s) /\ Adding(x) = Adding(s) /\ Entered(x) = Entered(s)
      /\ DrawnKept(x) = DrawnKept(s)
  BY <1>2 DEF CanvasShown, Recorded, TalksListed, TalkChosen, IsOpen, Erased, Selecting, Room, Adding, Entered, DrawnKept
<1>7. Settled(s, q) => Settled(x, q)
  BY <1>2, <1>6 DEF Settled, Chats
<1>8. Opening(s, q) => Opening(x, q)
  BY <1>2, <1>6, <1>7 DEF Opening
<1>9. ASSUME Parked(s, q) PROVE Parked(x, q)
  <2>1. AtSceneKept(s, q) => AtSceneKept(x, q)
    BY <1>2, <1>6, <1>7, <1>8 DEF AtSceneKept
  <2>2. AtSceneRead(s, q) => AtSceneRead(x, q)
    BY <1>2, <1>6 DEF AtSceneRead, Chats
  <2>3. AtMetaKept(s, q) => AtMetaKept(x, q)
    BY <1>2, <1>6, <1>7, <1>8 DEF AtMetaKept
  <2>4. (AtOpened(s, q) => AtOpened(x, q)) /\ (AtListed(s, q) => AtListed(x, q)) /\ (AtRemoved(s, q) => AtRemoved(x, q))
    BY <1>2, <1>6, <1>7, <1>8 DEF AtOpened, AtListed, AtRemoved
  <2>5. AtTalkDeleted(s, q) => AtTalkDeleted(x, q)
    BY <1>2, <1>6 DEF AtTalkDeleted, Chats
  <2>6. AtTalkCreated(s, q) => AtTalkCreated(x, q)
    BY <1>2, <1>6 DEF AtTalkCreated, Chats
  <2>7. AtTalkSelected(s, q) => AtTalkSelected(x, q)
    BY <1>2, <1>6 DEF AtTalkSelected, Chats
  <2>8. QED
    BY <1>2, <1>9, <2>1, <2>2, <2>3, <2>4, <2>5, <2>6, <2>7 DEF Parked
<1>10. ASSUME NEW i, Importing(s, i) PROVE Importing(x, i)
  BY <1>2, <1>6, <1>10 DEF Importing
<1>11. QED
  BY <1>4, <1>5, <1>7, <1>9, <1>10

\* After a save of the scene what is drawn is in the files, if the save succeeded.
LEMMA SceneSavedKeeps ==
  ASSUME NEW s, Sound(s), NEW ok \in BOOLEAN, NEW x, x = SceneSaved(s, ok)
  PROVE  /\ Sound(x) /\ (DrawnKept(s) => DrawnKept(x)) /\ (ok => DrawnKept(x))
         /\ s.project.canvas = NoCanvas => DrawnKept(x)
<1>1. s \in StateType
  BY DEF Sound
<1>2. /\ x \in StateType /\ x.project = s.project /\ x.screen = s.screen /\ x.op = s.op
      /\ x.usage = s.usage /\ x.saving = s.saving
      /\ \A c \in CanvasIds : x.store.scenes[c] = IF ok /\ c = s.project.canvas THEN s.screen ELSE s.store.scenes[c]
  BY <1>1, SceneSavedIs
<1>3. /\ s.project.canvas \in CanvasIds \cup {NoCanvas} /\ NoCanvas \notin CanvasIds
      /\ s.project.canvas # NoCanvas => s.screen.of = s.project.canvas /\ s.screen.edit >= s.usage.drawn[s.project.canvas]
  BY <1>1, ThingsAreTyped DEF Sound, OnScreen, StateType, ProjectType
<1>4. Numbers(x)
  BY <1>2 DEF Sound, Numbers
<1>5. OnScreen(x)
  BY <1>2 DEF Sound, OnScreen
<1>6. InFiles(x)
  BY <1>2, <1>3 DEF Sound, InFiles
<1>7. DrawnKept(s) => DrawnKept(x)
  BY <1>2, <1>3 DEF DrawnKept
<1>8. ok => DrawnKept(x)
  BY <1>2, <1>3 DEF DrawnKept, Sound, InFiles
<1>9. s.project.canvas = NoCanvas => DrawnKept(x)
  BY <1>2, <1>3 DEF DrawnKept, Sound, InFiles
<1>10. QED
  BY <1>2, <1>4, <1>5, <1>6, <1>7, <1>8, <1>9 DEF Sound

\* The next save begins: what the transition may rely on when it is done.
LEMMA KeepSceneGood ==
  ASSUME NEW q \in BOOLEAN,
         NEW s, Sound(s), NEW ok \in BOOLEAN, OkIsTrue(s, ok), Settled(s, q),
         Opening(s, q) \/ ((Selecting(s) \/ Adding(s)) /\ IsOpen(s)), NEW x, x = KeepScene(s, ok)
  PROVE  Sound(x) /\ Parked(x, q)
<1>1. s \in StateType
  BY DEF Sound
<1>2. PICK y : y = SceneSaved(s, ok)
  OBVIOUS
<1>3. /\ y \in StateType /\ y.project = s.project /\ y.screen = s.screen /\ y.op = s.op
      /\ y.usage = s.usage /\ y.saving = s.saving
      /\ y.store.metas = s.store.metas /\ y.store.talks = s.store.talks
  BY <1>1, <1>2, SceneSavedIs
<1>4. Sound(y) /\ (ok => DrawnKept(y)) /\ (s.project.canvas = NoCanvas => DrawnKept(y))
  BY <1>2, SceneSavedKeeps
<1>5. PICK done \in BOOLEAN : done = (ok \/ s.project.canvas = NoCanvas)
  OBVIOUS
<1>6. x = Await(y, "scene kept", done) /\ "scene kept" \in Awaits
  BY <1>2, <1>5 DEF KeepScene, Awaits
<1>7. x \in StateType /\ Waits(x, y, "scene kept", done)
  BY <1>3, <1>6, AwaitIs
<1>8. SamePictures(x, y) /\ x.op.scene.edit <= x.usage.edits
  BY <1>4, <1>7 DEF SamePictures, Waits, Sound, Numbers
<1>9. Sound(x) /\ (DrawnKept(y) => DrawnKept(x))
  BY <1>4, <1>7, <1>8, SamePicturesSound
<1>10. /\ x.project = s.project /\ x.usage = s.usage /\ x.store.metas = s.store.metas
       /\ x.store.talks = s.store.talks /\ x.op.at = "scene kept" /\ x.op.ok = done
       /\ x.op.kind = s.op.kind /\ x.op.target = s.op.target /\ x.op.folder = s.op.folder
       /\ x.op.place = s.op.place
  BY <1>3, <1>7 DEF Waits
<1>11. x.op.ok => DrawnKept(x)
  BY <1>4, <1>5, <1>9, <1>10
<1>12. Fine(x) => x.op.ok
  BY <1>5, <1>10 DEF OkIsTrue, Chats, Fine
<1>13. Settled(x, q)
  BY <1>10 DEF Settled, Chats, Fine, IsOpen, CanvasShown, Recorded, TalksListed, TalkChosen
<1>14. Opening(x, q) \/ ((Selecting(x) \/ Adding(x)) /\ IsOpen(x))
  BY <1>10, <1>13 DEF Opening, Selecting, Adding, IsOpen, Room
<1>15. QED
  BY <1>9, <1>10, <1>11, <1>12, <1>13, <1>14 DEF Parked, AtSceneKept

\* project.json is about to hold the list of canvases.
LEMMA KeepMetaGood ==
  ASSUME NEW q \in BOOLEAN,
         NEW s, Sound(s), NEW ok \in BOOLEAN, OkIsTrue(s, ok),
         Fine(s) /\ IsOpen(s) => CanvasShown(s),
         Chats(s, q) /\ IsOpen(s) => TalksListed(s) /\ TalkChosen(s),
         \/ Opening(s, q) /\ DrawnKept(s)
         \/ s.op.kind = "open" /\ s.op.place # 0
         \/ s.op.kind \in {"new canvas", "delete talk"}
         \/ s.op.kind = "delete canvas" /\ Erased(s),
         NEW x, x = KeepMeta(s, ok)
  PROVE  Sound(x) /\ Parked(x, q)
<1>1. s \in StateType
  BY DEF Sound
<1>2. PICK y : y = MetaSaved(s, ok)
  OBVIOUS
<1>3. /\ y \in StateType /\ y.project = s.project /\ y.screen = s.screen /\ y.op = s.op
      /\ y.usage = s.usage /\ y.saving = s.saving
      /\ y.store.scenes = s.store.scenes /\ y.store.talks = s.store.talks
      /\ Records(y, s, ok)
  BY <1>1, <1>2, MetaSavedIs
<1>4. PICK done \in BOOLEAN : done = (ok \/ s.project.folder = Nowhere)
  OBVIOUS
<1>5. x = Await(y, "meta kept", done) /\ "meta kept" \in Awaits
  BY <1>2, <1>4 DEF KeepMeta, Awaits
<1>6. x \in StateType /\ Waits(x, y, "meta kept", done)
  BY <1>3, <1>5, AwaitIs
<1>7. /\ x.project = s.project /\ x.usage = s.usage /\ x.store.scenes = s.store.scenes /\ x.screen = s.screen
      /\ x.store.talks = s.store.talks /\ x.op.at = "meta kept" /\ x.op.ok = done
      /\ x.op.kind = s.op.kind /\ x.op.target = s.op.target /\ x.op.folder = s.op.folder
      /\ x.op.scene = s.op.scene /\ x.op.place = s.op.place
  BY <1>3, <1>6 DEF Waits
<1>8. SamePictures(x, s) /\ x.op.scene.edit <= x.usage.edits
  BY <1>7 DEF SamePictures, Sound, Numbers
<1>9. Sound(x) /\ (DrawnKept(s) => DrawnKept(x))
  BY <1>6, <1>8, SamePicturesSound
<1>10. Fine(x) => x.op.ok
  BY <1>4, <1>7 DEF OkIsTrue, Chats, Fine
<1>11. Settled(x, q)
  <2>1. ASSUME Fine(x), IsOpen(x) PROVE CanvasShown(x) /\ Recorded(x)
    <3>1. ok /\ Fine(s) /\ IsOpen(s) /\ s.project.folder \in Folders
      BY <1>1, <1>7, <2>1 DEF OkIsTrue, Fine, IsOpen, StateType, ProjectType
    <3>2. Recorded(x)
      BY <1>3, <1>6, <1>7, <3>1 DEF Recorded, Waits, Records
    <3>3. CanvasShown(x)
      BY <1>7, <3>1 DEF CanvasShown
    <3>4. QED
      BY <3>2, <3>3
  <2>2. Chats(x, q) /\ IsOpen(x) => TalksListed(x) /\ TalkChosen(x)
    BY <1>7 DEF Chats, Fine, IsOpen, TalksListed, TalkChosen
  <2>3. QED
    BY <2>1, <2>2 DEF Settled
<1>12. \/ Opening(x, q) /\ DrawnKept(x)
       \/ x.op.kind = "open" /\ x.op.place # 0
       \/ x.op.kind \in {"new canvas", "delete talk"}
       \/ x.op.kind = "delete canvas" /\ Erased(x)
  <2>1. Opening(s, q) => Opening(x, q)
    BY <1>7, <1>11 DEF Opening, Room
  <2>2. Erased(s) => Erased(x)
    BY <1>7 DEF Erased
  <2>3. QED
    BY <1>7, <1>9, <2>1, <2>2
<1>13. QED
  BY <1>7, <1>9, <1>10, <1>11, <1>12 DEF Parked, AtMetaKept

\* What a scene that is read for canvas c needs.
ReadFor(s, c, q) ==
  /\ Sound(s) /\ DrawnKept(s) /\ IsOpen(s) /\ c \in CanvasIds /\ c \in Range(s.project.canvases)
  /\ Chats(s, q) => TalksListed(s) /\ TalkChosen(s)
  /\ \/ s.op.kind = "new canvas"
     \/ s.op.kind = "delete canvas" /\ Erased(s)
     \/ s.op.kind = "select canvas" /\ (Fine(s) => Recorded(s))
     \/ /\ s.op.kind = "open" /\ s.op.folder = s.project.folder
        /\ Fine(s) => Recorded(s) \/ s.store.metas[s.project.folder].canvases = <<>>

\* The read of a scene begins.
LEMMA LoadGood ==
  ASSUME NEW q \in BOOLEAN,
         NEW s, NEW c, ReadFor(s, c, q), NEW ok \in BOOLEAN, OkIsTrue(s, ok), NEW x, x = Load(s, c, ok)
  PROVE  Sound(x) /\ Parked(x, q)
<1>1. s \in StateType /\ Sound(s) /\ c \in CanvasIds
  BY DEF Sound, ReadFor
<1>2. x \in StateType /\ ReadsScene(x, s, c, ok)
  BY <1>1, LoadIs
<1>3. /\ x.store = s.store /\ x.project = s.project /\ x.screen = s.screen /\ x.usage = s.usage
      /\ x.op.at = "scene read" /\ x.op.ok = ok /\ x.op.kind = s.op.kind /\ x.op.target = s.op.target
      /\ x.op.place = c /\ x.op.folder = s.op.folder
      /\ x.op.scene = IF s.store.scenes[c] = NoScene THEN Blank(c) ELSE s.store.scenes[c]
  BY <1>2 DEF ReadsScene
<1>4. /\ s.store.scenes[c].edit \in Nat /\ s.usage.drawn[c] \in Nat /\ s.usage.edits \in Nat
      /\ s.store.scenes[c].edit >= s.usage.drawn[c] /\ s.store.scenes[c].edit <= s.usage.edits
      /\ s.store.scenes[c] = NoScene \/ s.store.scenes[c].of = c
  BY <1>1 DEF ReadFor, DrawnKept, Sound, Numbers, InFiles, StateType, StoreType, UsageType, Scene
<1>5. x.op.scene.of = c /\ x.op.scene.edit >= x.usage.drawn[c] /\ x.op.scene.edit <= x.usage.edits
  <2>1. CASE s.store.scenes[c] = NoScene
    <3>1. PICK blank : blank = Blank(c)
      OBVIOUS
    <3>2. x.op.scene = blank /\ blank.of = c /\ blank.edit = 0
      <4>1. x.op.scene = blank
        BY <1>3, <2>1, <3>1
      <4>2. blank.of = c /\ blank.edit = 0
        BY <3>1 DEF Blank
      <4>3. QED
        BY <4>1, <4>2
    <3>3. s.usage.drawn[c] = 0
      BY <1>4, <2>1, ThingsAreTyped
    <3>4. x.usage.drawn[c] = 0 /\ x.usage.edits \in Nat
      BY <1>3, <1>4, <3>3
    <3>5. x.op.scene.of = c /\ x.op.scene.edit = 0
      BY <3>2
    <3>6. QED
      BY <3>4, <3>5
  <2>2. CASE s.store.scenes[c] # NoScene
    BY <1>3, <1>4, <2>2
  <2>3. QED
    BY <2>1, <2>2
<1>6. SamePictures(x, s)
  BY <1>3 DEF SamePictures
<1>7. Sound(x) /\ (DrawnKept(s) => DrawnKept(x))
  BY <1>1, <1>2, <1>5, <1>6, SamePicturesSound
<1>8. DrawnKept(x) /\ IsOpen(x) /\ x.op.place \in Range(x.project.canvases)
  BY <1>3, <1>7 DEF ReadFor, IsOpen
<1>9. Chats(x, q) => TalksListed(x) /\ TalkChosen(x)
  BY <1>3 DEF ReadFor, Chats, Fine, TalksListed, TalkChosen
<1>10. \/ x.op.kind = "new canvas"
       \/ x.op.kind = "delete canvas" /\ Erased(x)
       \/ x.op.kind = "select canvas" /\ (Fine(x) => Recorded(x))
       \/ /\ x.op.kind = "open" /\ x.op.folder = x.project.folder
          /\ Fine(x) => Recorded(x) \/ x.store.metas[x.project.folder].canvases = <<>>
  BY <1>3 DEF ReadFor, Chats, Fine, Erased, Recorded
<1>11. AtSceneRead(x, q)
  BY <1>3, <1>5, <1>8, <1>9, <1>10 DEF AtSceneRead
<1>12. Fine(x) => x.op.ok
  BY <1>3 DEF OkIsTrue, Chats, Fine
<1>13. QED
  BY <1>3, <1>7, <1>11, <1>12 DEF Parked

\* What a new canvas needs.
AddTo(s, q) ==
  /\ Sound(s) /\ DrawnKept(s) /\ IsOpen(s) /\ Room(s)
  /\ Chats(s, q) => TalksListed(s) /\ TalkChosen(s)
  /\ \/ s.op.kind = "new canvas"
     \/ s.op.kind = "delete canvas" /\ Erased(s)
     \/ /\ s.op.kind = "open" /\ s.op.folder = s.project.folder
        /\ Fine(s) => s.store.metas[s.project.folder].canvases = <<>>

\* A canvas is added and its scene is read.
LEMMA AddCanvasGood ==
  ASSUME NEW q \in BOOLEAN,
         NEW s, AddTo(s, q), NEW ok \in BOOLEAN, OkIsTrue(s, ok), NEW x, x = AddCanvas(s, ok)
  PROVE  Sound(x) /\ Parked(x, q)
<1>1. s \in StateType /\ Sound(s) /\ Room(s)
  BY DEF Sound, AddTo
<1>2. PICK c \in CanvasIds, y \in StateType :
        /\ y.store = s.store /\ y.screen = s.screen /\ y.op = s.op
        /\ y.project.folder = s.project.folder /\ y.project.canvas = s.project.canvas
        /\ y.project.talks = s.project.talks /\ y.project.talk = s.project.talk
        /\ y.project.canvases = Append(s.project.canvases, c)
        /\ y.usage.drawn = s.usage.drawn /\ y.usage.edits = s.usage.edits /\ y.usage.breaks = s.usage.breaks
        /\ x = Load(y, c, ok)
  BY <1>1, AddCanvasIs
<1>3. SamePictures(y, s) /\ y.op.scene.edit <= y.usage.edits
  BY <1>1, <1>2 DEF SamePictures, Sound, Numbers
<1>4. Sound(y) /\ DrawnKept(y)
  BY <1>1, <1>2, <1>3, SamePicturesSound DEF AddTo
<1>5. c \in Range(y.project.canvases)
  <2>1. s.project.canvases \in Seq(CanvasIds)
    BY <1>1 DEF StateType, ProjectType
  <2>2. PICK list \in Seq(CanvasIds) : list = s.project.canvases
    BY <2>1
  <2>3. PICK more : more = Append(list, c)
    OBVIOUS
  <2>4. c \in Range(more)
    BY <2>3, Appended
  <2>5. QED
    BY <1>2, <2>2, <2>3, <2>4
<1>6. IsOpen(y) /\ (Chats(y, q) => TalksListed(y) /\ TalkChosen(y))
  BY <1>2 DEF AddTo, IsOpen, Chats, Fine, TalksListed, TalkChosen
<1>7. \/ y.op.kind = "new canvas"
      \/ y.op.kind = "delete canvas" /\ Erased(y)
      \/ /\ y.op.kind = "open" /\ y.op.folder = y.project.folder
         /\ Fine(y) => y.store.metas[y.project.folder].canvases = <<>>
  BY <1>2 DEF AddTo, Chats, Fine, Erased
<1>8. ReadFor(y, c, q) /\ OkIsTrue(y, ok)
  BY <1>2, <1>4, <1>5, <1>6, <1>7 DEF ReadFor, OkIsTrue, Chats, Fine
<1>9. QED
  BY <1>2, <1>8, LoadGood

\* What the selection of conversation t needs.
SelectFor(s, t, q) ==
  /\ Sound(s) /\ IsOpen(s) /\ t \in Nat
  /\ Fine(s) => Recorded(s)
  /\ Chats(s, q) => TalksListed(s) /\ t \in Range(s.project.talks)
  /\ \/ Entered(s)
     \/ s.op.kind \in {"new talk", "delete talk", "select talk"} /\ (Fine(s) => CanvasShown(s))

\* The selection of a conversation begins.
LEMMA ActivateGood ==
  ASSUME NEW q \in BOOLEAN,
         NEW s, NEW t, SelectFor(s, t, q), NEW ok \in BOOLEAN, OkIsTrue(s, ok), NEW x, x = Activate(s, t, ok)
  PROVE  Sound(x) /\ Parked(x, q)
<1>1. s \in StateType /\ Sound(s) /\ t \in Nat
  BY DEF Sound, SelectFor
<1>2. x \in StateType /\ Selects(x, s, t, ok)
  BY <1>1, ActivateIs
<1>3. SamePictures(x, s) /\ x.op.scene.edit <= x.usage.edits
  BY <1>1, <1>2 DEF Selects, SamePictures, Sound, Numbers
<1>4. Sound(x) /\ (DrawnKept(s) => DrawnKept(x))
  BY <1>1, <1>2, <1>3, SamePicturesSound
<1>5. /\ Fine(x) => Recorded(x)
      /\ Chats(x, q) => TalksListed(x) /\ x.op.place \in Range(x.project.talks)
  BY <1>2 DEF Selects, SelectFor, Chats, Fine, Recorded, TalksListed
<1>6. \/ Entered(x)
      \/ x.op.kind \in {"new talk", "delete talk", "select talk"} /\ (Fine(x) => CanvasShown(x))
  BY <1>2, <1>4 DEF Selects, SelectFor, Entered, Room, Chats, Fine, CanvasShown
<1>7. IsOpen(x) /\ (Fine(x) => x.op.ok)
  BY <1>2 DEF Selects, SelectFor, IsOpen, Chats, Fine, OkIsTrue
<1>8. QED
  BY <1>2, <1>4, <1>5, <1>6, <1>7 DEF Selects, Parked, AtTalkSelected

\* What a new conversation needs.
CreateIn(s, q) ==
  /\ Sound(s) /\ IsOpen(s) /\ (Fine(s) => Recorded(s))
  /\ \/ Entered(s)
     \/ s.op.kind \in {"new talk", "delete talk"} /\ (Fine(s) => CanvasShown(s))

\* The creation of one begins.
LEMMA CreateTalkGood ==
  ASSUME NEW q \in BOOLEAN,
         NEW s, CreateIn(s, q), NEW ok \in BOOLEAN, OkIsTrue(s, ok), NEW x, x = CreateTalk(s, ok)
  PROVE  Sound(x) /\ Parked(x, q)
<1>1. s \in StateType /\ Sound(s) /\ IsOpen(s)
  BY DEF Sound, CreateIn
<1>2. x \in StateType /\ Creates(x, s, ok)
  BY <1>1, CreateTalkIs
<1>3. SamePictures(x, s) /\ x.op.scene.edit <= x.usage.edits
  BY <1>1, <1>2 DEF Creates, SamePictures, Sound, Numbers
<1>4. Sound(x) /\ (DrawnKept(s) => DrawnKept(x))
  BY <1>1, <1>2, <1>3, SamePicturesSound
<1>5. /\ Fine(x) => x.op.ok /\ Recorded(x)
      /\ Chats(x, q) => x.op.place \in Range(x.store.talks[x.project.folder])
  BY <1>2 DEF Creates, CreateIn, Chats, Fine, Recorded, OkIsTrue
<1>6. \/ Entered(x)
      \/ x.op.kind \in {"new talk", "delete talk"} /\ (Fine(x) => CanvasShown(x))
  BY <1>2, <1>4 DEF Creates, CreateIn, Entered, Room, Chats, Fine, CanvasShown
<1>7. IsOpen(x)
  BY <1>2 DEF Creates, CreateIn, IsOpen
<1>8. QED
  BY <1>2, <1>4, <1>5, <1>6, <1>7 DEF Creates, Parked, AtTalkCreated

-----------------------------------------------------------------------------
(* A transition goes on.                                                   *)

\* What Resume needs: the await succeeded, and the next call may fail.
Going(s, at, q) == Sound(s) /\ Parked(s, q) /\ s.op.ok /\ s.op.at = at

\* A transition waits at one await.
LEMMA AwaitsDiffer ==
  ASSUME NEW q \in BOOLEAN,
         NEW s, Parked(s, q)
  PROVE  /\ s.op.at = "scene kept" => AtSceneKept(s, q)
         /\ s.op.at = "scene read" => AtSceneRead(s, q)
         /\ s.op.at = "meta kept" => AtMetaKept(s, q)
         /\ s.op.at \in {"opened", "migrated"} => AtOpened(s, q)
         /\ s.op.at = "listed" => AtListed(s, q)
         /\ s.op.at = "talk deleted" => AtTalkDeleted(s, q)
         /\ s.op.at = "talk created" => AtTalkCreated(s, q)
         /\ s.op.at = "talk selected" => AtTalkSelected(s, q)
         /\ s.op.at = "removed" => AtRemoved(s, q)
         /\ s.op.at \in Awaits
  BY DEF Parked, Awaits

\* A transition that ends leaves the state as it is.
LEMMA EndOpGood ==
  ASSUME NEW q \in BOOLEAN,
         NEW s, Sound(s), Settled(s, q), NEW x, x = EndOp(s)
  PROVE  Sound(x) /\ Ready(x, q)
<1>1. s \in StateType
  BY DEF Sound
<1>2. /\ x \in StateType /\ x.store = s.store /\ x.project = s.project /\ x.screen = s.screen
      /\ x.usage = s.usage /\ x.op = NoOp
  BY <1>1, EndOpIs
<1>3. SamePictures(x, s) /\ x.op.scene.edit <= x.usage.edits
  <2>1. x.usage.edits \in Nat
    BY <1>2 DEF StateType, UsageType
  <2>2. QED
    BY <1>2, <2>1, ThingsAreTyped DEF SamePictures
<1>4. Sound(x)
  BY <1>1, <1>2, <1>3, SamePicturesSound
<1>5. Settled(x, q)
  BY <1>2 DEF Settled, Chats, Fine, IsOpen, CanvasShown, Recorded, TalksListed, TalkChosen
<1>6. QED
  BY <1>2, <1>4, <1>5 DEF Ready

\* The canvas on screen is saved: the transition goes on.
LEMMA SceneKeptGood ==
  ASSUME NEW q \in BOOLEAN,
         NEW s, Going(s, "scene kept", q), NEW ok \in BOOLEAN, OkIsTrue(s, ok), NEW x, x = SceneKept(s, ok)
  PROVE  Sound(x) /\ Parked(x, q)
<1>1. s \in StateType /\ Sound(s) /\ AtSceneKept(s, q) /\ DrawnKept(s) /\ Settled(s, q)
  BY AwaitsDiffer DEF Going, Sound, AtSceneKept
<1>2. CASE Opening(s, q)
  <2>1. x = KeepMeta(s, ok)
    BY <1>2 DEF SceneKept, Opening
  <2>2. /\ Fine(s) /\ IsOpen(s) => CanvasShown(s)
        /\ Chats(s, q) /\ IsOpen(s) => TalksListed(s) /\ TalkChosen(s)
    BY <1>1 DEF Settled
  <2>3. QED
    BY <1>1, <1>2, <2>1, <2>2, KeepMetaGood
<1>3. CASE Selecting(s) /\ IsOpen(s)
  <2>1. x = Load(s, s.op.target, ok)
    BY <1>3 DEF SceneKept, Selecting
  <2>2. s.op.target \in CanvasIds
    BY <1>1, <1>3, Members DEF Selecting, StateType, ProjectType
  <2>3. ReadFor(s, s.op.target, q)
    BY <1>1, <1>3, <2>2 DEF ReadFor, Selecting, Settled
  <2>4. QED
    BY <2>1, <2>3, LoadGood
<1>4. CASE Adding(s) /\ IsOpen(s)
  <2>1. x = AddCanvas(s, ok)
    BY <1>4 DEF SceneKept, Adding
  <2>2. AddTo(s, q)
    BY <1>1, <1>4 DEF AddTo, Adding, Settled
  <2>3. QED
    BY <2>1, <2>2, AddCanvasGood
<1>5. QED
  BY <1>1, <1>2, <1>3, <1>4 DEF AtSceneKept

\* The canvas that was read comes on screen.
LEMMA SceneReadGood ==
  ASSUME NEW q \in BOOLEAN,
         NEW s, Going(s, "scene read", q), NEW ok \in BOOLEAN, OkIsTrue(s, ok), NEW x, x = SceneRead(s, ok)
  PROVE  Sound(x) /\ Ready(x, q)
<1>1. s \in StateType /\ Sound(s) /\ AtSceneRead(s, q) /\ DrawnKept(s)
  BY AwaitsDiffer DEF Going, Sound, AtSceneRead
<1>2. /\ s.op.place \in Range(s.project.canvases) /\ IsOpen(s)
      /\ s.op.scene.of = s.op.place /\ s.op.scene.edit >= s.usage.drawn[s.op.place]
  BY <1>1 DEF AtSceneRead
<1>3. s.op.place \in CanvasIds
  BY <1>1, <1>2, Members DEF StateType, ProjectType
<1>4. PICK y : y = Show(s)
  OBVIOUS
<1>5. /\ y \in StateType /\ y.store = s.store /\ y.op = s.op /\ y.usage = s.usage /\ y.saving = s.saving
      /\ y.screen = s.op.scene /\ y.project.canvas = s.op.place
      /\ y.project.folder = s.project.folder /\ y.project.canvases = s.project.canvases
      /\ y.project.talks = s.project.talks /\ y.project.talk = s.project.talk
  BY <1>1, <1>3, <1>4, ShowIs
<1>6. Sound(y)
  <2>1. Numbers(y)
    BY <1>1, <1>5 DEF Sound, Numbers
  <2>2. OnScreen(y)
    BY <1>2, <1>5 DEF OnScreen
  <2>3. InFiles(y)
    BY <1>1, <1>5 DEF Sound, InFiles, DrawnKept
  <2>4. QED
    BY <1>5, <2>1, <2>2, <2>3 DEF Sound
<1>7. CanvasShown(y) /\ IsOpen(y) /\ OkIsTrue(y, ok)
  BY <1>2, <1>5 DEF CanvasShown, IsOpen, OkIsTrue, Chats, Fine
<1>8. Chats(y, q) => TalksListed(y) /\ TalkChosen(y)
  BY <1>1, <1>5 DEF AtSceneRead, Chats, Fine, TalksListed, TalkChosen
<1>9. CASE x = KeepMeta(y, ok) /\ s.op.kind # "select canvas"
  <2>1. \/ y.op.kind = "open" /\ y.op.place # 0
        \/ y.op.kind = "new canvas"
        \/ y.op.kind = "delete canvas" /\ Erased(y)
    BY <1>1, <1>3, <1>5, <1>9, ThingsAreTyped DEF AtSceneRead, Erased, NoCanvas
  <2>2. Sound(x) /\ Parked(x, q)
    BY <1>6, <1>7, <1>8, <1>9, <2>1, KeepMetaGood
  <2>3. QED
    BY <2>2 DEF Ready
<1>10. CASE x = EndOp(y) /\ (Fine(s) => Recorded(s))
  <2>1. Settled(y, q)
    BY <1>5, <1>7, <1>8, <1>10 DEF Settled, Chats, Fine, Recorded
  <2>2. QED
    BY <1>6, <1>10, <2>1, EndOpGood
<1>11. QED
  <2>1. CASE s.op.kind \in {"new canvas", "delete canvas"}
    BY <1>4, <1>9, <2>1 DEF SceneRead
  <2>2. CASE s.op.kind = "select canvas"
    <3>1. x = EndOp(y)
      BY <1>4, <2>2 DEF SceneRead
    <3>2. Fine(s) => Recorded(s)
      BY <1>1, <2>2 DEF AtSceneRead
    <3>3. QED
      BY <1>10, <3>1, <3>2
  <2>3. CASE s.op.kind = "open" /\ s.store.metas[s.project.folder].canvases = <<>>
    BY <1>4, <1>9, <2>3 DEF SceneRead
  <2>4. CASE s.op.kind = "open" /\ s.store.metas[s.project.folder].canvases # <<>>
    <3>1. x = EndOp(y)
      BY <1>4, <2>4 DEF SceneRead
    <3>2. Fine(s) => Recorded(s)
      BY <1>1, <2>4 DEF AtSceneRead
    <3>3. QED
      BY <1>10, <3>1, <3>2
  <2>5. QED
    BY <1>1, <2>1, <2>2, <2>3, <2>4 DEF AtSceneRead

\* Another await keeps what is relied on.
LEMMA AwaitGood ==
  ASSUME NEW q \in BOOLEAN,
         NEW s, Sound(s), NEW ok \in BOOLEAN, OkIsTrue(s, ok), NEW at \in Awaits, NEW x, x = Await(s, at, ok)
  PROVE  /\ Sound(x) /\ Waits(x, s, at, ok) /\ (Fine(x) => x.op.ok) /\ (DrawnKept(s) => DrawnKept(x))
         /\ (Settled(s, q) => Settled(x, q)) /\ (Opening(s, q) => Opening(x, q))
<1>1. s \in StateType
  BY DEF Sound
<1>2. x \in StateType /\ Waits(x, s, at, ok)
  BY <1>1, AwaitIs
<1>3. SamePictures(x, s) /\ x.op.scene.edit <= x.usage.edits
  BY <1>2 DEF Waits, SamePictures, Sound, Numbers
<1>4. Sound(x) /\ (DrawnKept(s) => DrawnKept(x))
  BY <1>2, <1>3, SamePicturesSound
<1>5. Fine(x) => x.op.ok
  BY <1>2 DEF Waits, OkIsTrue, Chats, Fine
<1>6. Settled(s, q) => Settled(x, q)
  BY <1>2 DEF Waits, Settled, Chats, Fine, IsOpen, CanvasShown, Recorded, TalksListed, TalkChosen
<1>7. Opening(s, q) => Opening(x, q)
  BY <1>2, <1>6 DEF Waits, Opening, Room
<1>8. QED
  BY <1>2, <1>4, <1>5, <1>6, <1>7

\* The scene of a canvas that holds nothing of the user's is erased.
LEMMA ErasedKeeps ==
  ASSUME NEW q \in BOOLEAN,
         NEW s, Sound(s), Erased(s), Settled(s, q), NEW x, x = [s EXCEPT !.store.scenes[s.op.target] = NoScene]
  PROVE  /\ Sound(x) /\ Settled(x, q) /\ x.usage = s.usage
<1>1. s \in StateType /\ s.op.target \in CanvasIds /\ s.usage.drawn[s.op.target] = 0
  BY DEF Sound, Erased
<1>2. PICK z : z = [s.store.scenes EXCEPT ![s.op.target] = NoScene]
  OBVIOUS
<1>3. /\ z \in [CanvasIds -> Scene]
      /\ \A c \in CanvasIds : z[c] = IF c = s.op.target THEN NoScene ELSE s.store.scenes[c]
  BY <1>1, <1>2, ThingsAreTyped DEF StateType, StoreType
<1>4. PICK t : t = [s.store EXCEPT !.scenes = z]
  OBVIOUS
<1>5. t \in StoreType /\ t.scenes = z /\ t.metas = s.store.metas /\ t.talks = s.store.talks
  BY <1>1, <1>3, <1>4 DEF StateType, StoreType
<1>6. x = [s EXCEPT !.store = t]
  BY <1>1, <1>2, <1>4 DEF StateType, StoreType
<1>7. /\ x \in StateType /\ x.store = t /\ x.project = s.project /\ x.screen = s.screen /\ x.op = s.op
      /\ x.usage = s.usage
  BY <1>1, <1>5, <1>6 DEF StateType
<1>8. Numbers(x)
  <2>1. s.usage.edits \in Nat
    BY <1>1 DEF StateType, UsageType
  <2>2. QED
    BY <1>3, <1>5, <1>7, <2>1, ThingsAreTyped DEF Sound, Numbers
<1>9. OnScreen(x)
  BY <1>7 DEF Sound, OnScreen
<1>10. InFiles(x)
  BY <1>1, <1>3, <1>5, <1>7, ThingsAreTyped DEF Sound, InFiles
<1>11. Settled(x, q)
  BY <1>5, <1>7 DEF Settled, Chats, Fine, IsOpen, CanvasShown, Recorded, TalksListed, TalkChosen
<1>12. QED
  BY <1>7, <1>8, <1>9, <1>10, <1>11 DEF Sound

\* project.json is saved: the transition goes on.
LEMMA MetaKeptGood ==
  ASSUME NEW q \in BOOLEAN,
         NEW s, Going(s, "meta kept", q), NEW ok \in BOOLEAN, OkIsTrue(s, ok), NEW x, x = MetaKept(s, ok)
  PROVE  Sound(x) /\ Ready(x, q)
<1>1. s \in StateType /\ Sound(s) /\ AtMetaKept(s, q) /\ Settled(s, q)
  BY AwaitsDiffer DEF Going, Sound, AtMetaKept
<1>2. {"opened", "removed"} \subseteq Awaits
  BY DEF Awaits
<1>3. CASE s.op.kind = "open" /\ s.op.place = 0
  <2>1. x = Await(s, "opened", ok)
    BY <1>3 DEF MetaKept
  <2>2. Opening(s, q) /\ DrawnKept(s)
    BY <1>1, <1>3 DEF AtMetaKept
  <2>3. Sound(x) /\ Opening(x, q) /\ DrawnKept(x) /\ (Fine(x) => x.op.ok) /\ Waits(x, s, "opened", ok)
    BY <1>1, <1>2, <2>1, <2>2, AwaitGood
  <2>4. QED
    BY <2>3 DEF Ready, Parked, AtOpened, Waits
<1>4. CASE s.op.kind = "delete canvas"
  <2>1. Erased(s)
    BY <1>1, <1>4 DEF AtMetaKept, Opening
  <2>2. PICK y : y = IF ok THEN [s EXCEPT !.store.scenes[s.op.target] = NoScene] ELSE s
    OBVIOUS
  <2>3. Sound(y) /\ Settled(y, q) /\ y.usage = s.usage
    BY <1>1, <2>1, <2>2, ErasedKeeps
  <2>4. OkIsTrue(y, ok)
    BY <2>3 DEF OkIsTrue, Chats, Fine
  <2>5. x = Await(y, "removed", ok)
    BY <1>4, <2>2 DEF MetaKept
  <2>6. Sound(x) /\ Settled(x, q) /\ (Fine(x) => x.op.ok) /\ Waits(x, y, "removed", ok)
    BY <1>2, <2>3, <2>4, <2>5, AwaitGood
  <2>7. QED
    BY <2>6 DEF Ready, Parked, AtRemoved, Waits
<1>5. CASE s.op.kind = "delete talk"
  <2>1. x = Await(s, "removed", ok)
    BY <1>5 DEF MetaKept
  <2>2. Sound(x) /\ Settled(x, q) /\ (Fine(x) => x.op.ok) /\ Waits(x, s, "removed", ok)
    BY <1>1, <1>2, <2>1, AwaitGood
  <2>3. QED
    BY <2>2 DEF Ready, Parked, AtRemoved, Waits
<1>6. CASE s.op.kind # "delete canvas" /\ s.op.kind # "delete talk" /\ ~(s.op.kind = "open" /\ s.op.place = 0)
  <2>1. x = EndOp(s)
    BY <1>6 DEF MetaKept
  <2>2. QED
    BY <1>1, <2>1, EndOpGood
<1>7. QED
  BY <1>3, <1>4, <1>5, <1>6

\* x differs from s in the files of a folder, and the transition may go on.
Elsewhere(x, s, q) == (DrawnKept(s) => DrawnKept(x)) /\ (Opening(s, q) => Opening(x, q)) /\ x.usage = s.usage /\ x.op = s.op

\* The conversations of a folder that is not open change, or a call has failed.
LEMMA FolderTalks ==
  ASSUME NEW q \in BOOLEAN,
         NEW s, Sound(s), NEW f \in Folders, f # s.project.folder \/ ~Fine(s), NEW more \in Seq(Nat),
         NEW x, x = [s EXCEPT !.store.talks[f] = more]
  PROVE  Sound(x) /\ Elsewhere(x, s, q)
<1>1. s \in StateType
  BY DEF Sound
<1>2. PICK z : z = [s.store.talks EXCEPT ![f] = more]
  OBVIOUS
<1>3. z \in [Folders -> Seq(Nat)] /\ \A g \in Folders : g # f => z[g] = s.store.talks[g]
  BY <1>1, <1>2 DEF StateType, StoreType
<1>4. PICK t : t = [s.store EXCEPT !.talks = z]
  OBVIOUS
<1>5. t \in StoreType /\ t.scenes = s.store.scenes /\ t.metas = s.store.metas /\ t.talks = z
  BY <1>1, <1>3, <1>4 DEF StateType, StoreType
<1>6. x = [s EXCEPT !.store = t]
  BY <1>1, <1>2, <1>4 DEF StateType, StoreType
<1>7. /\ x \in StateType /\ x.store = t /\ x.project = s.project /\ x.screen = s.screen /\ x.op = s.op
      /\ x.usage = s.usage
  BY <1>1, <1>5, <1>6 DEF StateType
<1>8. SamePictures(x, s) /\ x.op.scene.edit <= x.usage.edits
  BY <1>5, <1>7 DEF SamePictures, Sound, Numbers
<1>9. Sound(x) /\ (DrawnKept(s) => DrawnKept(x))
  BY <1>7, <1>8, SamePicturesSound
<1>10. ASSUME Settled(s, q) PROVE Settled(x, q)
  <2>1. Fine(x) /\ IsOpen(x) => CanvasShown(x) /\ Recorded(x)
    BY <1>5, <1>7, <1>10 DEF Settled, Fine, IsOpen, CanvasShown, Recorded
  <2>2. ASSUME Chats(x, q), IsOpen(x) PROVE TalksListed(x) /\ TalkChosen(x)
    <3>1. TalksListed(s) /\ TalkChosen(s) /\ f # s.project.folder
      BY <1>7, <1>10, <2>2 DEF Settled, Chats, Fine, IsOpen
    <3>2. s.project.folder \in Folders
      BY <1>1, <1>7, <2>2 DEF IsOpen, StateType, ProjectType
    <3>3. TalksListed(x)
      BY <1>3, <1>5, <1>7, <3>1, <3>2 DEF TalksListed
    <3>4. QED
      BY <1>7, <3>1, <3>3 DEF TalkChosen
  <2>3. QED
    BY <2>1, <2>2 DEF Settled
<1>11. Opening(s, q) => Opening(x, q)
  BY <1>7, <1>10 DEF Opening, Room
<1>12. QED
  BY <1>7, <1>9, <1>11 DEF Elsewhere

\* project.json of a folder becomes one of this version; that of the open one is.
LEMMA FolderMeta ==
  ASSUME NEW q \in BOOLEAN,
         NEW s, Sound(s), NEW f \in Folders, NEW x, x = [s EXCEPT !.store.metas[f].version = 2]
  PROVE  Sound(x) /\ Elsewhere(x, s, q) /\ x.store.metas[f].version = 2
<1>1. s \in StateType
  BY DEF Sound
<1>2. PICK m : m = [s.store.metas[f] EXCEPT !.version = 2]
  OBVIOUS
<1>3. PICK z : z = [s.store.metas EXCEPT ![f] = m]
  OBVIOUS
<1>4. s.store.metas \in [Folders -> Meta] /\ m \in Meta /\ m.version = 2
  <2>1. s.store.metas \in [Folders -> Meta]
    BY <1>1 DEF StateType, StoreType
  <2>2. QED
    BY <1>2, <2>1 DEF Meta
<1>5. z \in [Folders -> Meta] /\ z[f].version = 2 /\ \A g \in Folders : g # f => z[g] = s.store.metas[g]
  BY <1>3, <1>4
<1>6. PICK t : t = [s.store EXCEPT !.metas = z]
  OBVIOUS
<1>7. t \in StoreType /\ t.scenes = s.store.scenes /\ t.metas = z /\ t.talks = s.store.talks
  BY <1>1, <1>5, <1>6 DEF StateType, StoreType
<1>8. x = [s EXCEPT !.store = t]
  BY <1>1, <1>2, <1>3, <1>6 DEF StateType, StoreType
<1>9. /\ x \in StateType /\ x.store = t /\ x.project = s.project /\ x.screen = s.screen /\ x.op = s.op
      /\ x.usage = s.usage
  BY <1>1, <1>7, <1>8 DEF StateType
<1>10. SamePictures(x, s) /\ x.op.scene.edit <= x.usage.edits
  BY <1>7, <1>9 DEF SamePictures, Sound, Numbers
<1>11. Sound(x) /\ (DrawnKept(s) => DrawnKept(x))
  BY <1>9, <1>10, SamePicturesSound
<1>12. ASSUME Settled(s, q) PROVE Settled(x, q)
  <2>1. ASSUME Fine(x), IsOpen(x) PROVE CanvasShown(x) /\ Recorded(x)
    <3>1. CanvasShown(s) /\ Recorded(s)
      BY <1>9, <1>12, <2>1 DEF Settled, Fine, IsOpen
    <3>2. s.project.folder \in Folders
      BY <1>1, <1>9, <2>1 DEF IsOpen, StateType, ProjectType
    <3>3. CASE f = s.project.folder
      <4>1. m = s.store.metas[f]
        BY <1>2, <3>1, <3>3 DEF Recorded
      <4>2. Recorded(x)
        BY <1>3, <1>7, <1>9, <3>1, <3>3, <4>1, <1>4 DEF Recorded
      <4>3. QED
        BY <1>9, <3>1, <4>2 DEF CanvasShown
    <3>4. CASE f # s.project.folder
      BY <1>5, <1>7, <1>9, <3>1, <3>2, <3>4 DEF Recorded, CanvasShown
    <3>5. QED
      BY <3>3, <3>4
  <2>2. Chats(x, q) /\ IsOpen(x) => TalksListed(x) /\ TalkChosen(x)
    BY <1>7, <1>9, <1>12 DEF Settled, Chats, Fine, IsOpen, TalksListed, TalkChosen
  <2>3. QED
    BY <2>1, <2>2 DEF Settled
<1>13. Opening(s, q) => Opening(x, q)
  BY <1>9, <1>12 DEF Opening, Room
<1>14. QED
  BY <1>5, <1>7, <1>9, <1>11, <1>13 DEF Elsewhere

\* The record of the folder is read; its old conversation is imported.
LEMMA OpenedGood ==
  ASSUME NEW q \in BOOLEAN,
         NEW s, Going(s, "opened", q), NEW ok \in BOOLEAN, OkIsTrue(s, ok), NEW x, x = Opened(s, ok)
  PROVE  Sound(x) /\ Parked(x, q)
<1>1. s \in StateType /\ Sound(s) /\ Opening(s, q) /\ DrawnKept(s)
  BY AwaitsDiffer DEF Going, Sound, AtOpened
<1>2. PICK f \in Folders : f = s.op.folder
  BY <1>1 DEF Opening
<1>3. PICK old \in Seq(Nat) : old = s.store.talks[f]
  BY <1>1 DEF StateType, StoreType
<1>4. PICK more : more = IF f = OldFolder /\ 0 \notin Range(old) \cup s.store.deleted THEN Append(old, 0) ELSE old
  OBVIOUS
<1>5. more \in Seq(Nat)
  BY <1>4
<1>6. PICK y : y = IF s.store.metas[f].version = 2 \/ ~ok THEN s ELSE [s EXCEPT !.store.talks[f] = more]
  OBVIOUS
<1>7. Sound(y) /\ DrawnKept(y) /\ Opening(y, q) /\ y.usage = s.usage
  <2>1. CASE s.store.metas[f].version = 2 \/ ~ok
    BY <1>1, <1>6, <2>1
  <2>2. CASE ~(s.store.metas[f].version = 2 \/ ~ok)
    <3>1. f # s.project.folder \/ ~Fine(s)
      <4>1. SUFFICES ASSUME f = s.project.folder, Fine(s) PROVE FALSE
        OBVIOUS
      <4>2. IsOpen(s)
        BY <4>1, FoldersAssumption DEF IsOpen
      <4>3. s.store.metas[f] = [version |-> 2, canvases |-> s.project.canvases]
        BY <1>1, <4>1, <4>2 DEF Opening, Settled, Recorded
      <4>4. s.store.metas[f].version = 2
        BY <4>3
      <4>5. QED
        BY <2>2, <4>4
    <3>2. y = [s EXCEPT !.store.talks[f] = more]
      BY <1>6, <2>2
    <3>3. Sound(y) /\ Elsewhere(y, s, q)
      BY <1>1, <1>5, <3>1, <3>2, FolderTalks
    <3>4. QED
      BY <1>1, <3>3 DEF Elsewhere
  <2>3. QED
    BY <2>1, <2>2
<1>8. x = Await(y, "migrated", ok)
  <2>1. CASE s.store.metas[f].version = 2 \/ ~ok
    BY <1>2, <1>6, <2>1 DEF Opened
  <2>2. CASE ~(s.store.metas[f].version = 2 \/ ~ok)
    <3>1. s.store.talks \in [Folders -> Seq(Nat)]
      BY <1>1 DEF StateType, StoreType
    <3>2. y = [s EXCEPT !.store.talks[f] = IF f = OldFolder /\ 0 \notin Range(@) \cup s.store.deleted
                                             THEN Append(@, 0) ELSE @]
      BY <1>1, <1>3, <1>4, <1>6, <2>2, <3>1 DEF StateType, StoreType
    <3>3. QED
      BY <1>2, <2>2, <3>2 DEF Opened
  <2>3. QED
    BY <2>1, <2>2
<1>9. OkIsTrue(y, ok) /\ "migrated" \in Awaits
  BY <1>7 DEF OkIsTrue, Chats, Fine, Awaits
<1>10. Sound(x) /\ Opening(x, q) /\ DrawnKept(x) /\ (Fine(x) => x.op.ok) /\ Waits(x, y, "migrated", ok)
  BY <1>7, <1>8, <1>9, AwaitGood
<1>11. QED
  BY <1>10 DEF Parked, AtOpened, Waits

\* The record becomes one of this version.
LEMMA MigratedGood ==
  ASSUME NEW q \in BOOLEAN,
         NEW s, Going(s, "migrated", q), NEW ok \in BOOLEAN, OkIsTrue(s, ok), NEW x, x = Migrated(s, ok)
  PROVE  Sound(x) /\ Parked(x, q)
<1>1. s \in StateType /\ Sound(s) /\ Opening(s, q) /\ DrawnKept(s)
  BY AwaitsDiffer DEF Going, Sound, AtOpened
<1>2. PICK f \in Folders : f = s.op.folder
  BY <1>1 DEF Opening
<1>3. PICK y : y = IF ok THEN [s EXCEPT !.store.metas[f].version = 2] ELSE s
  OBVIOUS
<1>4. Sound(y) /\ DrawnKept(y) /\ Opening(y, q) /\ y.usage = s.usage /\ y.op = s.op /\ (ok => y.store.metas[f].version = 2)
  <2>1. CASE ok
    <3>1. y = [s EXCEPT !.store.metas[f].version = 2]
      BY <1>3, <2>1
    <3>2. Sound(y) /\ Elsewhere(y, s, q) /\ y.store.metas[f].version = 2
      BY <1>1, <3>1, FolderMeta
    <3>3. QED
      BY <1>1, <3>2 DEF Elsewhere
  <2>2. CASE ~ok
    BY <1>1, <1>3, <2>2
  <2>3. QED
    BY <2>1, <2>2
<1>5. x = Await(y, "listed", ok)
  BY <1>2, <1>3 DEF Migrated
<1>6. OkIsTrue(y, ok) /\ "listed" \in Awaits
  BY <1>4 DEF OkIsTrue, Chats, Fine, Awaits
<1>7. Sound(x) /\ Opening(x, q) /\ DrawnKept(x) /\ (Fine(x) => x.op.ok) /\ Waits(x, y, "listed", ok)
  BY <1>4, <1>5, <1>6, AwaitGood
<1>8. Fine(x) => x.store.metas[x.op.folder].version = 2
  BY <1>2, <1>4, <1>6, <1>7 DEF Waits, OkIsTrue, Chats, Fine
<1>9. x.op.at = "listed"
  BY <1>7 DEF Waits
<1>10. QED
  BY <1>7, <1>8, <1>9 DEF Parked, AtListed

\* The references switch to the folder that was opened; its conversations are those of
\* the harness, whatever they were before.
LEMMA ListedGood ==
  ASSUME NEW q \in BOOLEAN,
         NEW s, Going(s, "listed", q), NEW ok \in BOOLEAN, OkIsTrue(s, ok), NEW r \in BOOLEAN,
         NEW x, x = Listed(s, ok)
  PROVE  Sound(x) /\ Parked(x, r)
<1>1. s \in StateType /\ Sound(s) /\ Opening(s, q) /\ DrawnKept(s) /\ AtListed(s, q)
  BY AwaitsDiffer DEF Going, Sound, AtListed
<1>2. PICK f \in Folders : f = s.op.folder
  BY <1>1 DEF Opening
<1>3. PICK m \in Meta : m = s.store.metas[f]
  BY <1>1 DEF StateType, StoreType
<1>4. PICK talks \in Seq(Nat) : talks = s.store.talks[f]
  BY <1>1 DEF StateType, StoreType
<1>5. PICK p : p = [folder |-> f, canvases |-> m.canvases, talks |-> talks, talk |-> Unselected, canvas |-> NoCanvas]
  OBVIOUS
<1>6. /\ p \in ProjectType /\ p.folder = f /\ p.canvases = m.canvases /\ p.talks = talks /\ p.canvas = NoCanvas
  BY <1>5, ThingsAreTyped DEF ProjectType, Meta
<1>7. PICK y : y = [s EXCEPT !.project = p]
  OBVIOUS
<1>8. /\ y \in StateType /\ y.store = s.store /\ y.screen = s.screen /\ y.op = s.op
      /\ y.usage = s.usage /\ y.saving = s.saving /\ y.project = p
  BY <1>1, <1>6, <1>7, ProjectIs
<1>9. Sound(y) /\ DrawnKept(y)
  <2>1. Numbers(y)
    BY <1>1, <1>8 DEF Sound, Numbers
  <2>2. OnScreen(y)
    BY <1>6, <1>8 DEF OnScreen
  <2>3. InFiles(y)
    BY <1>1, <1>8 DEF Sound, InFiles, DrawnKept
  <2>4. DrawnKept(y)
    BY <1>1, <1>8 DEF DrawnKept
  <2>5. QED
    BY <1>8, <2>1, <2>2, <2>3, <2>4 DEF Sound
<1>10. IsOpen(y) /\ TalksListed(y) /\ Entered(y) /\ OkIsTrue(y, ok)
  <2>1. f # Nowhere
    BY FoldersAssumption
  <2>2. y.op.kind = "open" /\ y.op.folder = f /\ Room(y)
    BY <1>1, <1>2, <1>8 DEF Opening, Room
  <2>3. QED
    BY <1>4, <1>6, <1>8, <1>9, <2>1, <2>2 DEF IsOpen, TalksListed, Entered, OkIsTrue, Chats, Fine
<1>11. Fine(y) => Recorded(y)
  <2>1. SUFFICES ASSUME Fine(y) PROVE Recorded(y)
    OBVIOUS
  <2>2. m.version = 2
    BY <1>1, <1>2, <1>3, <1>8, <2>1 DEF AtListed, Chats, Fine
  <2>3. m = [version |-> 2, canvases |-> m.canvases]
    BY <2>2 DEF Meta
  <2>4. QED
    BY <1>3, <1>6, <1>8, <2>3 DEF Recorded
<1>12. CASE talks = <<>>
  <2>1. x = CreateTalk(y, ok)
    BY <1>2, <1>3, <1>4, <1>5, <1>7, <1>12 DEF Listed
  <2>2. CreateIn(y, r)
    BY <1>9, <1>10, <1>11 DEF CreateIn
  <2>3. QED
    BY <1>10, <2>1, <2>2, CreateTalkGood
<1>13. CASE talks # <<>>
  <2>1. x = Activate(y, talks[1], ok)
    BY <1>2, <1>3, <1>4, <1>5, <1>7, <1>13 DEF Listed
  <2>2. talks[1] \in Nat /\ talks[1] \in Range(y.project.talks)
    BY <1>6, <1>8, <1>13, FirstOf
  <2>3. SelectFor(y, talks[1], r)
    BY <1>9, <1>10, <1>11, <2>2 DEF SelectFor
  <2>4. QED
    BY <1>10, <2>1, <2>3, ActivateGood
<1>14. QED
  BY <1>12, <1>13

\* x is s with another list of conversations, or another one chosen.
OtherTalkOf(x, s) ==
  /\ DrawnKept(s) => DrawnKept(x)
  /\ Recorded(s) => Recorded(x)
  /\ CanvasShown(s) => CanvasShown(x)
  /\ Entered(s) => Entered(x)
  /\ x.op = s.op /\ x.usage = s.usage /\ x.store = s.store /\ x.project.folder = s.project.folder
  /\ x.project.canvases = s.project.canvases

\* The list of conversations is read from the harness.
LEMMA ListingIs ==
  ASSUME NEW s, Sound(s), IsOpen(s), NEW x, x = [s EXCEPT !.project.talks = s.store.talks[s.project.folder]]
  PROVE  /\ Sound(x) /\ TalksListed(x) /\ IsOpen(x) /\ OtherTalkOf(x, s)
         /\ x.project.talk = s.project.talk /\ x.project.talks \in Seq(Nat)
         /\ x.project.talks = s.store.talks[s.project.folder]
<1>1. s \in StateType
  BY DEF Sound
<1>2. PICK talks \in Seq(Nat) : talks = s.store.talks[s.project.folder]
  BY <1>1 DEF IsOpen, StateType, StoreType, ProjectType
<1>3. PICK p : p = [s.project EXCEPT !.talks = talks]
  OBVIOUS
<1>4. /\ p \in ProjectType /\ p.folder = s.project.folder /\ p.canvases = s.project.canvases
      /\ p.canvas = s.project.canvas /\ p.talk = s.project.talk /\ p.talks = talks
  BY <1>1, <1>3 DEF StateType, ProjectType
<1>5. x = [s EXCEPT !.project = p]
  BY <1>1, <1>2, <1>3 DEF StateType
<1>6. /\ x \in StateType /\ x.store = s.store /\ x.screen = s.screen /\ x.op = s.op
      /\ x.usage = s.usage /\ x.saving = s.saving /\ x.project = p
  BY <1>1, <1>4, <1>5 DEF StateType
<1>7. SamePictures(x, s) /\ x.op.scene.edit <= x.usage.edits
  BY <1>4, <1>6 DEF SamePictures, Sound, Numbers
<1>8. Sound(x) /\ (DrawnKept(s) => DrawnKept(x))
  BY <1>6, <1>7, SamePicturesSound
<1>9. TalksListed(x) /\ IsOpen(x)
  BY <1>2, <1>4, <1>6 DEF TalksListed, IsOpen
<1>10. (Recorded(s) => Recorded(x)) /\ (CanvasShown(s) => CanvasShown(x))
  BY <1>4, <1>6 DEF Recorded, CanvasShown
<1>11. Entered(s) => Entered(x)
  BY <1>4, <1>6, <1>8 DEF Entered, Room
<1>12. QED
  BY <1>2, <1>4, <1>6, <1>8, <1>9, <1>10, <1>11 DEF OtherTalkOf

\* x is s with conversation t chosen, or none.
Chooses(x, s, t) ==
  IsOpen(x) /\ OtherTalkOf(x, s) /\ x.project.talk = t /\ x.project.talks = s.project.talks
Due(due) == due \in {"none", "scene", "meta"}
Chosen(s, t, due) == [s EXCEPT !.project.talk = t, !.saving = due]
LEMMA ChoosingIs ==
  ASSUME NEW s, Sound(s), IsOpen(s), NEW t \in Nat, NEW due, Due(due),
         NEW x, x = Chosen(s, t, due)
  PROVE  Sound(x) /\ Chooses(x, s, t)
<1>1. s \in StateType
  BY DEF Sound
<1>2. PICK p : p = [s.project EXCEPT !.talk = t]
  OBVIOUS
<1>3. /\ p \in ProjectType /\ p.folder = s.project.folder /\ p.canvases = s.project.canvases
      /\ p.canvas = s.project.canvas /\ p.talk = t /\ p.talks = s.project.talks
  BY <1>1, <1>2 DEF StateType, ProjectType
<1>4. x = [s EXCEPT !.project = p, !.saving = due]
  BY <1>1, <1>2 DEF StateType, Chosen
<1>5. /\ x \in StateType /\ x.store = s.store /\ x.screen = s.screen /\ x.op = s.op
      /\ x.usage = s.usage /\ x.project = p
  BY <1>1, <1>3, <1>4 DEF StateType, Due
<1>6. SamePictures(x, s) /\ x.op.scene.edit <= x.usage.edits
  BY <1>3, <1>5 DEF SamePictures, Sound, Numbers
<1>7. Sound(x) /\ (DrawnKept(s) => DrawnKept(x))
  BY <1>5, <1>6, SamePicturesSound
<1>8. IsOpen(x)
  BY <1>3, <1>5 DEF IsOpen
<1>9. (Recorded(s) => Recorded(x)) /\ (CanvasShown(s) => CanvasShown(x))
  BY <1>3, <1>5 DEF Recorded, CanvasShown
<1>10. Entered(s) => Entered(x)
  BY <1>3, <1>5, <1>7 DEF Entered, Room
<1>11. QED
  BY <1>3, <1>5, <1>7, <1>8, <1>9, <1>10 DEF OtherTalkOf, Chooses

\* The conversation is deleted; another is chosen if it was the chosen one.
LEMMA TalkDeletedGood ==
  ASSUME NEW q \in BOOLEAN,
         NEW s, Going(s, "talk deleted", q), NEW ok \in BOOLEAN, OkIsTrue(s, ok), NEW x, x = TalkDeleted(s, ok)
  PROVE  Sound(x) /\ Parked(x, q)
<1>1. s \in StateType /\ Sound(s) /\ AtTalkDeleted(s, q) /\ IsOpen(s)
  BY AwaitsDiffer DEF Going, Sound, AtTalkDeleted
<1>2. PICK y : y = [s EXCEPT !.project.talks = s.store.talks[s.project.folder]]
  OBVIOUS
<1>3. /\ Sound(y) /\ TalksListed(y) /\ IsOpen(y) /\ OtherTalkOf(y, s)
      /\ y.project.talk = s.project.talk /\ y.project.talks \in Seq(Nat)
      /\ y.project.talks = s.store.talks[s.project.folder]
  BY <1>1, <1>2, ListingIs
<1>4. OkIsTrue(y, ok) /\ y.op.kind = "delete talk" /\ s.op.place > 0 /\ s.op.place \in Nat
  BY <1>1, <1>3 DEF OtherTalkOf, AtTalkDeleted, OkIsTrue, Chats, Fine, StateType, OpType
<1>5. (Fine(y) => Recorded(y)) /\ (Fine(y) => CanvasShown(y))
  BY <1>1, <1>3 DEF OtherTalkOf, AtTalkDeleted, Chats, Fine
<1>6. CASE s.project.talk # s.op.target
  <2>1. x = KeepMeta(y, ok)
    BY <1>2, <1>6 DEF TalkDeleted
  <2>2. Chats(y, q) => TalkChosen(y)
    <3>1. SUFFICES ASSUME Chats(y, q) PROVE y.project.talk \in Range(y.project.talks)
      BY DEF TalkChosen
    <3>2. /\ s.project.talk \in Range(s.project.talks)
          /\ Range(s.project.talks) \ {s.op.target} \subseteq Range(s.store.talks[s.project.folder])
      BY <1>1, <1>3, <3>1 DEF OtherTalkOf, AtTalkDeleted, Chats, Fine, TalkChosen
    <3>3. QED
      BY <1>3, <1>6, <3>2
  <2>3. QED
    BY <1>3, <1>4, <1>5, <2>1, <2>2, KeepMetaGood
<1>7. CASE s.project.talk = s.op.target
  <2>1. PICK z : z = [y EXCEPT !.project.talk = Unselected]
    OBVIOUS
  <2>2. PICK due : due = y.saving /\ Due(due)
    BY <1>3 DEF Sound, StateType, Due
  <2>3. PICK t \in Nat : t = Unselected
    BY ThingsAreTyped
  <2>4. z = Chosen(y, t, due)
    BY <1>3, <2>1, <2>2, <2>3 DEF Sound, StateType, Chosen
  <2>5. /\ Sound(z) /\ IsOpen(z) /\ OtherTalkOf(z, y) /\ z.project.talks = y.project.talks
    <3>1. Sound(z) /\ Chooses(z, y, t)
      BY <1>3, <2>4, <2>2, ChoosingIs
    <3>2. QED
      BY <3>1 DEF Chooses
  <2>6. OkIsTrue(z, ok) /\ z.op.kind = "delete talk" /\ TalksListed(z)
    BY <1>3, <1>4, <2>5 DEF OtherTalkOf, OkIsTrue, Chats, Fine, TalksListed
  <2>7. (Fine(z) => Recorded(z)) /\ (Fine(z) => CanvasShown(z))
    BY <1>5, <2>5 DEF OtherTalkOf, Chats, Fine
  <2>8. CASE z.project.talks = <<>>
    <3>1. x = CreateTalk(z, ok)
      BY <1>2, <1>7, <2>1, <2>8 DEF TalkDeleted
    <3>2. CreateIn(z, q)
      BY <2>5, <2>6, <2>7 DEF CreateIn
    <3>3. QED
      BY <2>6, <3>1, <3>2, CreateTalkGood
  <2>9. CASE z.project.talks # <<>>
    <3>1. PICK u : u = Remaining(z.project.talks, s.op.place)
      OBVIOUS
    <3>2. x = Activate(z, u, ok)
      BY <1>2, <1>7, <2>1, <2>9, <3>1 DEF TalkDeleted
    <3>3. z.project.talks \in Seq(Nat)
      BY <1>3, <2>5
    <3>4. u \in Nat /\ u \in Range(z.project.talks)
      BY <1>4, <2>9, <3>1, <3>3, RemainingOf
    <3>5. SelectFor(z, u, q)
      BY <2>5, <2>6, <2>7, <3>4 DEF SelectFor
    <3>6. QED
      BY <2>6, <3>2, <3>5, ActivateGood
  <2>10. QED
    BY <2>8, <2>9
<1>8. QED
  BY <1>6, <1>7

\* The conversation that was made is selected.
LEMMA TalkCreatedGood ==
  ASSUME NEW q \in BOOLEAN,
         NEW s, Going(s, "talk created", q), NEW ok \in BOOLEAN, OkIsTrue(s, ok),
         NEW x, x = Activate([s EXCEPT !.project.talks = s.store.talks[s.project.folder]], s.op.place, ok)
  PROVE  Sound(x) /\ Parked(x, q)
<1>1. s \in StateType /\ Sound(s) /\ AtTalkCreated(s, q) /\ IsOpen(s)
  BY AwaitsDiffer DEF Going, Sound, AtTalkCreated
<1>2. PICK y : y = [s EXCEPT !.project.talks = s.store.talks[s.project.folder]]
  OBVIOUS
<1>3. /\ Sound(y) /\ TalksListed(y) /\ IsOpen(y) /\ OtherTalkOf(y, s)
      /\ y.project.talks = s.store.talks[s.project.folder]
  BY <1>1, <1>2, ListingIs
<1>4. OkIsTrue(y, ok) /\ s.op.place \in Nat
  BY <1>1, <1>3 DEF OtherTalkOf, OkIsTrue, Chats, Fine, StateType, OpType
<1>5. (Fine(y) => Recorded(y)) /\ (Chats(y, q) => s.op.place \in Range(y.project.talks))
  BY <1>1, <1>3 DEF OtherTalkOf, AtTalkCreated, Chats, Fine
<1>6. \/ Entered(y)
      \/ y.op.kind \in {"new talk", "delete talk"} /\ (Fine(y) => CanvasShown(y))
  BY <1>1, <1>3 DEF OtherTalkOf, AtTalkCreated, Chats, Fine
<1>7. SelectFor(y, s.op.place, q)
  BY <1>3, <1>4, <1>5, <1>6 DEF SelectFor
<1>8. QED
  BY <1>2, <1>4, <1>7, ActivateGood

\* The conversation is selected; a folder that is opened then shows a canvas.
LEMMA TalkSelectedGood ==
  ASSUME NEW q \in BOOLEAN,
         NEW s, Going(s, "talk selected", q), NEW ok \in BOOLEAN, OkIsTrue(s, ok), NEW x, x = TalkSelected(s, ok)
  PROVE  Sound(x) /\ Ready(x, q)
<1>1. s \in StateType /\ Sound(s) /\ AtTalkSelected(s, q) /\ IsOpen(s)
  BY AwaitsDiffer DEF Going, Sound, AtTalkSelected
<1>2. PICK y : y = [s EXCEPT !.project.talk = s.op.place, !.saving = "scene"]
  OBVIOUS
<1>3. s.op.place \in Nat
  BY <1>1 DEF StateType, OpType
<1>4. PICK due : due = "scene" /\ Due(due)
  BY DEF Due
<1>5. PICK t \in Nat : t = s.op.place
  BY <1>3
<1>6. y = Chosen(s, t, due)
  BY <1>2, <1>4, <1>5 DEF Chosen
<1>7. /\ Sound(y) /\ IsOpen(y) /\ OtherTalkOf(y, s)
      /\ y.project.talk = s.op.place /\ y.project.talks = s.project.talks
  <2>1. Sound(y) /\ Chooses(y, s, t)
    BY <1>1, <1>4, <1>6, ChoosingIs
  <2>2. QED
    BY <1>5, <2>1 DEF Chooses
<1>8. OkIsTrue(y, ok) /\ (Fine(y) => Recorded(y)) /\ (Chats(y, q) => TalksListed(y)) /\ (Chats(y, q) => TalkChosen(y))
  BY <1>1, <1>7 DEF OtherTalkOf, TalksListed, AtTalkSelected, OkIsTrue, Chats, Fine, TalkChosen
<1>9. CASE Entered(s)
  <2>1. /\ Entered(y) /\ y.op.kind = "open" /\ Room(y) /\ DrawnKept(y) /\ y.op.folder = y.project.folder
    BY <1>7, <1>9 DEF OtherTalkOf, Entered
  <2>2. s.op.kind = "open"
    BY <1>9 DEF Entered
  <2>3. CASE s.project.canvases = <<>>
    <3>1. x = AddCanvas(y, ok)
      BY <1>2, <2>2, <2>3 DEF TalkSelected
    <3>2. Fine(y) => y.store.metas[y.project.folder].canvases = <<>>
      <4>1. SUFFICES ASSUME Fine(y) PROVE y.store.metas[y.project.folder].canvases = <<>>
        OBVIOUS
      <4>2. PICK m : m = [version |-> 2, canvases |-> y.project.canvases]
        OBVIOUS
      <4>3. y.store.metas[y.project.folder] = m
        BY <1>8, <4>1, <4>2 DEF Recorded
      <4>4. m.canvases = <<>>
        BY <1>7, <2>3, <4>2 DEF OtherTalkOf
      <4>5. QED
        BY <4>3, <4>4
    <3>3. AddTo(y, q)
      BY <1>7, <1>8, <2>1, <3>2 DEF AddTo
    <3>4. QED
      BY <1>8, <3>1, <3>3, AddCanvasGood DEF Ready
  <2>4. CASE s.project.canvases # <<>>
    <3>1. PICK c : c = s.project.canvases[1]
      OBVIOUS
    <3>2. x = Load(y, c, ok)
      BY <1>2, <2>2, <2>4, <3>1 DEF TalkSelected
    <3>3. s.project.canvases \in Seq(CanvasIds)
      BY <1>1 DEF StateType, ProjectType
    <3>4. c \in CanvasIds /\ c \in Range(y.project.canvases)
      BY <1>7, <2>4, <3>1, <3>3, FirstOf DEF OtherTalkOf
    <3>5. ReadFor(y, c, q)
      BY <1>7, <1>8, <2>1, <3>4 DEF ReadFor
    <3>6. QED
      BY <1>8, <3>2, <3>5, LoadGood DEF Ready
  <2>5. QED
    BY <2>3, <2>4
<1>10. CASE s.op.kind \in {"new talk", "delete talk", "select talk"} /\ (Fine(s) => CanvasShown(s))
  <2>1. Fine(y) => CanvasShown(y)
    BY <1>7, <1>10 DEF OtherTalkOf, Chats, Fine
  <2>2. CASE s.op.kind = "delete talk"
    <3>1. x = KeepMeta(y, ok)
      BY <1>2, <2>2 DEF TalkSelected
    <3>2. y.op.kind = "delete talk"
      BY <1>7, <2>2 DEF OtherTalkOf
    <3>3. Sound(x) /\ Parked(x, q)
      BY <1>7, <1>8, <2>1, <3>1, <3>2, KeepMetaGood
    <3>4. QED
      BY <3>3 DEF Ready
  <2>3. CASE s.op.kind # "delete talk"
    <3>1. x = EndOp(y)
      BY <1>2, <1>10, <2>3 DEF TalkSelected
    <3>2. Settled(y, q)
      BY <1>8, <2>1 DEF Settled
    <3>3. QED
      BY <1>7, <3>1, <3>2, EndOpGood
  <2>4. QED
    BY <2>2, <2>3
<1>11. QED
  BY <1>1, <1>9, <1>10 DEF AtTalkSelected

\* Every transition, at each of its awaits, is parked at the next one or has ended.
LEMMA ResumeGood ==
  ASSUME NEW q \in BOOLEAN,
         NEW s0, Sound(s0), Parked(s0, q), NEW ok \in BOOLEAN, NEW s, s = Broken(s0, ok), NEW x, x = Resume(s, ok),
         NEW r \in BOOLEAN, (s0.op.at = "listed" /\ s0.op.ok) \/ r = q
  PROVE  Sound(x) /\ Ready(x, r)
<1>0. s.op = s0.op
  <2>1. s0 \in StateType
    BY DEF Sound
  <2>2. QED
    BY <2>1, BrokenIs
<1>1. Sound(s) /\ OkIsTrue(s, ok) /\ Parked(s, q)
  BY BrokenKeeps
<1>2. CASE ~s.op.ok
  <2>1. x = EndOp(s)
    BY <1>2 DEF Resume
  <2>2. Settled(s, r)
    BY <1>1, <1>2 DEF Parked, Settled, Chats
  <2>3. QED
    BY <1>1, <2>1, <2>2, EndOpGood
<1>3. CASE s.op.ok
  <2>0. s.op.at # "listed" => r = q
    BY <1>0
  <2>1. s.op.at \in Awaits
    BY <1>1, AwaitsDiffer
  <2>2. CASE s.op.at = "scene kept"
    <3>1. x = SceneKept(s, ok)
      BY <1>3, <2>2 DEF Resume
    <3>2. Sound(x) /\ Parked(x, q)
      BY <1>1, <1>3, <2>2, <3>1, SceneKeptGood DEF Going
    <3>3. QED
      BY <2>0, <2>2, <3>2 DEF Ready
  <2>3. CASE s.op.at = "scene read"
    <3>1. x = SceneRead(s, ok)
      BY <1>3, <2>3 DEF Resume
    <3>2. QED
      BY <2>0, <1>1, <1>3, <2>3, <3>1, SceneReadGood DEF Going
  <2>4. CASE s.op.at = "meta kept"
    <3>1. x = MetaKept(s, ok)
      BY <1>3, <2>4 DEF Resume
    <3>2. QED
      BY <2>0, <1>1, <1>3, <2>4, <3>1, MetaKeptGood DEF Going
  <2>5. CASE s.op.at = "opened"
    <3>1. x = Opened(s, ok)
      BY <1>3, <2>5 DEF Resume
    <3>2. Sound(x) /\ Parked(x, q)
      BY <1>1, <1>3, <2>5, <3>1, OpenedGood DEF Going
    <3>3. QED
      BY <2>0, <2>5, <3>2 DEF Ready
  <2>6. CASE s.op.at = "migrated"
    <3>1. x = Migrated(s, ok)
      BY <1>3, <2>6 DEF Resume
    <3>2. Sound(x) /\ Parked(x, q)
      BY <1>1, <1>3, <2>6, <3>1, MigratedGood DEF Going
    <3>3. QED
      BY <2>0, <2>6, <3>2 DEF Ready
  <2>7. CASE s.op.at = "listed"
    <3>1. x = Listed(s, ok)
      BY <1>3, <2>7 DEF Resume
    <3>2. Sound(x) /\ Parked(x, r)
      BY <1>1, <1>3, <2>7, <3>1, ListedGood DEF Going
    <3>3. QED
      BY <3>2 DEF Ready
  <2>8. CASE s.op.at = "talk deleted"
    <3>1. x = TalkDeleted(s, ok)
      BY <1>3, <2>8 DEF Resume
    <3>2. Sound(x) /\ Parked(x, q)
      BY <1>1, <1>3, <2>8, <3>1, TalkDeletedGood DEF Going
    <3>3. QED
      BY <2>0, <2>8, <3>2 DEF Ready
  <2>9. CASE s.op.at = "talk created"
    <3>1. x = Activate([s EXCEPT !.project.talks = s.store.talks[s.project.folder]], s.op.place, ok)
      BY <1>3, <2>9 DEF Resume
    <3>2. Sound(x) /\ Parked(x, q)
      BY <1>1, <1>3, <2>9, <3>1, TalkCreatedGood DEF Going
    <3>3. QED
      BY <2>0, <2>9, <3>2 DEF Ready
  <2>10. CASE s.op.at = "talk selected"
    <3>1. x = TalkSelected(s, ok)
      BY <1>3, <2>10 DEF Resume
    <3>2. QED
      BY <2>0, <1>1, <1>3, <2>10, <3>1, TalkSelectedGood DEF Going
  <2>11. CASE s.op.at = "removed"
    <3>1. x = EndOp(s)
      BY <1>3, <2>11 DEF Resume
    <3>2. Settled(s, q)
      BY <1>1, <2>11, AwaitsDiffer DEF AtRemoved
    <3>3. QED
      BY <2>0, <2>11, <1>1, <3>1, <3>2, EndOpGood
  <2>12. QED
    BY <2>1, <2>2, <2>3, <2>4, <2>5, <2>6, <2>7, <2>8, <2>9, <2>10, <2>11 DEF Awaits
<1>4. QED
  BY <1>2, <1>3

-----------------------------------------------------------------------------
(* What runs beside the transitions leaves their invariant alone.          *)

\* Outside the transitions only the picture changes, and the files of what is open; and
\* the conversations if not q.
LeavesWork(x, s, q) ==
  /\ x.op = s.op /\ x.usage.canvases = s.usage.canvases
  /\ x.project.folder = s.project.folder /\ x.project.canvases = s.project.canvases
  /\ x.project.canvas = s.project.canvas
  /\ q => x.project = s.project /\ x.store.talks = s.store.talks
  /\ Fine(x) => Fine(s)
  /\ s.op # NoOp => x.usage.drawn = s.usage.drawn
  /\ s.op # NoOp /\ DrawnKept(s) => DrawnKept(x)
LeavesMetas(x, s) ==
  \A f \in Folders :
    \/ x.store.metas[f] = s.store.metas[f]
    \/ f = s.project.folder /\ x.store.metas[f] = [version |-> 2, canvases |-> s.project.canvases]

\* Then what a transition, or an import, relies on still holds.
LEMMA Beside ==
  ASSUME NEW q \in BOOLEAN,
         NEW s, Sound(s), NEW x, Sound(x), LeavesWork(x, s, q), LeavesMetas(x, s)
  PROVE  /\ Ready(s, q) => Ready(x, q)
         /\ \A i : q /\ Importing(s, i) => Importing(x, i)
<1>1. s \in StateType /\ x \in StateType
  BY DEF Sound
<1>2. /\ x.op = s.op /\ x.usage.canvases = s.usage.canvases
      /\ x.project.folder = s.project.folder /\ x.project.canvases = s.project.canvases
      /\ x.project.canvas = s.project.canvas
      /\ q => x.project = s.project /\ x.store.talks = s.store.talks
  BY DEF LeavesWork
<1>3. /\ CanvasShown(x) = CanvasShown(s) /\ IsOpen(x) = IsOpen(s)
      /\ Selecting(x) = Selecting(s) /\ Room(x) = Room(s) /\ Adding(x) = Adding(s)
      /\ q => TalksListed(x) = TalksListed(s) /\ TalkChosen(x) = TalkChosen(s)
  BY <1>2 DEF CanvasShown, TalksListed, TalkChosen, IsOpen, Selecting, Room, Adding
<1>4. Fine(x) => Fine(s)
  BY DEF LeavesWork
<1>5. IsOpen(s) /\ Recorded(s) => Recorded(x)
  <2>1. IsOpen(s) => s.project.folder \in Folders
    BY <1>1 DEF IsOpen, StateType, ProjectType
  <2>2. QED
    BY <1>2, <2>1 DEF LeavesMetas, Recorded
<1>6. Settled(s, q) => Settled(x, q)
  BY <1>3, <1>4, <1>5 DEF Settled, Chats
<1>7. ASSUME NEW i, q, Importing(s, i) PROVE Importing(x, i)
  BY <1>2, <1>3, <1>4, <1>5, <1>7 DEF Importing
<1>8. ASSUME Parked(s, q) PROVE Parked(x, q)
  <2>1. s.op # NoOp
    BY <1>8, AwaitsDiffer, ThingsAreTyped DEF Awaits
  <2>2. x.usage.drawn = s.usage.drawn /\ (DrawnKept(s) => DrawnKept(x))
    BY <2>1 DEF LeavesWork
  <2>3. Erased(x) = Erased(s) /\ (Entered(s) => Entered(x)) /\ (Opening(s, q) => Opening(x, q))
    BY <1>2, <1>3, <1>6, <2>2 DEF Erased, Entered, Opening
  <2>4. AtSceneKept(s, q) => AtSceneKept(x, q)
    BY <1>2, <1>3, <1>6, <2>2, <2>3 DEF AtSceneKept
  <2>5. AtSceneRead(s, q) => AtSceneRead(x, q)
    <3>1. SUFFICES ASSUME AtSceneRead(s, q) PROVE AtSceneRead(x, q)
      OBVIOUS
    <3>2. IsOpen(s) /\ s.project.folder \in Folders
      BY <1>1, <3>1 DEF AtSceneRead, IsOpen, StateType, ProjectType
    <3>3. \/ x.store.metas[x.project.folder] = s.store.metas[s.project.folder]
          \/ Recorded(x)
      BY <1>2, <3>2 DEF LeavesMetas, Recorded
    <3>4. Recorded(s) => Recorded(x)
      BY <1>5, <3>2
    <3>5. DrawnKept(x) /\ IsOpen(x) /\ (Chats(x, q) => TalksListed(x) /\ TalkChosen(x))
      BY <1>3, <1>4, <2>2, <3>1 DEF AtSceneRead, Chats
    <3>6. /\ x.op.place \in Range(x.project.canvases)
          /\ x.op.scene.of = x.op.place /\ x.op.scene.edit >= x.usage.drawn[x.op.place]
      BY <1>2, <2>2, <3>1 DEF AtSceneRead
    <3>7. \/ x.op.kind = "new canvas"
          \/ x.op.kind = "delete canvas" /\ Erased(x)
          \/ x.op.kind = "select canvas" /\ (Fine(x) => Recorded(x))
          \/ /\ x.op.kind = "open" /\ x.op.folder = x.project.folder
             /\ Fine(x) => Recorded(x) \/ x.store.metas[x.project.folder].canvases = <<>>
      <4>1. CASE s.op.kind = "new canvas" \/ (s.op.kind = "delete canvas" /\ Erased(s))
        BY <1>2, <2>3, <4>1
      <4>2. CASE s.op.kind = "select canvas" /\ (Fine(s) => Recorded(s))
        BY <1>2, <1>4, <3>4, <4>2
      <4>3. CASE /\ s.op.kind = "open" /\ s.op.folder = s.project.folder
                 /\ Fine(s) => Recorded(s) \/ s.store.metas[s.project.folder].canvases = <<>>
        BY <1>2, <1>4, <3>3, <3>4, <4>3
      <4>4. QED
        BY <3>1, <4>1, <4>2, <4>3 DEF AtSceneRead
    <3>8. QED
      BY <3>5, <3>6, <3>7 DEF AtSceneRead
  <2>6. AtMetaKept(s, q) => AtMetaKept(x, q)
    BY <1>2, <1>6, <2>2, <2>3 DEF AtMetaKept
  <2>7. (AtOpened(s, q) => AtOpened(x, q)) /\ (AtRemoved(s, q) => AtRemoved(x, q))
    BY <1>6, <2>2, <2>3 DEF AtOpened, AtRemoved
  <2>8. AtListed(s, q) => AtListed(x, q)
    <3>1. SUFFICES ASSUME AtListed(s, q) PROVE AtListed(x, q)
      OBVIOUS
    <3>2. s.op.folder \in Folders
      BY <3>1 DEF AtListed, Opening
    <3>3. Fine(x) => x.store.metas[x.op.folder].version = 2
      <4>1. PICK m : m = [version |-> 2, canvases |-> s.project.canvases]
        OBVIOUS
      <4>2. x.store.metas[x.op.folder] = s.store.metas[s.op.folder] \/ x.store.metas[x.op.folder] = m
        BY <1>2, <3>2, <4>1 DEF LeavesMetas
      <4>3. m.version = 2
        BY <4>1
      <4>4. QED
        BY <1>2, <1>4, <3>1, <4>2, <4>3 DEF AtListed
    <3>4. QED
      BY <1>4, <2>2, <2>3, <3>1, <3>3 DEF AtListed
  <2>9. AtTalkDeleted(s, q) => AtTalkDeleted(x, q)
    BY <1>2, <1>3, <1>4, <1>5 DEF AtTalkDeleted, Chats
  <2>10. AtTalkCreated(s, q) => AtTalkCreated(x, q)
    BY <1>2, <1>3, <1>4, <1>5, <2>3 DEF AtTalkCreated, Chats
  <2>11. AtTalkSelected(s, q) => AtTalkSelected(x, q)
    BY <1>2, <1>3, <1>4, <1>5, <2>3 DEF AtTalkSelected, Chats
  <2>12. Fine(x) => x.op.ok
    BY <1>2, <1>4, <1>8 DEF Parked
  <2>13. QED
    BY <1>2, <1>8, <2>4, <2>5, <2>6, <2>7, <2>8, <2>9, <2>10, <2>11, <2>12 DEF Parked
<1>9. QED
  BY <1>2, <1>6, <1>7, <1>8 DEF Ready

-----------------------------------------------------------------------------
(* The commands begin transitions.                                         *)

\* A command is given in a state where nothing is under way.
Begun(s, kind, target, q) ==
  /\ Sound(s) /\ Settled(s, q) /\ IsOpen(s) /\ s.op.kind = kind /\ s.op.target = target
  /\ s.op.scene = NoScene

\* A command that begins changes nothing but what is under way.
LEMMA StartingIs ==
  ASSUME NEW q \in BOOLEAN,
         NEW s, Sound(s), Settled(s, q), NEW kind \in Commands, NEW target \in Nat, NEW ok \in BOOLEAN,
         OkIsTrue(s, ok), NEW x, x = Starting(s, kind, target)
  PROVE  /\ Sound(x) /\ Settled(x, q) /\ OkIsTrue(x, ok) /\ x.op.kind = kind /\ x.op.target = target
         /\ x.project = s.project /\ x.store = s.store /\ x.usage.canvases = s.usage.canvases
         /\ x.screen = s.screen /\ x.saving = s.saving /\ x.op.scene = NoScene /\ x.op.place = 0
<1>1. s \in StateType
  BY DEF Sound
<1>2. PICK o : o = [NoOp EXCEPT !.kind = kind, !.target = target]
  OBVIOUS
<1>3. o \in OpType /\ o.kind = kind /\ o.target = target /\ o.scene = NoScene /\ o.place = 0
  BY <1>2, ThingsAreTyped DEF OpType
<1>4. PICK n \in Nat : n = s.usage.commands + 1
  BY <1>1 DEF StateType, UsageType
<1>5. PICK u : u = [s.usage EXCEPT !.commands = n]
  OBVIOUS
<1>6. /\ u \in UsageType /\ u.drawn = s.usage.drawn /\ u.edits = s.usage.edits /\ u.breaks = s.usage.breaks
      /\ u.canvases = s.usage.canvases
  BY <1>1, <1>5 DEF UsageType, StateType
<1>7. x = [s EXCEPT !.op = o, !.usage = u]
  BY <1>1, <1>2, <1>4, <1>5 DEF Starting, StateType, UsageType
<1>8. /\ x \in StateType /\ x.store = s.store /\ x.project = s.project /\ x.screen = s.screen
      /\ x.op = o /\ x.usage = u /\ x.saving = s.saving
  BY <1>1, <1>3, <1>6, <1>7 DEF StateType
<1>9. SamePictures(x, s) /\ x.op.scene.edit <= x.usage.edits
  <2>1. s.usage.edits \in Nat
    BY <1>1 DEF StateType, UsageType
  <2>2. QED
    BY <1>3, <1>6, <1>8, <2>1, ThingsAreTyped DEF SamePictures
<1>10. Sound(x)
  BY <1>8, <1>9, SamePicturesSound
<1>11. Settled(x, q) /\ OkIsTrue(x, ok)
  BY <1>6, <1>8 DEF OkIsTrue, Settled, Chats, Fine, IsOpen, CanvasShown, Recorded, TalksListed, TalkChosen
<1>12. QED
  BY <1>3, <1>6, <1>8, <1>10, <1>11

\* The list of canvases without the deleted one; nothing of the user's is on it.
Lessened(s, c) == [s EXCEPT !.project.canvases = Without(@, c), !.usage.drawn[c] = 0]

\* x is s without canvas c.
Lessens(x, s, c) ==
  /\ Erased(x) /\ x.op = s.op /\ x.store = s.store /\ x.screen = s.screen
  /\ x.project.canvases \in Seq(CanvasIds) /\ x.project.folder = s.project.folder
  /\ x.project.talks = s.project.talks /\ x.project.talk = s.project.talk
  /\ x.project.canvas = s.project.canvas /\ x.usage.canvases = s.usage.canvases
  /\ x.usage.breaks = s.usage.breaks
  /\ \A d \in Range(s.project.canvases) : d # c => d \in Range(x.project.canvases)

LEMMA LessenedIs ==
  ASSUME NEW s, Sound(s), NEW c \in CanvasIds, s.op.target = c, NEW x, x = Lessened(s, c)
  PROVE  Sound(x) /\ Lessens(x, s, c)
<1>1. s \in StateType
  BY DEF Sound
<1>2. PICK less : less = Without(s.project.canvases, c)
  OBVIOUS
<1>3. less \in Seq(CanvasIds) /\ \A d \in Range(s.project.canvases) : d # c => d \in Range(less)
  <2>1. PICK all \in Seq(CanvasIds) : all = s.project.canvases
    BY <1>1 DEF StateType, ProjectType
  <2>2. less = Without(all, c)
    BY <1>2, <2>1
  <2>3. QED
    BY <2>1, <2>2, WithoutOf
<1>4. PICK p : p = [s.project EXCEPT !.canvases = less]
  OBVIOUS
<1>5. /\ p \in ProjectType /\ p.canvases = less /\ p.folder = s.project.folder /\ p.talks = s.project.talks
      /\ p.talk = s.project.talk /\ p.canvas = s.project.canvas
  BY <1>1, <1>3, <1>4 DEF StateType, ProjectType
<1>6. PICK z : z = [s.usage.drawn EXCEPT ![c] = 0]
  OBVIOUS
<1>7. z \in [CanvasIds -> Nat] /\ \A d \in CanvasIds : z[d] = IF d = c THEN 0 ELSE s.usage.drawn[d]
  BY <1>1, <1>6 DEF StateType, UsageType
<1>8. PICK u : u = [s.usage EXCEPT !.drawn = z]
  OBVIOUS
<1>9. /\ u \in UsageType /\ u.drawn = z /\ u.edits = s.usage.edits /\ u.canvases = s.usage.canvases
      /\ u.breaks = s.usage.breaks
  BY <1>1, <1>7, <1>8 DEF StateType, UsageType
<1>10. x = [s EXCEPT !.project = p, !.usage = u]
  BY <1>1, <1>2, <1>4, <1>6, <1>8 DEF Lessened, StateType, ProjectType, UsageType
<1>11. /\ x \in StateType /\ x.store = s.store /\ x.project = p /\ x.screen = s.screen /\ x.op = s.op
       /\ x.usage = u
  BY <1>1, <1>5, <1>9, <1>10 DEF StateType
<1>12. s.usage.edits \in Nat /\ s.screen.edit \in Nat /\ s.store.scenes[c].edit \in Nat
  BY <1>1 DEF StateType, UsageType, StoreType, Scene
<1>13. Numbers(x)
  BY <1>7, <1>9, <1>11, <1>12 DEF Sound, Numbers
<1>14. OnScreen(x)
  <2>1. s.project.canvas \in CanvasIds \cup {NoCanvas}
    BY <1>1 DEF StateType, ProjectType
  <2>2. QED
    BY <1>5, <1>7, <1>9, <1>11, <1>12, <2>1 DEF Sound, OnScreen
<1>15. InFiles(x)
  BY <1>5, <1>7, <1>9, <1>11, <1>12 DEF Sound, InFiles
<1>16. Erased(x)
  BY <1>7, <1>9, <1>11 DEF Erased
<1>17. QED
  BY <1>3, <1>5, <1>9, <1>11, <1>13, <1>14, <1>15, <1>16 DEF Sound, Lessens

\* No number is less than none.
LEMMA NoLess ==
  ASSUME NEW n \in Nat, NEW m, m = 0
  PROVE  n >= m
  OBVIOUS

\* The deletion of a canvas begins: another one is put on screen if it was.
LEMMA DeleteCanvasGood ==
  ASSUME NEW q \in BOOLEAN,
         NEW s, Begun(s, "delete canvas", s.op.target, q), Room(s), s.op.target \in Range(s.project.canvases),
         NEW ok \in BOOLEAN, OkIsTrue(s, ok), NEW x, x = CanvasDeleted(s, s.op.target, ok)
  PROVE  Sound(x) /\ Parked(x, q)
<1>1. /\ s \in StateType /\ Sound(s) /\ Settled(s, q) /\ IsOpen(s) /\ s.op.kind = "delete canvas"
      /\ s.project.canvases \in Seq(CanvasIds)
  BY DEF Begun, Sound, StateType, ProjectType
<1>2. PICK less : less = Lessened(s, s.op.target)
  OBVIOUS
<1>3. PICK left : left = [less EXCEPT !.project.canvas = NoCanvas]
  OBVIOUS
<1>4. PICK c \in CanvasIds : c = s.op.target
  BY <1>1, Members
<1>5. /\ Sound(less) /\ Erased(less) /\ less.op = s.op /\ less.store = s.store /\ less.screen = s.screen
      /\ less.project.canvases \in Seq(CanvasIds) /\ less.project.folder = s.project.folder
      /\ less.project.talks = s.project.talks /\ less.project.talk = s.project.talk
      /\ less.project.canvas = s.project.canvas /\ less.usage.canvases = s.usage.canvases
      /\ less.usage.breaks = s.usage.breaks
      /\ \A d \in Range(s.project.canvases) : d # c => d \in Range(less.project.canvases)
  <2>1. s.op.target = c /\ less = Lessened(s, c)
    BY <1>4, <1>2
  <2>2. Sound(less) /\ Lessens(less, s, c)
    BY <1>1, <2>1, LessenedIs
  <2>3. QED
    BY <2>2 DEF Lessens
<1>6. OkIsTrue(less, ok) /\ IsOpen(less) /\ less.op.kind = "delete canvas"
  BY <1>1, <1>5 DEF OkIsTrue, Chats, Fine, IsOpen
<1>7. Chats(less, q) => TalksListed(less) /\ TalkChosen(less)
  BY <1>1, <1>5 DEF Settled, Chats, Fine, TalksListed, TalkChosen
<1>8. CASE s.project.canvas # s.op.target
  <2>1. x = KeepMeta(less, ok)
    BY <1>8, <1>2 DEF CanvasDeleted, Lessened
  <2>2. Fine(less) => CanvasShown(less)
    BY <1>1, <1>4, <1>5, <1>8 DEF Settled, Chats, Fine, CanvasShown
  <2>3. QED
    BY <1>5, <1>6, <1>7, <2>1, <2>2, KeepMetaGood
<1>9. CASE s.project.canvas = s.op.target
  <2>1. PICK p : p = [less.project EXCEPT !.canvas = NoCanvas]
    OBVIOUS
  <2>2. less \in StateType
    BY <1>5 DEF Sound
  <2>3. /\ p \in ProjectType /\ p.canvases = less.project.canvases /\ p.folder = less.project.folder
        /\ p.talks = less.project.talks /\ p.talk = less.project.talk /\ p.canvas = NoCanvas
    BY <2>1, <2>2 DEF StateType, ProjectType
  <2>4. left = [less EXCEPT !.project = p]
    BY <1>3, <2>1, <2>2 DEF StateType
  <2>5. /\ left \in StateType /\ left.store = less.store /\ left.screen = less.screen /\ left.op = less.op
        /\ left.usage = less.usage /\ left.project = p
    BY <2>2, <2>3, <2>4 DEF StateType
  <2>6. DrawnKept(left)
    <3>1. SUFFICES ASSUME NEW d \in CanvasIds PROVE left.store.scenes[d].edit >= left.usage.drawn[d]
      BY DEF DrawnKept
    <3>2. less.store.scenes[d].edit \in Nat
      BY <2>2 DEF StateType, StoreType, Scene
    <3>3. CASE d = c
      <4>1. less.op.target = c /\ less.usage.drawn[less.op.target] = 0
        BY <1>4, <1>5 DEF Erased
      <4>2. left.usage.drawn[d] = 0 /\ left.store.scenes[d].edit \in Nat
        BY <2>5, <3>2, <3>3, <4>1
      <4>3. QED
        BY <4>2, NoLess
    <3>4. CASE d # c
      BY <1>4, <1>5, <1>9, <2>5, <3>4 DEF Sound, InFiles
    <3>5. QED
      BY <3>3, <3>4
  <2>7. Sound(left)
    <3>1. Numbers(left)
      BY <1>5, <2>5 DEF Sound, Numbers
    <3>2. OnScreen(left)
      BY <2>3, <2>5 DEF OnScreen
    <3>3. InFiles(left)
      BY <1>5, <2>5, <2>6 DEF Sound, InFiles, DrawnKept
    <3>4. QED
      BY <2>5, <3>1, <3>2, <3>3 DEF Sound
  <2>8. /\ OkIsTrue(left, ok) /\ IsOpen(left) /\ left.op.kind = "delete canvas" /\ Erased(left) /\ Room(left)
        /\ Chats(left, q) => TalksListed(left) /\ TalkChosen(left)
    BY <1>5, <1>6, <1>7, <2>3, <2>5 DEF OkIsTrue, Chats, Fine, IsOpen, Erased, Room, TalksListed, TalkChosen
  <2>9. CASE left.project.canvases = <<>>
    <3>1. x = AddCanvas(left, ok)
      BY <1>9, <1>2, <1>3, <2>9 DEF CanvasDeleted, Lessened
    <3>2. AddTo(left, q)
      BY <2>6, <2>7, <2>8 DEF AddTo
    <3>3. QED
      BY <2>8, <3>1, <3>2, AddCanvasGood
  <2>10. CASE left.project.canvases # <<>>
    <3>1. PICK i \in Nat : i = IndexIn(s.project.canvases, s.op.target) /\ i > 0
      <4>1. PICK list \in Seq(CanvasIds) : list = s.project.canvases
        BY <1>1
      <4>2. c \in Range(list)
        BY <1>4, <4>1
      <4>3. IndexIn(list, c) \in Nat /\ IndexIn(list, c) > 0
        BY <4>2, IndexOf
      <4>4. QED
        BY <1>4, <4>1, <4>3
    <3>2. PICK d : d = Remaining(left.project.canvases, i)
      OBVIOUS
    <3>3. x = Load(left, d, ok)
      BY <1>9, <1>2, <1>3, <2>10, <3>1, <3>2 DEF CanvasDeleted, Lessened
    <3>4. left.project.canvases \in Seq(CanvasIds)
      BY <1>5, <2>3, <2>5
    <3>5. d \in CanvasIds /\ d \in Range(left.project.canvases)
      BY <2>10, <3>1, <3>2, <3>4, RemainingOf
    <3>6. ReadFor(left, d, q)
      BY <2>6, <2>7, <2>8, <3>5 DEF ReadFor
    <3>7. QED
      BY <2>8, <3>3, <3>6, LoadGood
  <2>11. QED
    BY <2>9, <2>10
<1>10. QED
  BY <1>8, <1>9

\* The conversation is deleted when the call is made.
LEMMA DeleteTalkGood ==
  ASSUME NEW q \in BOOLEAN,
         NEW s, Begun(s, "delete talk", s.op.target, q), s.op.target \in Range(s.project.talks),
         NEW ok \in BOOLEAN, OkIsTrue(s, ok),
         NEW gone, gone = IF ok THEN [s EXCEPT !.store.talks[s.project.folder] = Without(@, s.op.target),
                                               !.store.deleted = @ \cup {s.op.target}] ELSE s,
         NEW y, y = [gone EXCEPT !.op.place = IndexIn(s.project.talks, s.op.target)],
         NEW x, x = Await(y, "talk deleted", ok)
  PROVE  Sound(x) /\ Parked(x, q)
<1>1. /\ s \in StateType /\ Sound(s) /\ Settled(s, q) /\ IsOpen(s) /\ s.op.kind = "delete talk"
      /\ s.project.talks \in Seq(Nat) /\ s.project.folder \in Folders
  BY DEF Begun, Sound, StateType, ProjectType, IsOpen
<1>2. PICK f \in Folders : f = s.project.folder
  BY <1>1
<1>3. PICK t \in Nat : t = s.op.target
  BY <1>1 DEF StateType, OpType
<1>4. PICK i \in Nat : i = IndexIn(s.project.talks, s.op.target) /\ i > 0
  <2>1. PICK list \in Seq(Nat) : list = s.project.talks
    BY <1>1
  <2>2. t \in Range(list)
    BY <1>3, <2>1
  <2>3. IndexIn(list, t) \in Nat /\ IndexIn(list, t) > 0
    BY <2>2, IndexOf
  <2>4. QED
    BY <1>3, <2>1, <2>3
<1>5. PICK o : o = [s.op EXCEPT !.place = i]
  OBVIOUS
<1>6. /\ o \in OpType /\ o.kind = "delete talk" /\ o.target = t /\ o.place = i /\ o.folder = s.op.folder
      /\ o.scene = s.op.scene
  BY <1>1, <1>3, <1>5 DEF StateType, OpType
<1>7. PICK all \in Seq(Nat) : all = s.store.talks[f]
  BY <1>1 DEF StateType, StoreType
<1>8. PICK less : less = Without(all, t)
  OBVIOUS
<1>9. less \in Seq(Nat) /\ \A u \in Range(all) : u # t => u \in Range(less)
  BY <1>8, WithoutOf
<1>10. PICK z : z = [s.store.talks EXCEPT ![f] = less]
  OBVIOUS
<1>11. z \in [Folders -> Seq(Nat)] /\ z[f] = less
  BY <1>1, <1>9, <1>10 DEF StateType, StoreType
<1>12. PICK st : st = [s.store EXCEPT !.talks = z, !.deleted = @ \cup {t}]
  OBVIOUS
<1>13. st \in StoreType /\ st.talks = z /\ st.metas = s.store.metas /\ st.scenes = s.store.scenes
  BY <1>1, <1>11, <1>12 DEF StateType, StoreType
<1>14. /\ y \in StateType /\ y.project = s.project /\ y.screen = s.screen /\ y.op = o /\ y.usage = s.usage
       /\ y.store = IF ok THEN st ELSE s.store
  <2>1. CASE ok
    <3>1. gone = [s EXCEPT !.store = st]
      BY <1>1, <1>2, <1>3, <1>7, <1>8, <1>10, <1>12, <2>1 DEF StateType, StoreType
    <3>2. y = [s EXCEPT !.store = st, !.op = o]
      BY <1>1, <1>4, <1>5, <3>1 DEF StateType
    <3>3. QED
      BY <1>1, <1>6, <1>13, <2>1, <3>2 DEF StateType
  <2>2. CASE ~ok
    <3>1. y = [s EXCEPT !.op = o]
      BY <1>1, <1>4, <1>5, <2>2 DEF StateType
    <3>2. QED
      BY <1>1, <1>6, <2>2, <3>1 DEF StateType
  <2>3. QED
    BY <2>1, <2>2
<1>15. SamePictures(y, s) /\ y.op.scene.edit <= y.usage.edits
  BY <1>1, <1>6, <1>13, <1>14 DEF SamePictures, Sound, Numbers
<1>16. Sound(y) /\ OkIsTrue(y, ok) /\ "talk deleted" \in Awaits
  BY <1>1, <1>14, <1>15, SamePicturesSound DEF OkIsTrue, Chats, Fine, Awaits
<1>17. Sound(x) /\ Waits(x, y, "talk deleted", ok) /\ (Fine(x) => x.op.ok)
  BY <1>16, AwaitGood
<1>18. /\ x.op.at = "talk deleted" /\ x.op.kind = "delete talk" /\ x.op.place > 0 /\ x.op.target = t
       /\ x.project = s.project /\ x.usage = s.usage /\ x.store = y.store
  BY <1>4, <1>6, <1>14, <1>17 DEF Waits
<1>22. Fine(x) => CanvasShown(x) /\ Recorded(x)
  <2>1. x.store.metas = s.store.metas
    BY <1>13, <1>14, <1>18
  <2>2. QED
    BY <1>1, <1>18, <2>1 DEF Settled, Fine, CanvasShown, Recorded
<1>19. ASSUME Chats(x, q)
       PROVE  /\ TalkChosen(x)
              /\ Range(x.project.talks) \ {x.op.target} \subseteq Range(x.store.talks[x.project.folder])
  <2>1. ok /\ TalksListed(s) /\ TalkChosen(s)
    BY <1>1, <1>16, <1>14, <1>18, <1>19 DEF OkIsTrue, Settled, Chats, Fine
  <2>2. x.store = st
    BY <1>14, <1>18, <2>1
  <2>3. TalkChosen(x)
    BY <1>18, <2>1, <2>2 DEF TalkChosen
  <2>4. x.project.talks = all /\ x.store.talks[x.project.folder] = less
    BY <1>2, <1>7, <1>11, <1>13, <1>18, <2>1, <2>2 DEF TalksListed
  <2>5. QED
    BY <1>9, <1>18, <2>3, <2>4
<1>20. AtTalkDeleted(x, q)
  BY <1>1, <1>18, <1>19, <1>22 DEF AtTalkDeleted, IsOpen
<1>21. QED
  BY <1>17, <1>18, <1>20 DEF Parked

-----------------------------------------------------------------------------
(* The actions.                                                            *)

\* The variables, as the record the calls work on.
LEMMA NowIs ==
  /\ Now.store = store /\ Now.project = project /\ Now.screen = screen /\ Now.op = op /\ Now.saving = saving
  /\ Now.usage = usage
  BY DEF Now

\* No import is under way.
LEMMA IdlingIsTyped ==
  /\ Idling \in ImportType /\ Idling.at = "none" /\ Idling.crossed = FALSE
  /\ \A i \in BOOLEAN : [Idling EXCEPT !.crossed = i] \in ImportType /\ ~Waiting([Idling EXCEPT !.crossed = i])
<1>1. Idling \in ImportType /\ Idling.at = "none" /\ Idling.crossed = FALSE
  BY ThingsAreTyped DEF Idling, ImportType
<1>2. ASSUME NEW c \in BOOLEAN
      PROVE  [Idling EXCEPT !.crossed = c] \in ImportType /\ ~Waiting([Idling EXCEPT !.crossed = c])
  <2>1. PICK i : i = [Idling EXCEPT !.crossed = c]
    OBVIOUS
  <2>2. i \in ImportType /\ i.at = "none"
    BY <1>1, <2>1 DEF ImportType
  <2>3. QED
    BY <2>1, <2>2 DEF Waiting
<1>3. QED
  BY <1>1, <1>2

\* A step that ends in such a state keeps the invariant.
LEMMA Becoming ==
  ASSUME NEW x, Sound(x), NEW i, i \in ImportType, Ready(x, Undisturbed(i)), Waiting(i) => Importing(x, i),
         Becomes(x), import' = i
  PROVE  WorkspaceInv'
<1>1. x \in StateType
  BY DEF Sound
<1>2. Now' = x
  BY <1>1 DEF Becomes, Now, StateType
<1>3. /\ Sound(Now') /\ Ready(Now', Undisturbed(import')) /\ import' \in ImportType
      /\ Waiting(import') => Importing(Now', import')
  BY <1>2
<1>4. QED
  BY <1>3 DEF WorkspaceInv

\* Where a command may be given.
LEMMA FreeIs ==
  ASSUME WorkspaceInv, Free
  PROVE  Sound(Now) /\ Settled(Now, Undisturbed(import)) /\ import \in ImportType
<1>1. PICK q \in BOOLEAN : q = Undisturbed(import)
  BY DEF Undisturbed
<1>2. Sound(Now) /\ Ready(Now, q) /\ Now.op = NoOp /\ import \in ImportType
  BY <1>1, NowIs DEF WorkspaceInv, Free
<1>3. ~Parked(Now, q)
  BY <1>2, AwaitsDiffer, ThingsAreTyped DEF Awaits
<1>4. QED
  BY <1>1, <1>2, <1>3 DEF Ready

\* A command is given beside an import.
Crossing == [import EXCEPT !.crossed = @ \/ import.at # "none"]

\* The transition of a command that was given.
LEMMA CommandGood ==
  ASSUME import \in ImportType, NEW q, q = Undisturbed(import), NEW x, Sound(x), Parked(x, q), Becomes(x),
         import' = Crossing
  PROVE  WorkspaceInv'
<1>1. PICK i : i = Crossing
  OBVIOUS
<1>2. PICK c \in BOOLEAN : c = (import.crossed \/ import.at # "none")
  OBVIOUS
<1>3. i \in ImportType /\ i.at = import.at /\ i.crossed = c
  BY <1>1, <1>2 DEF Crossing, ImportType
<1>4. Undisturbed(i) = q /\ ~Waiting(i)
  BY <1>2, <1>3 DEF Undisturbed, Waiting, ImportType
<1>5. Ready(x, Undisturbed(i))
  BY <1>4 DEF Ready
<1>6. QED
  BY <1>1, <1>3, <1>4, <1>5, Becoming

\* The state in which a command makes its first call.
Commanded(s, kind, target, ok, q) ==
  /\ Begun(s, kind, target, q) /\ OkIsTrue(s, ok) /\ q = Undisturbed(import) /\ import \in ImportType
  /\ s.project = project /\ s.store = store /\ s.usage.canvases = usage.canvases

LEMMA CommandIs ==
  ASSUME WorkspaceInv, OpenedProject, NEW kind \in Commands, NEW target \in Nat,
         NEW ok \in BOOLEAN, NEW s, s = Starting(Broken(Now, ok), kind, target),
         NEW q \in BOOLEAN, q = Undisturbed(import)
  PROVE  Commanded(s, kind, target, ok, q)
<1>1. Sound(Now) /\ Settled(Now, q) /\ import \in ImportType
  BY FreeIs DEF OpenedProject
<1>2. PICK y : y = Broken(Now, ok)
  OBVIOUS
<1>3. Sound(y) /\ Settled(y, q) /\ OkIsTrue(y, ok)
  BY <1>1, <1>2, BrokenKeeps
<1>4. Now \in StateType
  BY <1>1 DEF Sound
<1>5. y.project = project /\ y.store = store /\ y.usage.canvases = usage.canvases
  BY <1>2, <1>4, BrokenIs, NowIs
<1>6. s = Starting(y, kind, target)
  BY <1>2
<1>7. /\ Sound(s) /\ Settled(s, q) /\ OkIsTrue(s, ok) /\ s.op.kind = kind /\ s.op.target = target
      /\ s.project = y.project /\ s.store = y.store /\ s.usage.canvases = y.usage.canvases
      /\ s.op.scene = NoScene
  BY <1>3, <1>6, StartingIs
<1>8. IsOpen(s)
  BY <1>5, <1>7 DEF OpenedProject, IsOpen
<1>9. QED
  BY <1>1, <1>5, <1>7, <1>8 DEF Begun, Commanded

\* The commands keep the invariant.
LEMMA SelectCanvasStep == WorkspaceInv /\ SelectCanvas => WorkspaceInv'
<1> SUFFICES ASSUME WorkspaceInv, SelectCanvas PROVE WorkspaceInv'
  OBVIOUS
<1>0. PICK q \in BOOLEAN : q = Undisturbed(import)
  BY DEF Undisturbed
<1>1. PICK c \in Range(project.canvases), ok \in BOOLEAN :
        /\ Becomes(KeepScene(Starting(Broken(Now, ok), "select canvas", c), ok))
        /\ OpenedProject /\ import' = Crossing
  <2>1. PICK c \in Range(project.canvases) :
          /\ Begins1("select canvas", c, KeepScene)
          /\ OpenedProject
    BY DEF SelectCanvas
  <2>2. PICK ok \in BOOLEAN : Becomes(KeepScene(Starting(Broken(Now, ok), "select canvas", c), ok))
    BY <2>1 DEF Begins1, Calls
  <2>3. import' = Crossing
    BY <2>1 DEF Begins1, Crossing
  <2>4. QED
    BY <2>1, <2>2, <2>3
<1>2. project.canvases \in Seq(CanvasIds)
  BY NowIs DEF WorkspaceInv, Sound, StateType, ProjectType
<1>3. c \in Nat /\ "select canvas" \in Commands
  BY <1>2, Members, ThingsAreTyped DEF Commands
<1>4. PICK s : s = Starting(Broken(Now, ok), "select canvas", c)
  OBVIOUS
<1>5. /\ Begun(s, "select canvas", s.op.target, q) /\ s.op.target = c /\ OkIsTrue(s, ok) /\ s.project = project
      /\ q = Undisturbed(import) /\ import \in ImportType
  <2>1. Commanded(s, "select canvas", c, ok, q)
    BY <1>1, <1>3, <1>4, <1>0, CommandIs
  <2>2. QED
    BY <2>1 DEF Commanded, Begun
<1>6. Sound(s) /\ Settled(s, q) /\ IsOpen(s) /\ Selecting(s)
  BY <1>1, <1>5 DEF Begun, Selecting
<1>7. PICK x : x = KeepScene(s, ok)
  OBVIOUS
<1>8. Sound(x) /\ Parked(x, q)
  BY <1>5, <1>6, <1>7, KeepSceneGood
<1>9. Becomes(x) /\ import' = Crossing
  BY <1>1, <1>4, <1>5, <1>7, <1>8
<1>10. QED
  BY <1>5, <1>8, <1>9, CommandGood

LEMMA NewCanvasStep == WorkspaceInv /\ NewCanvas => WorkspaceInv'
<1> SUFFICES ASSUME WorkspaceInv, NewCanvas PROVE WorkspaceInv'
  OBVIOUS
<1>0. PICK q \in BOOLEAN : q = Undisturbed(import)
  BY DEF Undisturbed
<1>1. PICK ok \in BOOLEAN :
        /\ Becomes(KeepScene(Starting(Broken(Now, ok), "new canvas", 0), ok))
        /\ OpenedProject /\ import' = Crossing /\ usage.canvases < MaxCanvas
  BY DEF NewCanvas, Begins1, Calls, Crossing
<1>2. 0 \in Nat /\ "new canvas" \in Commands
  BY DEF Commands
<1>3. PICK s : s = Starting(Broken(Now, ok), "new canvas", 0)
  OBVIOUS
<1>4. /\ Begun(s, "new canvas", s.op.target, q) /\ OkIsTrue(s, ok) /\ s.usage.canvases = usage.canvases
      /\ q = Undisturbed(import) /\ import \in ImportType
  <2>1. Commanded(s, "new canvas", 0, ok, q)
    BY <1>1, <1>2, <1>3, <1>0, CommandIs
  <2>2. QED
    BY <2>1 DEF Commanded, Begun
<1>5. Sound(s) /\ Settled(s, q) /\ IsOpen(s) /\ Adding(s)
  BY <1>1, <1>4 DEF Begun, Adding, Room
<1>6. PICK x : x = KeepScene(s, ok)
  OBVIOUS
<1>7. Sound(x) /\ Parked(x, q)
  BY <1>4, <1>5, <1>6, KeepSceneGood
<1>8. Becomes(x) /\ import' = Crossing
  BY <1>1, <1>3, <1>4, <1>6, <1>7
<1>9. QED
  BY <1>4, <1>7, <1>8, CommandGood

LEMMA DeleteCanvasStep == WorkspaceInv /\ DeleteCanvas => WorkspaceInv'
<1> SUFFICES ASSUME WorkspaceInv, DeleteCanvas PROVE WorkspaceInv'
  OBVIOUS
<1>0. PICK q \in BOOLEAN : q = Undisturbed(import)
  BY DEF Undisturbed
<1>1. PICK c \in Range(project.canvases), ok \in BOOLEAN :
        /\ Becomes(CanvasDeleted(Starting(Broken(Now, ok), "delete canvas", c), c, ok))
        /\ OpenedProject /\ import' = Crossing /\ usage.canvases < MaxCanvas
  BY DEF DeleteCanvas, Begins1, Calls, Crossing
<1>2. project.canvases \in Seq(CanvasIds)
  BY NowIs DEF WorkspaceInv, Sound, StateType, ProjectType
<1>3. c \in Nat /\ "delete canvas" \in Commands
  BY <1>2, Members, ThingsAreTyped DEF Commands
<1>4. PICK s : s = Starting(Broken(Now, ok), "delete canvas", c)
  OBVIOUS
<1>5. /\ Begun(s, "delete canvas", s.op.target, q) /\ s.op.target = c /\ OkIsTrue(s, ok) /\ s.project = project
      /\ q = Undisturbed(import) /\ import \in ImportType /\ s.usage.canvases = usage.canvases
  <2>1. Commanded(s, "delete canvas", c, ok, q)
    BY <1>1, <1>3, <1>4, <1>0, CommandIs
  <2>2. QED
    BY <2>1 DEF Commanded, Begun
<1>6. Room(s) /\ s.op.target \in Range(s.project.canvases)
  BY <1>1, <1>5 DEF Room
<1>7. PICK x : x = CanvasDeleted(s, c, ok)
  OBVIOUS
<1>8. Sound(x) /\ Parked(x, q)
  <2>1. x = CanvasDeleted(s, s.op.target, ok)
    BY <1>5, <1>7
  <2>2. QED
    BY <1>5, <1>6, <2>1, DeleteCanvasGood
<1>9. Becomes(x) /\ import' = Crossing
  BY <1>1, <1>4, <1>5, <1>7, <1>8
<1>10. QED
  BY <1>5, <1>8, <1>9, CommandGood

LEMMA SelectSessionStep == WorkspaceInv /\ SelectSession => WorkspaceInv'
<1> SUFFICES ASSUME WorkspaceInv, SelectSession PROVE WorkspaceInv'
  OBVIOUS
<1>0. PICK q \in BOOLEAN : q = Undisturbed(import)
  BY DEF Undisturbed
<1>1. PICK t \in Range(project.talks), ok \in BOOLEAN :
        /\ Becomes(Activate(Starting(Broken(Now, ok), "select talk", t), t, ok))
        /\ OpenedProject /\ import' = Crossing
  <2>1. PICK t \in Range(project.talks) :
          /\ Begins1("select talk", t, LAMBDA s, ok : Activate(s, t, ok))
          /\ OpenedProject
    BY DEF SelectSession
  <2>2. PICK ok \in BOOLEAN : Becomes(Activate(Starting(Broken(Now, ok), "select talk", t), t, ok))
    BY <2>1 DEF Begins1, Calls
  <2>3. import' = Crossing
    BY <2>1 DEF Begins1, Crossing
  <2>4. QED
    BY <2>1, <2>2, <2>3
<1>2. project.talks \in Seq(Nat)
  BY NowIs DEF WorkspaceInv, Sound, StateType, ProjectType
<1>3. t \in Nat /\ "select talk" \in Commands
  BY <1>2, Members DEF Commands
<1>4. PICK s : s = Starting(Broken(Now, ok), "select talk", t)
  OBVIOUS
<1>5. /\ Begun(s, "select talk", s.op.target, q) /\ OkIsTrue(s, ok) /\ s.project = project
      /\ q = Undisturbed(import) /\ import \in ImportType
  <2>1. Commanded(s, "select talk", t, ok, q)
    BY <1>1, <1>3, <1>4, <1>0, CommandIs
  <2>2. QED
    BY <2>1 DEF Commanded, Begun
<1>6. SelectFor(s, t, q)
  BY <1>1, <1>3, <1>5 DEF Begun, Settled, SelectFor
<1>7. PICK x : x = Activate(s, t, ok)
  OBVIOUS
<1>8. Sound(x) /\ Parked(x, q)
  BY <1>5, <1>6, <1>7, ActivateGood
<1>9. Becomes(x) /\ import' = Crossing
  BY <1>1, <1>4, <1>5, <1>7, <1>8
<1>10. QED
  BY <1>5, <1>8, <1>9, CommandGood

LEMMA NewSessionStep == WorkspaceInv /\ NewSession => WorkspaceInv'
<1> SUFFICES ASSUME WorkspaceInv, NewSession PROVE WorkspaceInv'
  OBVIOUS
<1>0. PICK q \in BOOLEAN : q = Undisturbed(import)
  BY DEF Undisturbed
<1>1. PICK ok \in BOOLEAN :
        /\ Becomes(CreateTalk(Starting(Broken(Now, ok), "new talk", 0), ok))
        /\ OpenedProject /\ import' = Crossing
  BY DEF NewSession, Begins1, Calls, Crossing
<1>2. 0 \in Nat /\ "new talk" \in Commands
  BY DEF Commands
<1>3. PICK s : s = Starting(Broken(Now, ok), "new talk", 0)
  OBVIOUS
<1>4. Begun(s, "new talk", s.op.target, q) /\ OkIsTrue(s, ok) /\ q = Undisturbed(import) /\ import \in ImportType
  <2>1. Commanded(s, "new talk", 0, ok, q)
    BY <1>1, <1>2, <1>3, <1>0, CommandIs
  <2>2. QED
    BY <2>1 DEF Commanded, Begun
<1>5. CreateIn(s, q)
  BY <1>4 DEF Begun, Settled, CreateIn
<1>6. PICK x : x = CreateTalk(s, ok)
  OBVIOUS
<1>7. Sound(x) /\ Parked(x, q)
  BY <1>4, <1>5, <1>6, CreateTalkGood
<1>8. Becomes(x) /\ import' = Crossing
  BY <1>1, <1>3, <1>4, <1>6, <1>7
<1>9. QED
  BY <1>4, <1>7, <1>8, CommandGood

LEMMA DeleteSessionStep == WorkspaceInv /\ DeleteSession => WorkspaceInv'
<1> SUFFICES ASSUME WorkspaceInv, DeleteSession PROVE WorkspaceInv'
  OBVIOUS
<1>0. PICK q \in BOOLEAN : q = Undisturbed(import)
  BY DEF Undisturbed
<1>1. PICK t \in Range(project.talks), ok \in BOOLEAN :
        /\ Becomes(TalkGone(Starting(Broken(Now, ok), "delete talk", t), t, ok))
        /\ OpenedProject /\ import' = Crossing
  BY DEF DeleteSession, Begins1, Calls, Crossing
<1>2. project.talks \in Seq(Nat)
  BY NowIs DEF WorkspaceInv, Sound, StateType, ProjectType
<1>3. t \in Nat /\ "delete talk" \in Commands
  BY <1>2, Members DEF Commands
<1>4. PICK s : s = Starting(Broken(Now, ok), "delete talk", t)
  OBVIOUS
<1>5. /\ Begun(s, "delete talk", s.op.target, q) /\ s.op.target = t /\ OkIsTrue(s, ok) /\ s.project = project
      /\ q = Undisturbed(import) /\ import \in ImportType
  <2>1. Commanded(s, "delete talk", t, ok, q)
    BY <1>1, <1>3, <1>4, <1>0, CommandIs
  <2>2. QED
    BY <2>1 DEF Commanded, Begun
<1>6. s.op.target \in Range(s.project.talks)
  BY <1>1, <1>5
<1>7. PICK x : x = TalkGone(s, t, ok)
  OBVIOUS
<1>8. Sound(x) /\ Parked(x, q)
  <2>1. PICK gone : gone = IF ok THEN [s EXCEPT !.store.talks[s.project.folder] = Without(@, s.op.target),
                                                !.store.deleted = @ \cup {s.op.target}] ELSE s
    OBVIOUS
  <2>2. PICK y : y = [gone EXCEPT !.op.place = IndexIn(s.project.talks, s.op.target)]
    OBVIOUS
  <2>3. x = Await(y, "talk deleted", ok)
    BY <1>5, <1>7, <2>1, <2>2 DEF TalkGone
  <2>4. QED
    BY <1>5, <1>6, <2>1, <2>2, <2>3, DeleteTalkGood
<1>9. Becomes(x) /\ import' = Crossing
  BY <1>1, <1>4, <1>5, <1>7, <1>8
<1>10. QED
  BY <1>5, <1>8, <1>9, CommandGood

LEMMA OpenFolderStep == WorkspaceInv /\ OpenFolder => WorkspaceInv'
<1> SUFFICES ASSUME WorkspaceInv, OpenFolder PROVE WorkspaceInv'
  OBVIOUS
<1>0. PICK q \in BOOLEAN : q = Undisturbed(import)
  BY DEF Undisturbed
<1>1. PICK f \in Folders, ok \in BOOLEAN :
        /\ Becomes(KeepScene([Starting(Broken(Now, ok), "open", 0) EXCEPT !.op.folder = f], ok))
        /\ Free /\ import' = Crossing /\ usage.canvases < MaxCanvas
  BY DEF OpenFolder, Begins1, Calls, Crossing
<1>2. Sound(Now) /\ Settled(Now, q) /\ q = Undisturbed(import) /\ import \in ImportType
  BY <1>0, <1>1, FreeIs
<1>3. PICK y : y = Broken(Now, ok)
  OBVIOUS
<1>4. Sound(y) /\ Settled(y, q) /\ OkIsTrue(y, ok)
  BY <1>2, <1>3, BrokenKeeps
<1>5. y.project = project /\ y.usage.canvases = usage.canvases
  <2>1. Now \in StateType
    BY <1>2 DEF Sound
  <2>2. QED
    BY <1>3, <2>1, BrokenIs, NowIs
<1>6. PICK z : z = Starting(y, "open", 0)
  OBVIOUS
<1>7. /\ Sound(z) /\ Settled(z, q) /\ OkIsTrue(z, ok) /\ z.op.kind = "open" /\ z.op.place = 0
      /\ z.project = project /\ z.usage.canvases = usage.canvases
  <2>1. "open" \in Commands /\ 0 \in Nat
    BY DEF Commands
  <2>2. QED
    BY <1>4, <1>5, <1>6, <2>1, StartingIs
<1>8. PICK s : s = [z EXCEPT !.op.folder = f]
  OBVIOUS
<1>9. PICK o : o = [z.op EXCEPT !.folder = f]
  OBVIOUS
<1>10. o \in OpType /\ o.kind = "open" /\ o.place = 0 /\ o.folder = f /\ o.scene = z.op.scene /\ z \in StateType
  BY <1>1, <1>7, <1>9 DEF Sound, StateType, OpType
<1>11. s = [z EXCEPT !.op = o]
  BY <1>8, <1>9, <1>10 DEF StateType
<1>12. /\ s \in StateType /\ s.store = z.store /\ s.project = z.project /\ s.screen = z.screen /\ s.op = o
       /\ s.usage = z.usage
  BY <1>10, <1>11 DEF StateType
<1>13. SamePictures(s, z) /\ s.op.scene.edit <= s.usage.edits
  BY <1>7, <1>10, <1>12 DEF SamePictures, Sound, Numbers
<1>14. Sound(s)
  BY <1>7, <1>12, <1>13, SamePicturesSound
<1>15. Settled(s, q) /\ OkIsTrue(s, ok)
  BY <1>7, <1>12 DEF OkIsTrue, Settled, Chats, Fine, IsOpen, CanvasShown, Recorded, TalksListed, TalkChosen
<1>16. Opening(s, q)
  BY <1>1, <1>7, <1>10, <1>12, <1>15 DEF Opening, Room
<1>17. PICK x : x = KeepScene(s, ok)
  OBVIOUS
<1>18. Sound(x) /\ Parked(x, q)
  BY <1>14, <1>15, <1>16, <1>17, KeepSceneGood
<1>19. Becomes(x) /\ import' = Crossing
  BY <1>1, <1>2, <1>3, <1>6, <1>8, <1>17, <1>18
<1>20. QED
  BY <1>2, <1>18, <1>19, CommandGood

\* So does the rest of a transition,
LEMMA TransitionContinuesStep == WorkspaceInv /\ TransitionContinues => WorkspaceInv'
<1> SUFFICES ASSUME WorkspaceInv, TransitionContinues PROVE WorkspaceInv'
  OBVIOUS
<1>1. PICK ok \in BOOLEAN : Becomes(Resume(Broken(Now, ok), ok)) /\ op # NoOp
  BY DEF TransitionContinues, Calls
<1>2. PICK q \in BOOLEAN : q = Undisturbed(import)
  BY DEF Undisturbed
<1>3. Sound(Now) /\ Parked(Now, q) /\ import \in ImportType /\ ~Waiting(import)
  BY <1>1, <1>2, NowIs DEF WorkspaceInv, Importing, Ready
<1>4. PICK c \in BOOLEAN : c = IF op.at = "listed" /\ op.ok THEN import.at # "none" ELSE import.crossed
  BY <1>3 DEF ImportType
<1>5. PICK i : i = [import EXCEPT !.crossed = c]
  OBVIOUS
<1>6. i \in ImportType /\ i.at = import.at /\ i.crossed = c /\ import' = i
  <2>1. i \in ImportType /\ i.at = import.at /\ i.crossed = c
    BY <1>3, <1>5 DEF ImportType
  <2>2. import' = i
    BY <1>3, <1>4, <1>5 DEF TransitionContinues, ImportType
  <2>3. QED
    BY <2>1, <2>2
<1>7. PICK r \in BOOLEAN : r = Undisturbed(i)
  BY DEF Undisturbed
<1>8. (Now.op.at = "listed" /\ Now.op.ok) \/ r = q
  BY <1>2, <1>4, <1>6, <1>7, NowIs DEF Undisturbed
<1>9. ~Waiting(i)
  BY <1>3, <1>4, <1>6 DEF Waiting
<1>10. PICK s : s = Broken(Now, ok)
  OBVIOUS
<1>11. PICK x : x = Resume(s, ok)
  OBVIOUS
<1>12. Sound(x) /\ Ready(x, r)
  BY <1>3, <1>8, <1>10, <1>11, ResumeGood
<1>13. Becomes(x)
  BY <1>1, <1>10, <1>11
<1>14. QED
  BY <1>6, <1>7, <1>9, <1>12, <1>13, Becoming

\* A step beside the transitions.
LEMMA BesideStep ==
  ASSUME WorkspaceInv, NEW x, Sound(x), LeavesWork(x, Now, TRUE), LeavesMetas(x, Now), Becomes(x),
         import' = import
  PROVE  WorkspaceInv'
<1>1. PICK q \in BOOLEAN : q = Undisturbed(import)
  BY DEF Undisturbed
<1>2. Sound(Now) /\ import \in ImportType /\ Ready(Now, q) /\ (Waiting(import) => Importing(Now, import))
  BY <1>1 DEF WorkspaceInv
<1>3. LeavesWork(x, Now, q)
  BY DEF LeavesWork
<1>4. Ready(x, q)
  BY <1>2, <1>3, Beside
<1>5. Waiting(import) => Importing(x, import)
  BY <1>2, Beside
<1>6. QED
  BY <1>1, <1>2, <1>4, <1>5, Becoming

\* the pen, requests and the automatic saves,
LEMMA DrawStep == WorkspaceInv /\ Draw => WorkspaceInv'
<1> SUFFICES ASSUME WorkspaceInv, Draw PROVE WorkspaceInv'
  OBVIOUS
<1>1. PICK s \in StateType : s = Now /\ Sound(s)
  BY DEF WorkspaceInv, Sound
<1>2. /\ s.store = store /\ s.project = project /\ s.screen = screen /\ s.op = op /\ s.saving = saving
      /\ s.usage = usage
  BY <1>1, NowIs
<1>3. PICK c \in CanvasIds : c = project.canvas
  BY <1>1, <1>2 DEF Draw, StateType, ProjectType
<1>4. PICK e \in Nat : e = usage.edits + 1 /\ usage.edits \in Nat /\ e >= usage.edits
  BY <1>1, <1>2 DEF StateType, UsageType
<1>5. PICK p : p = [screen EXCEPT !.edit = e]
  OBVIOUS
<1>6. p \in Scene /\ p.edit = e /\ p.of = screen.of
  BY <1>1, <1>2, <1>5 DEF StateType, Scene
<1>7. PICK z : z = IF op = NoOp THEN [usage.drawn EXCEPT ![c] = e] ELSE usage.drawn
  OBVIOUS
<1>8. /\ z \in [CanvasIds -> Nat] /\ usage.drawn \in [CanvasIds -> Nat]
      /\ \A d \in CanvasIds : z[d] = IF op = NoOp /\ d = c THEN e ELSE usage.drawn[d]
  BY <1>1, <1>2, <1>7 DEF StateType, UsageType
<1>9. PICK u : u = [usage EXCEPT !.edits = e, !.drawn = z]
  OBVIOUS
<1>10. /\ u \in UsageType /\ u.drawn = z /\ u.edits = e /\ u.breaks = usage.breaks
       /\ u.canvases = usage.canvases
  BY <1>1, <1>2, <1>8, <1>9 DEF StateType, UsageType
<1>11. PICK x : x = [s EXCEPT !.screen = p, !.usage = u]
  OBVIOUS
<1>12. /\ x \in StateType /\ x.store = store /\ x.project = project /\ x.screen = p /\ x.op = op
       /\ x.saving = saving /\ x.usage = u
  BY <1>1, <1>2, <1>6, <1>10, <1>11 DEF StateType
<1>13. Becomes(x) /\ import' = import
  <2>1. screen' = p
    BY <1>4, <1>5 DEF Draw
  <2>2. usage' = u
    <3>1. z = [usage.drawn EXCEPT ![c] = IF op = NoOp THEN e ELSE @]
      BY <1>7, <1>8
    <3>2. u = [usage EXCEPT !.edits = e, !.drawn[c] = IF op = NoOp THEN e ELSE @]
      BY <1>1, <1>2, <1>9, <3>1 DEF StateType, UsageType
    <3>3. QED
      BY <1>3, <1>4, <3>2 DEF Draw
  <2>3. QED
    BY <1>12, <2>1, <2>2 DEF Draw, Becomes
<1>14. Numbers(x)
  <2>1. \A d \in CanvasIds : store.scenes[d].edit <= e /\ z[d] <= e
    <3>1. ASSUME NEW d \in CanvasIds PROVE store.scenes[d].edit <= e /\ z[d] <= e
      <4>1. store.scenes[d].edit \in Nat /\ store.scenes[d].edit <= usage.edits
        BY <1>1, <1>2 DEF Sound, Numbers, StateType, StoreType, Scene
      <4>2. z[d] \in Nat /\ (z[d] = e \/ z[d] <= usage.edits)
        BY <1>1, <1>2, <1>8 DEF Sound, Numbers
      <4>3. QED
        BY <1>4, <4>1, <4>2
    <3>2. QED
      BY <3>1
  <2>2. op.scene.edit \in Nat /\ op.scene.edit <= e
    BY <1>1, <1>2, <1>4 DEF Sound, Numbers, StateType, OpType, Scene
  <2>3. p.edit <= e
    BY <1>4, <1>6
  <2>4. QED
    BY <1>10, <1>12, <2>1, <2>2, <2>3 DEF Numbers
<1>15. OnScreen(x)
  <2>1. screen.of = c
    BY <1>1, <1>2, <1>3, ThingsAreTyped DEF Sound, OnScreen
  <2>2. z[c] <= e /\ z[c] \in Nat
    BY <1>8, <1>10, <1>12, <1>14 DEF Numbers
  <2>3. QED
    BY <1>3, <1>4, <1>6, <1>10, <1>12, <2>1, <2>2 DEF OnScreen
<1>16. InFiles(x)
  BY <1>1, <1>2, <1>3, <1>8, <1>10, <1>12 DEF Sound, InFiles
<1>17. Sound(x)
  BY <1>12, <1>14, <1>15, <1>16 DEF Sound
<1>18. LeavesWork(x, Now, TRUE) /\ LeavesMetas(x, Now)
  <2>1. op # NoOp => x.usage.drawn = usage.drawn
    BY <1>7, <1>10, <1>12
  <2>2. Fine(x) => Fine(Now)
    BY <1>10, <1>12, NowIs DEF Chats, Fine
  <2>3. op # NoOp /\ DrawnKept(Now) => DrawnKept(x)
    BY <1>12, <2>1, NowIs DEF DrawnKept
  <2>4. QED
    BY <1>10, <1>12, <2>1, <2>2, <2>3, NowIs DEF LeavesWork, LeavesMetas
<1>19. QED
  BY <1>13, <1>17, <1>18, BesideStep

LEMMA SendStep == WorkspaceInv /\ Send => WorkspaceInv'
<1> SUFFICES ASSUME WorkspaceInv, Send PROVE WorkspaceInv'
  OBVIOUS
<1>1. PICK s \in StateType : s = Now /\ Sound(s)
  BY DEF WorkspaceInv, Sound
<1>2. /\ s.store = store /\ s.project = project /\ s.screen = screen /\ s.op = op /\ s.saving = saving
      /\ s.usage = usage
  BY <1>1, NowIs
<1>3. PICK n \in Nat : n = usage.commands + 1
  BY <1>1, <1>2 DEF StateType, UsageType
<1>4. PICK u : u = [usage EXCEPT !.commands = n]
  OBVIOUS
<1>5. /\ u \in UsageType /\ u.drawn = usage.drawn /\ u.edits = usage.edits /\ u.breaks = usage.breaks
      /\ u.canvases = usage.canvases /\ usage' = u
  BY <1>1, <1>2, <1>3, <1>4 DEF StateType, UsageType, Send
<1>6. PICK x : x = [s EXCEPT !.usage = u]
  OBVIOUS
<1>7. /\ x \in StateType /\ x.store = store /\ x.project = project /\ x.screen = screen /\ x.op = op
      /\ x.saving = saving /\ x.usage = u
  BY <1>1, <1>2, <1>5, <1>6 DEF StateType
<1>8. Becomes(x) /\ import' = import
  BY <1>5, <1>7 DEF Becomes, Send
<1>9. SamePictures(x, s) /\ x.op.scene.edit <= x.usage.edits
  BY <1>1, <1>2, <1>5, <1>7 DEF SamePictures, Sound, Numbers
<1>10. Sound(x) /\ (DrawnKept(s) => DrawnKept(x))
  BY <1>1, <1>7, <1>9, SamePicturesSound
<1>11. LeavesWork(x, Now, TRUE) /\ LeavesMetas(x, Now)
  BY <1>1, <1>2, <1>5, <1>7, <1>10 DEF LeavesWork, LeavesMetas, Chats, Fine
<1>12. QED
  BY <1>8, <1>10, <1>11, BesideStep

LEMMA EngineSavesStep == WorkspaceInv /\ EngineSaves => WorkspaceInv'
<1> SUFFICES ASSUME WorkspaceInv, EngineSaves PROVE WorkspaceInv'
  OBVIOUS
<1>1. PICK s \in StateType : s = Now /\ Sound(s)
  BY DEF WorkspaceInv, Sound
<1>2. /\ s.store = store /\ s.project = project /\ s.screen = screen /\ s.op = op /\ s.saving = saving
      /\ s.usage = usage
  BY <1>1, NowIs
<1>3. PICK x : x = [s EXCEPT !.saving = saving']
  OBVIOUS
<1>4. /\ x \in StateType /\ x.store = store /\ x.project = project /\ x.screen = screen /\ x.op = op
      /\ x.saving = saving' /\ x.usage = usage
  BY <1>1, <1>2, <1>3 DEF StateType, EngineSaves
<1>5. Becomes(x) /\ import' = import
  BY <1>4 DEF Becomes, EngineSaves
<1>6. SamePictures(x, s) /\ x.op.scene.edit <= x.usage.edits
  BY <1>1, <1>2, <1>4 DEF SamePictures, Sound, Numbers
<1>7. Sound(x) /\ (DrawnKept(s) => DrawnKept(x))
  BY <1>1, <1>4, <1>6, SamePicturesSound
<1>8. LeavesWork(x, Now, TRUE) /\ LeavesMetas(x, Now)
  BY <1>1, <1>2, <1>4, <1>7 DEF LeavesWork, LeavesMetas, Chats, Fine
<1>9. QED
  BY <1>5, <1>7, <1>8, BesideStep

\* A state in which another save is due, or none.
LEMMA DueIs ==
  ASSUME NEW s, Sound(s), NEW due, Due(due), NEW x, x = [s EXCEPT !.saving = due]
  PROVE  /\ Sound(x) /\ x.store = s.store /\ x.project = s.project /\ x.screen = s.screen /\ x.op = s.op
         /\ x.usage = s.usage /\ (DrawnKept(s) => DrawnKept(x))
<1>1. /\ x \in StateType /\ x.store = s.store /\ x.project = s.project /\ x.screen = s.screen /\ x.op = s.op
      /\ x.usage = s.usage
  BY DEF Sound, StateType, Due
<1>2. SamePictures(x, s) /\ x.op.scene.edit <= x.usage.edits
  BY <1>1 DEF SamePictures, Sound, Numbers
<1>3. QED
  BY <1>1, <1>2, SamePicturesSound

LEMMA AutosaveSceneStep == WorkspaceInv /\ AutosaveScene => WorkspaceInv'
<1> SUFFICES ASSUME WorkspaceInv, AutosaveScene PROVE WorkspaceInv'
  OBVIOUS
<1>1. PICK ok \in BOOLEAN :
        /\ Becomes([SceneSaved(Broken(Now, ok), ok) EXCEPT !.saving = IF ok THEN "meta" ELSE "none"])
        /\ import' = import
  BY DEF AutosaveScene, Calls
<1>2. Sound(Now) /\ Now \in StateType
  BY DEF WorkspaceInv, Sound
<1>3. PICK s : s = Broken(Now, ok)
  OBVIOUS
<1>4. /\ Sound(s) /\ s \in StateType /\ s.store = store /\ s.project = project /\ s.op = op
      /\ s.usage.drawn = usage.drawn /\ s.usage.canvases = usage.canvases /\ (Fine(s) => Fine(Now))
  BY <1>2, <1>3, BrokenKeeps, BrokenIs, NowIs DEF Sound
<1>5. PICK y : y = SceneSaved(s, ok)
  OBVIOUS
<1>6. /\ y.project = project /\ y.op = op /\ y.usage = s.usage
      /\ y.store.metas = store.metas /\ y.store.talks = store.talks
  BY <1>4, <1>5, SceneSavedIs
<1>7. Sound(y) /\ (DrawnKept(s) => DrawnKept(y))
  BY <1>4, <1>5, SceneSavedKeeps
<1>8. PICK due : due = (IF ok THEN "meta" ELSE "none") /\ Due(due)
  BY DEF Due
<1>9. PICK x : x = [y EXCEPT !.saving = due]
  OBVIOUS
<1>10. /\ Sound(x) /\ x.store = y.store /\ x.project = project /\ x.op = op /\ x.usage = s.usage
       /\ (DrawnKept(y) => DrawnKept(x))
  BY <1>6, <1>7, <1>8, <1>9, DueIs
<1>11. DrawnKept(Now) => DrawnKept(x)
  BY <1>4, <1>7, <1>10, NowIs DEF DrawnKept
<1>12. LeavesWork(x, Now, TRUE) /\ LeavesMetas(x, Now)
  BY <1>4, <1>6, <1>10, <1>11, NowIs DEF LeavesWork, LeavesMetas, Chats, Fine
<1>13. Becomes(x)
  BY <1>1, <1>3, <1>5, <1>8, <1>9
<1>14. QED
  BY <1>1, <1>10, <1>12, <1>13, BesideStep

LEMMA AutosaveMetaStep == WorkspaceInv /\ AutosaveMeta => WorkspaceInv'
<1> SUFFICES ASSUME WorkspaceInv, AutosaveMeta PROVE WorkspaceInv'
  OBVIOUS
<1>1. PICK ok \in BOOLEAN :
        /\ Becomes([MetaSaved(Broken(Now, ok), ok) EXCEPT !.saving = "none"])
        /\ import' = import
  BY DEF AutosaveMeta, Calls
<1>2. Sound(Now) /\ Now \in StateType
  BY DEF WorkspaceInv, Sound
<1>3. PICK s : s = Broken(Now, ok)
  OBVIOUS
<1>4. /\ Sound(s) /\ s \in StateType /\ s.store = store /\ s.project = project /\ s.op = op
      /\ s.usage.drawn = usage.drawn /\ s.usage.canvases = usage.canvases /\ (Fine(s) => Fine(Now))
  BY <1>2, <1>3, BrokenKeeps, BrokenIs, NowIs DEF Sound
<1>5. PICK y : y = MetaSaved(s, ok)
  OBVIOUS
<1>6. /\ y \in StateType /\ y.project = project /\ y.op = op /\ y.usage = s.usage /\ y.screen = s.screen
      /\ y.store.scenes = store.scenes /\ y.store.talks = store.talks /\ Records(y, s, ok)
  BY <1>4, <1>5, MetaSavedIs
<1>7. SamePictures(y, s) /\ y.op.scene.edit <= y.usage.edits
  BY <1>4, <1>6 DEF SamePictures, Sound, Numbers
<1>8. Sound(y) /\ (DrawnKept(s) => DrawnKept(y))
  BY <1>4, <1>6, <1>7, SamePicturesSound
<1>9. PICK due : due = "none" /\ Due(due)
  BY DEF Due
<1>10. PICK x : x = [y EXCEPT !.saving = due]
  OBVIOUS
<1>11. /\ Sound(x) /\ x.store = y.store /\ x.project = project /\ x.op = op /\ x.usage = s.usage
       /\ (DrawnKept(y) => DrawnKept(x))
  BY <1>6, <1>8, <1>9, <1>10, DueIs
<1>12. DrawnKept(Now) => DrawnKept(x)
  BY <1>4, <1>8, <1>11, NowIs DEF DrawnKept
<1>13. LeavesWork(x, Now, TRUE)
  BY <1>4, <1>6, <1>11, <1>12, NowIs DEF LeavesWork, Chats, Fine
<1>14. LeavesMetas(x, Now)
  BY <1>4, <1>6, <1>11, NowIs DEF LeavesMetas, Records
<1>15. Becomes(x)
  BY <1>1, <1>3, <1>5, <1>9, <1>10
<1>16. QED
  BY <1>1, <1>11, <1>13, <1>14, <1>15, BesideStep

\* Where an import is.
LEMMA ImportIs ==
  ASSUME WorkspaceInv, import.at # "none"
  PROVE  /\ Sound(Now) /\ Ready(Now, FALSE) /\ import \in ImportType
         /\ ~import.crossed => Importing(Now, import)
<1>1. Undisturbed(import) = FALSE
  BY DEF Undisturbed
<1>2. Sound(Now) /\ Ready(Now, FALSE) /\ import \in ImportType
  BY <1>1 DEF WorkspaceInv
<1>3. ~import.crossed => Importing(Now, import)
  BY DEF WorkspaceInv, Waiting
<1>4. QED
  BY <1>2, <1>3

\* A call of an import that fails takes nothing from it, nor from what it runs beside.
LEMMA ImportCallIs ==
  ASSUME NEW s0, Sound(s0), Ready(s0, FALSE), NEW i0, ~i0.crossed => Importing(s0, i0),
         NEW ok \in BOOLEAN, NEW s, s = Broken(s0, ok)
  PROVE  /\ Sound(s) /\ OkIsTrue(s, ok) /\ Ready(s, FALSE) /\ (~i0.crossed => Importing(s, i0))
         /\ s.store = s0.store /\ s.project = s0.project /\ s.op = s0.op
<1>1. s0 \in StateType /\ FALSE \in BOOLEAN
  BY DEF Sound
<1>2. s.store = s0.store /\ s.project = s0.project /\ s.op = s0.op
  BY <1>1, BrokenIs
<1>3. /\ Sound(s) /\ OkIsTrue(s, ok)
      /\ Parked(s0, FALSE) => Parked(s, FALSE)
      /\ Settled(s0, FALSE) => Settled(s, FALSE)
      /\ \A i : Importing(s0, i) => Importing(s, i)
  BY <1>1, BrokenKeeps
<1>4. Ready(s, FALSE)
  BY <1>2, <1>3 DEF Ready
<1>5. QED
  BY <1>2, <1>3, <1>4

\* An import goes on to its next await.
LEMMA ImportGoesOn ==
  ASSUME NEW x, Sound(x), Ready(x, FALSE), NEW i \in ImportType, i.at # "none",
         ~i.crossed => Importing(x, i), Becomes(x), import' = i
  PROVE  WorkspaceInv'
<1>1. Undisturbed(i) = FALSE /\ (Waiting(i) => Importing(x, i))
  BY DEF Undisturbed, Waiting
<1>2. Ready(x, Undisturbed(i))
  BY <1>1
<1>3. QED
  BY <1>1, <1>2, Becoming

\* A conversation is imported, unless the call fails.
LEMMA TalkImportedIs ==
  ASSUME NEW s, Sound(s), NEW f \in Folders, f = s.project.folder, NEW t \in Nat, NEW ok \in BOOLEAN,
         NEW x, x = TalkImported(s, t, ok)
  PROVE  /\ Sound(x) /\ x.project = s.project /\ x.op = s.op /\ x.usage.breaks = s.usage.breaks
         /\ x.store.metas = s.store.metas
         /\ ok => t \in Range(x.store.talks[f])
<1>1. s \in StateType
  BY DEF Sound
<1>2. PICK n \in Nat : n = s.usage.commands + 1
  BY <1>1 DEF StateType, UsageType
<1>3. CASE ok
  <2>1. PICK u : u = [s.usage EXCEPT !.talks = t, !.commands = n]
    OBVIOUS
  <2>2. /\ u \in UsageType /\ u.drawn = s.usage.drawn /\ u.edits = s.usage.edits /\ u.breaks = s.usage.breaks
    BY <1>1, <2>1 DEF StateType, UsageType
  <2>3. PICK all \in Seq(Nat) : all = s.store.talks[f]
    BY <1>1 DEF StateType, StoreType
  <2>4. PICK more : more = Append(all, t)
    OBVIOUS
  <2>5. more \in Seq(Nat) /\ t \in Range(more)
    BY <2>4, Appended
  <2>6. PICK z : z = [s.store.talks EXCEPT ![f] = more]
    OBVIOUS
  <2>7. z \in [Folders -> Seq(Nat)] /\ z[f] = more
    BY <1>1, <2>5, <2>6 DEF StateType, StoreType
  <2>8. PICK st : st = [s.store EXCEPT !.talks = z]
    OBVIOUS
  <2>9. st \in StoreType /\ st.talks = z /\ st.metas = s.store.metas /\ st.scenes = s.store.scenes
    BY <1>1, <2>7, <2>8 DEF StateType, StoreType
  <2>10. x = [s EXCEPT !.store = st, !.usage = u]
    BY <1>1, <1>2, <1>3, <2>1, <2>3, <2>4, <2>6, <2>8 DEF TalkImported, StateType, StoreType, UsageType
  <2>11. /\ x \in StateType /\ x.store = st /\ x.project = s.project /\ x.screen = s.screen /\ x.op = s.op
         /\ x.usage = u
    BY <1>1, <2>2, <2>9, <2>10 DEF StateType
  <2>12. SamePictures(x, s) /\ x.op.scene.edit <= x.usage.edits
    BY <2>2, <2>9, <2>11 DEF SamePictures, Sound, Numbers
  <2>13. Sound(x)
    BY <2>11, <2>12, SamePicturesSound
  <2>14. QED
    BY <2>2, <2>5, <2>7, <2>9, <2>11, <2>13
<1>4. CASE ~ok
  <2>1. PICK u : u = [s.usage EXCEPT !.commands = n]
    OBVIOUS
  <2>2. /\ u \in UsageType /\ u.drawn = s.usage.drawn /\ u.edits = s.usage.edits /\ u.breaks = s.usage.breaks
    BY <1>1, <2>1 DEF StateType, UsageType
  <2>3. x = [s EXCEPT !.usage = u]
    BY <1>1, <1>2, <1>4, <2>1 DEF TalkImported, StateType, UsageType
  <2>4. /\ x \in StateType /\ x.store = s.store /\ x.project = s.project /\ x.screen = s.screen /\ x.op = s.op
        /\ x.usage = u
    BY <1>1, <2>2, <2>3 DEF StateType
  <2>5. SamePictures(x, s) /\ x.op.scene.edit <= x.usage.edits
    BY <2>2, <2>4 DEF SamePictures, Sound, Numbers
  <2>6. Sound(x)
    BY <2>4, <2>5, SamePicturesSound
  <2>7. QED
    BY <1>4, <2>2, <2>4, <2>6
<1>5. QED
  BY <1>3, <1>4

\* the import of a file, from its first call
LEMMA ImportBeginsStep == WorkspaceInv /\ ImportBegins => WorkspaceInv'
<1> SUFFICES ASSUME WorkspaceInv, ImportBegins PROVE WorkspaceInv'
  OBVIOUS
<1>1. PICK q \in BOOLEAN : q = Undisturbed(import)
  BY DEF Undisturbed
<1>2. /\ Sound(Now) /\ Settled(Now, q) /\ import \in ImportType /\ op = NoOp /\ project.folder # Nowhere
      /\ Now \in StateType
  BY <1>1, FreeIs DEF ImportBegins, OpenedProject, Free, Sound
<1>3. PICK f \in Folders : f = project.folder
  BY <1>2, NowIs DEF StateType, ProjectType
<1>4. PICK t \in Nat : t = usage.talks + 1
  BY <1>2, NowIs DEF StateType, UsageType
<1>5. PICK ok \in BOOLEAN :
        /\ Becomes(TalkImported(Broken(Now, ok), t, ok))
        /\ import' = [[import EXCEPT !.at = "imported", !.canvas = project.canvas, !.talk = t] EXCEPT !.ok = ok]
        /\ import.at = "none"
  BY <1>4 DEF ImportBegins, ImportCalls
<1>6. PICK s : s = Broken(Now, ok)
  OBVIOUS
<1>7. /\ Sound(s) /\ Settled(s, q) /\ OkIsTrue(s, ok)
      /\ s.op = NoOp /\ s.project = project
  <2>1. Sound(s) /\ Settled(s, q) /\ OkIsTrue(s, ok)
    BY <1>2, <1>6, BrokenKeeps
  <2>2. s.op = NoOp /\ s.project = project
    BY <1>2, <1>6, BrokenIs, NowIs
  <2>3. QED
    BY <2>1, <2>2
<1>8. PICK x : x = TalkImported(s, t, ok)
  OBVIOUS
<1>9. /\ Sound(x) /\ x.project = project /\ x.op = NoOp /\ x.usage.breaks = s.usage.breaks
      /\ x.store.metas = s.store.metas
      /\ ok => t \in Range(x.store.talks[f])
  BY <1>3, <1>7, <1>8, TalkImportedIs
<1>10. Becomes(x)
  BY <1>5, <1>6, <1>8
<1>11. PICK i : i = import'
  OBVIOUS
<1>12. /\ i \in ImportType /\ i.at = "imported" /\ i.talk = t /\ i.ok = ok /\ i.crossed = import.crossed
  <2>1. project.canvas \in CanvasIds \cup {NoCanvas}
    BY <1>2, NowIs DEF StateType, ProjectType
  <2>2. QED
    BY <1>2, <1>5, <1>11, <2>1 DEF ImportType
<1>13. IsOpen(x) /\ (Fine(x) => CanvasShown(x) /\ Recorded(x) /\ ok)
  BY <1>2, <1>7, <1>9 DEF Settled, OkIsTrue, Fine, IsOpen, CanvasShown, Recorded
<1>14. Ready(x, FALSE)
  BY <1>9, <1>13 DEF Ready, Settled, Chats
<1>15. Importing(x, i)
  BY <1>3, <1>9, <1>12, <1>13 DEF Importing
<1>16. QED
  BY <1>9, <1>10, <1>11, <1>12, <1>14, <1>15, ImportGoesOn

\* over the list of conversations
LEMMA ImportListsStep == WorkspaceInv /\ ImportLists => WorkspaceInv'
<1> SUFFICES ASSUME WorkspaceInv, ImportLists PROVE WorkspaceInv'
  OBVIOUS
<1>1. PICK list : list = IF project.folder = Nowhere THEN <<>> ELSE store.talks[project.folder]
  OBVIOUS
<1>2. PICK ok \in BOOLEAN :
        /\ Becomes(Broken(Now, ok)) /\ import.at = "imported"
        /\ import' = [[import EXCEPT !.at = "listed", !.listed = list] EXCEPT !.ok = ok]
  BY <1>1 DEF ImportLists, ImportCalls
<1>3. /\ Sound(Now) /\ Ready(Now, FALSE) /\ import \in ImportType
      /\ ~import.crossed => Importing(Now, import)
  BY <1>2, ImportIs
<1>4. PICK x : x = Broken(Now, ok)
  OBVIOUS
<1>5. /\ Sound(x) /\ OkIsTrue(x, ok) /\ Ready(x, FALSE) /\ (~import.crossed => Importing(x, import))
      /\ x.store = store /\ x.project = project
  BY <1>3, <1>4, ImportCallIs, NowIs
<1>6. list \in Seq(Nat)
  <2>1. CASE project.folder = Nowhere
    BY <1>1, <2>1
  <2>2. CASE project.folder # Nowhere
    <3>1. store \in StoreType /\ project.folder \in Folders
      BY <1>5, <2>2 DEF Sound, StateType, ProjectType
    <3>2. QED
      BY <1>1, <2>2, <3>1 DEF StoreType
  <2>3. QED
    BY <2>1, <2>2
<1>7. PICK i : i = import'
  OBVIOUS
<1>8. /\ i \in ImportType /\ i.at = "listed" /\ i.talk = import.talk /\ i.ok = ok /\ i.listed = list
      /\ i.crossed = import.crossed
  BY <1>2, <1>3, <1>6, <1>7 DEF ImportType
<1>9. ASSUME ~i.crossed PROVE Importing(x, i)
  <2>1. Importing(x, import)
    BY <1>5, <1>8, <1>9
  <2>2. IsOpen(x) /\ list = x.store.talks[x.project.folder]
    BY <1>1, <1>5, <2>1 DEF Importing, IsOpen
  <2>3. Fine(x) => import.talk \in Range(x.store.talks[x.project.folder])
    BY <1>2, <2>1 DEF Importing
  <2>4. QED
    BY <1>5, <1>8, <2>1, <2>2, <2>3 DEF Importing, OkIsTrue
<1>10. Becomes(x)
  BY <1>2, <1>4
<1>11. QED
  BY <1>5, <1>7, <1>8, <1>9, <1>10, ImportGoesOn

\* and the selection of the one it imported
LEMMA ImportSelectsStep == WorkspaceInv /\ ImportSelects => WorkspaceInv'
<1> SUFFICES ASSUME WorkspaceInv, ImportSelects PROVE WorkspaceInv'
  OBVIOUS
<1>1. PICK ok \in BOOLEAN :
        /\ Becomes(TalksShown(Broken(Now, ok), ok)) /\ import.at = "listed"
        /\ import' = [[import EXCEPT !.at = "selected"] EXCEPT !.ok = ok]
  BY DEF ImportSelects, ImportCalls
<1>2. /\ Sound(Now) /\ Ready(Now, FALSE) /\ import \in ImportType
      /\ ~import.crossed => Importing(Now, import)
  BY <1>1, ImportIs
<1>3. PICK s : s = Broken(Now, ok)
  OBVIOUS
<1>4. /\ Sound(s) /\ OkIsTrue(s, ok) /\ Ready(s, FALSE) /\ (~import.crossed => Importing(s, import))
      /\ s \in StateType
  BY <1>2, <1>3, ImportCallIs DEF Sound
<1>5. PICK p : p = [s.project EXCEPT !.talks = import.listed]
  OBVIOUS
<1>6. /\ p \in ProjectType /\ p.talks = import.listed /\ p.folder = s.project.folder
      /\ p.canvases = s.project.canvases /\ p.canvas = s.project.canvas /\ p.talk = s.project.talk
  BY <1>2, <1>4, <1>5 DEF StateType, ProjectType, ImportType
<1>7. PICK x : x = [s EXCEPT !.project = p]
  OBVIOUS
<1>8. /\ x \in StateType /\ x.store = s.store /\ x.screen = s.screen /\ x.op = s.op
      /\ x.usage = s.usage /\ x.project = p
  BY <1>4, <1>6, <1>7, ProjectIs
<1>9. SamePictures(x, s) /\ x.op.scene.edit <= x.usage.edits
  BY <1>4, <1>6, <1>8 DEF SamePictures, Sound, Numbers
<1>10. Sound(x) /\ (DrawnKept(s) => DrawnKept(x))
  BY <1>4, <1>8, <1>9, SamePicturesSound
<1>11. LeavesWork(x, s, FALSE) /\ LeavesMetas(x, s)
  BY <1>6, <1>8, <1>10 DEF LeavesWork, LeavesMetas, Fine
<1>12. Ready(x, FALSE)
  BY <1>4, <1>10, <1>11, Beside
<1>13. PICK i : i = import'
  OBVIOUS
<1>14. i \in ImportType /\ i.at = "selected" /\ i.talk = import.talk /\ i.ok = ok /\ i.crossed = import.crossed
  BY <1>1, <1>2, <1>13 DEF ImportType
<1>15. ASSUME ~i.crossed PROVE Importing(x, i)
  <2>1. Importing(s, import)
    BY <1>4, <1>14, <1>15
  <2>2. x.op = NoOp /\ IsOpen(x) /\ (Fine(x) => CanvasShown(x) /\ Recorded(x) /\ ok)
    BY <1>4, <1>6, <1>8, <2>1 DEF Importing, IsOpen, Fine, CanvasShown, Recorded, OkIsTrue
  <2>3. ASSUME Fine(x) PROVE TalksListed(x) /\ i.talk \in Range(x.project.talks)
    <3>1. import.listed = s.store.talks[s.project.folder] /\ import.talk \in Range(import.listed)
      BY <1>1, <1>8, <2>1, <2>3 DEF Importing, Fine
    <3>2. QED
      BY <1>6, <1>8, <1>14, <3>1 DEF TalksListed
  <2>4. QED
    BY <1>14, <2>2, <2>3 DEF Importing
<1>16. Becomes(x)
  <2>1. x = [s EXCEPT !.project.talks = import.listed]
    BY <1>4, <1>5, <1>7 DEF StateType
  <2>2. x = TalksShown(s, ok)
    BY <2>1 DEF TalksShown
  <2>3. QED
    BY <1>1, <1>3, <2>2
<1>17. QED
  BY <1>10, <1>12, <1>13, <1>14, <1>15, <1>16, ImportGoesOn

\* What is imported comes on screen.
LEMMA ImportShownIs ==
  ASSUME NEW s, Sound(s), import \in ImportType, NEW y, y = ImportShown(s)
  PROVE  /\ Sound(y) /\ y.store = s.store /\ y.op = s.op /\ y.usage.breaks = s.usage.breaks
         /\ y.usage.canvases = s.usage.canvases
         /\ y.project.folder = s.project.folder /\ y.project.canvases = s.project.canvases
         /\ y.project.canvas = s.project.canvas /\ y.project.talks = s.project.talks
         /\ y.project.talk = import.talk
         /\ s.op # NoOp => y.usage.drawn = s.usage.drawn
<1>1. s \in StateType
  BY DEF Sound
<1>2. PICK e \in Nat : e = s.usage.edits + 1 /\ s.usage.edits \in Nat /\ e >= s.usage.edits
  BY <1>1 DEF StateType, UsageType
<1>3. PICK t \in Nat : t = import.talk
  BY DEF ImportType
<1>4. PICK c \in CanvasIds \cup {NoCanvas} : c = s.project.canvas
  BY <1>1 DEF StateType, ProjectType
<1>5. s.usage.drawn \in [CanvasIds -> Nat]
  BY <1>1 DEF StateType, UsageType
<1>6. PICK p : p = [s.project EXCEPT !.talk = t]
  OBVIOUS
<1>7. /\ p \in ProjectType /\ p.talk = t /\ p.folder = s.project.folder /\ p.talks = s.project.talks
      /\ p.canvases = s.project.canvases /\ p.canvas = c
  BY <1>1, <1>4, <1>6 DEF StateType, ProjectType
<1>8. PICK v : v = [of |-> c, edit |-> e, meant |-> import.canvas]
  OBVIOUS
<1>9. v \in Scene /\ v.of = c /\ v.edit = e
  BY <1>4, <1>8 DEF Scene, ImportType
<1>10. PICK z : z = IF c = NoCanvas \/ s.op # NoOp THEN s.usage.drawn ELSE [s.usage.drawn EXCEPT ![c] = e]
  OBVIOUS
<1>11. /\ z \in [CanvasIds -> Nat]
       /\ \A d \in CanvasIds : z[d] = IF d = c /\ s.op = NoOp THEN e ELSE s.usage.drawn[d]
  BY <1>4, <1>5, <1>10, ThingsAreTyped
<1>12. PICK u : u = [s.usage EXCEPT !.edits = e, !.drawn = z]
  OBVIOUS
<1>13. /\ u \in UsageType /\ u.edits = e /\ u.drawn = z /\ u.breaks = s.usage.breaks
       /\ u.canvases = s.usage.canvases
  BY <1>1, <1>11, <1>12 DEF StateType, UsageType
<1>14. y = [s EXCEPT !.project = p, !.screen = v, !.usage = u]
  <2>1. p = [s.project EXCEPT !.talk = import.talk]
    BY <1>3, <1>6
  <2>2. v = [of |-> s.project.canvas, edit |-> s.usage.edits + 1, meant |-> import.canvas]
    BY <1>2, <1>4, <1>8
  <2>3. u = [s.usage EXCEPT !.edits = s.usage.edits + 1,
                            !.drawn = IF s.project.canvas = NoCanvas \/ s.op # NoOp THEN @
                                      ELSE [@ EXCEPT ![s.project.canvas] = s.usage.edits + 1]]
    BY <1>1, <1>2, <1>4, <1>10, <1>12 DEF StateType, UsageType
  <2>4. QED
    BY <1>1, <2>1, <2>2, <2>3 DEF ImportShown, StateType
<1>15. /\ y \in StateType /\ y.store = s.store /\ y.project = p /\ y.screen = v /\ y.op = s.op
       /\ y.usage = u
  BY <1>1, <1>7, <1>9, <1>13, <1>14 DEF StateType
<1>16. Numbers(y)
  <2>1. ASSUME NEW d \in CanvasIds PROVE s.store.scenes[d].edit <= e /\ z[d] <= e
    <3>1. s.store.scenes[d].edit \in Nat /\ s.store.scenes[d].edit <= s.usage.edits
      BY <1>1 DEF Sound, Numbers, StateType, StoreType, Scene
    <3>2. z[d] \in Nat /\ (z[d] = e \/ z[d] <= s.usage.edits)
      BY <1>11 DEF Sound, Numbers
    <3>3. QED
      BY <1>2, <3>1, <3>2
  <2>2. s.op.scene.edit \in Nat /\ s.op.scene.edit <= e
    BY <1>1, <1>2 DEF Sound, Numbers, StateType, OpType, Scene
  <2>3. v.edit <= e
    BY <1>2, <1>9
  <2>4. QED
    BY <1>13, <1>15, <2>1, <2>2, <2>3 DEF Numbers
<1>17. OnScreen(y)
  <2>1. ASSUME c # NoCanvas PROVE v.edit >= z[c]
    <3>1. c \in CanvasIds
      BY <1>4, <2>1
    <3>2. z[c] <= e /\ z[c] \in Nat
      BY <1>11, <1>13, <1>15, <1>16, <3>1 DEF Numbers
    <3>3. QED
      BY <1>2, <1>9, <3>2
  <2>2. QED
    BY <1>7, <1>9, <1>13, <1>15, <2>1 DEF OnScreen
<1>18. InFiles(y)
  BY <1>4, <1>7, <1>11, <1>13, <1>15 DEF Sound, InFiles
<1>19. Sound(y)
  BY <1>15, <1>16, <1>17, <1>18 DEF Sound
<1>20. s.op # NoOp => u.drawn = s.usage.drawn
  BY <1>10, <1>13
<1>21. QED
  BY <1>3, <1>4, <1>7, <1>13, <1>15, <1>19, <1>20

\* to its end, on the canvas that is active by then,
LEMMA ImportEndsStep == WorkspaceInv /\ ImportEnds => WorkspaceInv'
<1> SUFFICES ASSUME WorkspaceInv, ImportEnds PROVE WorkspaceInv'
  OBVIOUS
<1>1. PICK ok \in BOOLEAN :
        /\ Becomes(ShownSaved(Broken(Now, ok), ok))
        /\ import' = [Idling EXCEPT !.crossed = import.crossed] /\ import.at = "selected"
  BY DEF ImportEnds, Calls
<1>2. /\ Sound(Now) /\ Ready(Now, FALSE) /\ import \in ImportType
      /\ ~import.crossed => Importing(Now, import)
  BY <1>1, ImportIs
<1>3. PICK s : s = Broken(Now, ok)
  OBVIOUS
<1>4. /\ Sound(s) /\ Ready(s, FALSE) /\ (~import.crossed => Importing(s, import)) /\ s \in StateType
  BY <1>2, <1>3, ImportCallIs DEF Sound
<1>5. PICK y : y = ImportShown(s)
  OBVIOUS
<1>6. /\ Sound(y) /\ y.store = s.store /\ y.op = s.op /\ y.usage.breaks = s.usage.breaks
      /\ y.usage.canvases = s.usage.canvases
      /\ y.project.folder = s.project.folder /\ y.project.canvases = s.project.canvases
      /\ y.project.canvas = s.project.canvas /\ y.project.talks = s.project.talks
      /\ y.project.talk = import.talk
      /\ s.op # NoOp => y.usage.drawn = s.usage.drawn
  BY <1>2, <1>4, <1>5, ImportShownIs
<1>7. PICK w : w = SceneSaved(y, ok)
  OBVIOUS
<1>8. /\ w.project = y.project /\ w.op = y.op /\ w.usage = y.usage
      /\ w.store.metas = y.store.metas /\ w.store.talks = y.store.talks
  <2>1. y \in StateType
    BY <1>6 DEF Sound
  <2>2. QED
    BY <1>7, <2>1, SceneSavedIs
<1>9. Sound(w) /\ (DrawnKept(y) => DrawnKept(w))
  BY <1>6, <1>7, SceneSavedKeeps
<1>10. PICK due : due = (IF ok THEN "meta" ELSE "none") /\ Due(due)
  BY DEF Due
<1>11. PICK x : x = [w EXCEPT !.saving = due]
  OBVIOUS
<1>12. /\ Sound(x) /\ x.store = w.store /\ x.project = w.project /\ x.op = w.op /\ x.usage = w.usage
       /\ (DrawnKept(w) => DrawnKept(x))
  BY <1>9, <1>10, <1>11, DueIs
<1>13. s.op # NoOp /\ DrawnKept(s) => DrawnKept(x)
  BY <1>6, <1>9, <1>12 DEF DrawnKept
<1>14. LeavesWork(x, s, FALSE) /\ LeavesMetas(x, s)
  BY <1>6, <1>8, <1>12, <1>13 DEF LeavesWork, LeavesMetas, Fine
<1>15. Ready(x, FALSE)
  BY <1>4, <1>12, <1>14, Beside
<1>16. PICK i : i = [Idling EXCEPT !.crossed = import.crossed]
  OBVIOUS
<1>17. i \in ImportType /\ ~Waiting(i) /\ i.at = "none" /\ i.crossed = import.crossed
  BY <1>2, <1>16, IdlingIsTyped DEF ImportType
<1>18. ASSUME ~import.crossed PROVE Ready(x, TRUE)
  <2>1. Importing(s, import)
    BY <1>4, <1>18
  <2>2. x.op = NoOp
    BY <1>6, <1>8, <1>12, <2>1 DEF Importing
  <2>3. ASSUME Fine(x) PROVE CanvasShown(x) /\ Recorded(x) /\ TalksListed(x) /\ TalkChosen(x)
    <3>1. CanvasShown(s) /\ Recorded(s) /\ TalksListed(s) /\ import.talk \in Range(s.project.talks)
      BY <1>1, <1>6, <1>8, <1>12, <2>1, <2>3 DEF Importing, Fine
    <3>2. QED
      BY <1>6, <1>8, <1>12, <3>1 DEF CanvasShown, Recorded, TalksListed, TalkChosen
  <2>4. QED
    BY <2>2, <2>3 DEF Ready, Settled, Chats
<1>19. Ready(x, Undisturbed(i))
  <2>1. Undisturbed(i) = ~import.crossed
    BY <1>17 DEF Undisturbed
  <2>2. QED
    BY <1>2, <1>15, <1>18, <2>1 DEF ImportType
<1>20. Becomes(x)
  BY <1>1, <1>3, <1>5, <1>7, <1>10, <1>11 DEF ShownSaved
<1>21. QED
  BY <1>1, <1>12, <1>16, <1>17, <1>19, <1>20, Becoming

\* or to a call that failed,
LEMMA ImportFailsStep == WorkspaceInv /\ ImportFails => WorkspaceInv'
<1> SUFFICES ASSUME WorkspaceInv, ImportFails PROVE WorkspaceInv'
  OBVIOUS
<1>1. Sound(Now) /\ import \in ImportType /\ Ready(Now, Undisturbed(import)) /\ ~import.ok
  BY DEF WorkspaceInv, ImportFails
<1>2. PICK i : i = [Idling EXCEPT !.crossed = import.crossed]
  OBVIOUS
<1>3. i \in ImportType /\ ~Waiting(i) /\ i.at = "none" /\ i.crossed = import.crossed /\ import' = i
  BY <1>1, <1>2, IdlingIsTyped DEF ImportType, ImportFails
<1>4. Ready(Now, Undisturbed(i))
  <2>1. CASE import.at = "none" \/ import.crossed
    <3>1. Undisturbed(i) = Undisturbed(import)
      BY <1>1, <1>3, <2>1 DEF Undisturbed, ImportType
    <3>2. QED
      BY <1>1, <3>1
  <2>2. CASE import.at # "none" /\ ~import.crossed
    <3>1. Importing(Now, import)
      BY <2>2 DEF WorkspaceInv, Waiting
    <3>2. Now.op = NoOp /\ ~Fine(Now)
      BY <1>1, <3>1 DEF Importing
    <3>3. QED
      BY <3>2 DEF Ready, Settled, Chats
  <2>3. QED
    BY <2>1, <2>2
<1>5. Becomes(Now)
  BY NowIs DEF ImportFails, Becomes
<1>6. QED
  BY <1>1, <1>3, <1>4, <1>5, Becoming

\* No project is open.
LEMMA ClosedIs ==
  /\ Closed \in ProjectType /\ Closed.folder = Nowhere /\ Closed.canvas = NoCanvas
  BY ThingsAreTyped DEF Closed, ProjectType

\* Nothing is open.
LEMMA ClosedGood ==
  ASSUME NEW q \in BOOLEAN,
         NEW x \in StateType, x.project = Closed, x.screen = NoScene, x.op = NoOp, InFiles(x),
         \A c \in CanvasIds : x.store.scenes[c].edit <= x.usage.edits /\ x.usage.drawn[c] <= x.usage.edits
  PROVE  Sound(x) /\ Ready(x, q)
<1>1. x.usage.edits \in Nat
  BY DEF StateType, UsageType
<1>2. Numbers(x)
  BY <1>1, ThingsAreTyped DEF Numbers
<1>3. OnScreen(x) /\ Settled(x, q)
  BY ClosedIs DEF OnScreen, Settled, IsOpen
<1>4. QED
  BY <1>2, <1>3 DEF Sound, Ready

\* and a restart.
LEMMA RestartStep == WorkspaceInv /\ Restart => WorkspaceInv'
<1> SUFFICES ASSUME WorkspaceInv, Restart PROVE WorkspaceInv'
  OBVIOUS
<1>1. PICK s \in StateType : s = Now /\ Sound(s)
  BY DEF WorkspaceInv, Sound
<1>2. /\ s.store = store /\ s.usage = usage /\ store.scenes \in [CanvasIds -> Scene]
  BY <1>1, NowIs DEF StateType, StoreType
<1>3. PICK n \in Nat : n = usage.breaks + 1
  BY <1>1, <1>2 DEF StateType, UsageType
<1>4. PICK z : z = [c \in CanvasIds |-> store.scenes[c].edit]
  OBVIOUS
<1>5. z \in [CanvasIds -> Nat] /\ \A c \in CanvasIds : z[c] = store.scenes[c].edit
  BY <1>2, <1>4 DEF Scene
<1>6. PICK u : u = [usage EXCEPT !.breaks = n, !.drawn = z]
  OBVIOUS
<1>7. u \in UsageType /\ u.drawn = z /\ u.edits = usage.edits /\ usage' = u
  BY <1>1, <1>2, <1>3, <1>4, <1>5, <1>6 DEF StateType, UsageType, Restart
<1>8. PICK x : x = [s EXCEPT !.project = Closed, !.screen = NoScene, !.op = NoOp, !.saving = "none", !.usage = u]
  OBVIOUS
<1>9. /\ x \in StateType /\ x.store = store /\ x.project = Closed /\ x.screen = NoScene /\ x.op = NoOp
      /\ x.saving = "none" /\ x.usage = u
  BY <1>1, <1>2, <1>7, <1>8, ThingsAreTyped, ClosedIs DEF StateType
<1>10. Becomes(x) /\ import' = Idling
  BY <1>7, <1>9 DEF Restart, Becomes
<1>11. InFiles(x)
  <2>1. SUFFICES ASSUME NEW c \in CanvasIds
                 PROVE  /\ x.store.scenes[c].edit >= x.usage.drawn[c]
                        /\ x.store.scenes[c] = NoScene \/ x.store.scenes[c].of = c
    BY DEF InFiles
  <2>2. store.scenes[c].edit \in Nat /\ z[c] = store.scenes[c].edit
    BY <1>2, <1>5 DEF Scene
  <2>3. store.scenes[c] = NoScene \/ store.scenes[c].of = c
    BY <1>1, <1>2 DEF Sound, InFiles
  <2>4. QED
    BY <1>7, <1>9, <2>2, <2>3
<1>12. \A c \in CanvasIds : x.store.scenes[c].edit <= x.usage.edits /\ x.usage.drawn[c] <= x.usage.edits
  BY <1>1, <1>2, <1>5, <1>7, <1>9 DEF Sound, Numbers
<1>13. Sound(x) /\ Ready(x, TRUE)
  BY <1>9, <1>11, <1>12, ClosedGood
<1>14. Idling \in ImportType /\ Undisturbed(Idling) = TRUE /\ ~Waiting(Idling)
  BY IdlingIsTyped DEF Undisturbed, Waiting
<1>15. QED
  BY <1>10, <1>13, <1>14, Becoming

\* The program starts in the invariant,
LEMMA WorkspaceInitInv == WorkspaceInit => WorkspaceInv
<1> SUFFICES ASSUME WorkspaceInit PROVE WorkspaceInv
  OBVIOUS
<1>1. PICK x : x = Now
  OBVIOUS
<1>2. /\ x.store = store /\ x.project = Closed /\ x.screen = NoScene /\ x.op = NoOp /\ x.saving = "none"
      /\ x.usage = usage
  BY <1>1, NowIs DEF WorkspaceInit
<1>3. /\ store \in StoreType /\ \A c \in CanvasIds : store.scenes[c] = NoScene
  <2>1. PICK m : m = [f \in Folders |-> IF f = OldFolder THEN [version |-> 1, canvases |-> OldCanvases]
                                        ELSE [version |-> 0, canvases |-> <<>>]]
    OBVIOUS
  <2>2. m \in [Folders -> Meta]
    BY <2>1, CanvasesAssumption DEF Meta
  <2>3. PICK z : z = [c \in CanvasIds |-> NoScene]
    OBVIOUS
  <2>4. z \in [CanvasIds -> Scene] /\ \A c \in CanvasIds : z[c] = NoScene
    BY <2>3, ThingsAreTyped
  <2>5. PICK ts : ts = [f \in Folders |-> <<>>]
    OBVIOUS
  <2>6. ts \in [Folders -> Seq(Nat)]
    BY <2>5
  <2>7. store = [metas |-> m, scenes |-> z, talks |-> ts, deleted |-> {}]
    BY <2>1, <2>3, <2>5 DEF WorkspaceInit
  <2>8. QED
    BY <2>2, <2>4, <2>6, <2>7 DEF StoreType
<1>4. /\ usage \in UsageType /\ usage.edits = 0 /\ \A c \in CanvasIds : usage.drawn[c] = 0
  <2>1. PICK z : z = [c \in CanvasIds |-> 0]
    OBVIOUS
  <2>2. z \in [CanvasIds -> Nat] /\ \A c \in CanvasIds : z[c] = 0
    BY <2>1
  <2>3. PICK n \in Nat : n = Len(OldCanvases)
    BY CanvasesAssumption
  <2>4. usage = [commands |-> 0, edits |-> 0, breaks |-> 0, canvases |-> n, talks |-> 0, drawn |-> z]
    BY <2>1, <2>3 DEF WorkspaceInit
  <2>5. QED
    BY <2>2, <2>4 DEF UsageType
<1>5. x \in StateType
  BY <1>1, <1>2, <1>3, <1>4, ThingsAreTyped, ClosedIs DEF StateType, Now
<1>6. InFiles(x)
  <2>1. ASSUME NEW c \in CanvasIds
        PROVE  /\ x.store.scenes[c].edit >= x.usage.drawn[c]
               /\ x.store.scenes[c] = NoScene \/ x.store.scenes[c].of = c
    <3>1. x.store.scenes[c] = NoScene /\ x.usage.drawn[c] = 0
      BY <1>2, <1>3, <1>4
    <3>2. x.store.scenes[c].edit = 0
      BY <3>1, ThingsAreTyped
    <3>3. QED
      BY <3>1, <3>2
  <2>2. QED
    BY <2>1 DEF InFiles
<1>7. \A c \in CanvasIds : x.store.scenes[c].edit <= x.usage.edits /\ x.usage.drawn[c] <= x.usage.edits
  BY <1>2, <1>3, <1>4, ThingsAreTyped
<1>8. Sound(x) /\ Ready(x, TRUE)
  BY <1>2, <1>5, <1>6, <1>7, ClosedGood
<1>9. import = Idling
  BY DEF WorkspaceInit
<1>10. import \in ImportType /\ Undisturbed(import) = TRUE /\ ~Waiting(import)
  BY <1>9, IdlingIsTyped DEF Undisturbed, Waiting
<1>11. QED
  BY <1>1, <1>8, <1>10 DEF WorkspaceInv

\* and every step keeps it.
LEMMA WorkspaceStep ==
  ASSUME WorkspaceInv, [WorkspaceNext]_workspaceVars
  PROVE  WorkspaceInv'
<1>1. CASE UNCHANGED workspaceVars
  <2>1. Now' = Now /\ import' = import
    BY <1>1 DEF workspaceVars, Now
  <2>2. QED
    BY <2>1 DEF WorkspaceInv
<1>2. CASE WorkspaceNext
  BY <1>2, SelectCanvasStep, NewCanvasStep, DeleteCanvasStep, SelectSessionStep, NewSessionStep,
     DeleteSessionStep, OpenFolderStep, TransitionContinuesStep, DrawStep, SendStep, EngineSavesStep,
     AutosaveSceneStep, AutosaveMetaStep, ImportBeginsStep, ImportListsStep, ImportSelectsStep, ImportEndsStep,
     ImportFailsStep, RestartStep
     DEF WorkspaceNext
<1>3. QED
  BY <1>1, <1>2

-----------------------------------------------------------------------------
(* The theorems.                                                           *)

\* The workspace is in a state of its invariant: each transition, parked at its await, may
\* rely on what it read before, and so may an import that no transition runs beside.
THEOREM WorkspaceInvariant == WorkspaceSpec => []WorkspaceInv
<1>1. WorkspaceInit => WorkspaceInv
  BY WorkspaceInitInv
<1>2. WorkspaceInv /\ [WorkspaceNext]_workspaceVars => WorkspaceInv'
  BY WorkspaceStep
<1>3. QED
  BY <1>1, <1>2, PTL DEF WorkspaceSpec

\* What the user draws on a canvas is on the screen or in the canvas's file, whatever is
\* switched, fails or restarts, until the canvas is deleted or an imported file replaces
\* what is on it; and a file holds what was on screen while its canvas was the active one.
THEOREM EditsAreKept == WorkspaceSpec => []EditsSurvive
<1>1. WorkspaceInv => EditsSurvive
  <2>1. SUFFICES ASSUME WorkspaceInv, NEW c \in CanvasIds
                 PROVE  /\ \/ store.scenes[c].edit >= usage.drawn[c]
                           \/ project.canvas = c /\ screen.edit >= usage.drawn[c]
                        /\ store.scenes[c] = NoScene \/ store.scenes[c].of = c
    BY DEF EditsSurvive
  <2>2. Sound(Now)
    BY <2>1 DEF WorkspaceInv
  <2>3. store.scenes[c] = NoScene \/ store.scenes[c].of = c
    BY <2>2, NowIs DEF Sound, InFiles
  <2>4. CASE project.canvas = c
    BY <2>2, <2>3, <2>4, NowIs, ThingsAreTyped DEF Sound, OnScreen
  <2>5. CASE project.canvas # c
    BY <2>2, <2>3, <2>5, NowIs DEF Sound, InFiles
  <2>6. QED
    BY <2>4, <2>5
<1>2. QED
  BY <1>1, WorkspaceInvariant, PTL

\* Between commands of which none failed, what is on screen is what is in the files; of the
\* conversations, while no import disturbs them.
THEOREM WorkspaceStaysWhole == WorkspaceSpec => []WorkspaceIsWhole
<1>1. WorkspaceInv => WorkspaceIsWhole
  <2>1. SUFFICES ASSUME WorkspaceInv, op = NoOp, usage.breaks = 0, project.folder # Nowhere
                 PROVE  /\ project.canvas \in Range(project.canvases)
                        /\ store.metas[project.folder] = [version |-> 2, canvases |-> project.canvases]
                        /\ import.at = "none" /\ ~import.crossed =>
                             project.talk \in Range(project.talks) /\ project.talks = store.talks[project.folder]
    BY DEF WorkspaceIsWhole
  <2>2. PICK q \in BOOLEAN : q = Undisturbed(import)
    BY DEF Undisturbed
  <2>3. Sound(Now) /\ Ready(Now, q) /\ Now.op = NoOp
    BY <2>1, <2>2, NowIs DEF WorkspaceInv
  <2>4. ~Parked(Now, q)
    BY <2>3, AwaitsDiffer, ThingsAreTyped DEF Awaits
  <2>5. Settled(Now, q)
    BY <2>3, <2>4 DEF Ready
  <2>6. QED
    BY <2>1, <2>2, <2>5, NowIs DEF Undisturbed, Settled, Chats, Fine, IsOpen, CanvasShown, Recorded, TalksListed, TalkChosen
<1>2. QED
  BY <1>1, WorkspaceInvariant, PTL
=============================================================================
