---------------------------- MODULE Connections ----------------------------
(***************************************************************************)
(* HarnessConnections (src/harness/connections.ts): which account and      *)
(* model the requests use.  Refreshing, connecting, signing in and signing *)
(* out overlap; what each learns is dropped when a newer one has begun     *)
(* (revision, loginRevision).  The native side keeps the profiles with     *)
(* their credential versions and the browser logins.                       *)
(*                                                                         *)
(* A task is the await an operation is parked at: the request it made,     *)
(* handled or not, and what follows.  An answer and the code that runs on  *)
(* it up to the next request are one step.  Model lists are reduced to     *)
(* whether they have a model at all.                                       *)
(***************************************************************************)
EXTENDS Naturals

CONSTANTS
  Accounts,     \* profiles signed in through the browser
  Gateways,     \* profiles saved with a token
  MaxOps,       \* bound: operations of the user
  MaxTroubles   \* bound: failed requests, empty model lists and ends of the native process

None     == "none"
Profiles == Accounts \cup Gateways

\* The stored preference tells a profile from none and from none stored.
ASSUME ProfilesAssumption == {None, "unset"} \cap Profiles = {}
ASSUME OpsAssumption == MaxOps \in Nat

Unknown == [p \in Profiles |-> [version |-> 0, signedIn |-> FALSE]]
NoTask  == [request |-> None, target |-> None, profile |-> None, then |-> None, revision |-> 0, login |-> 0,
            version |-> 0, answer |-> None, found |-> 0, profiles |-> Unknown]
Tasks   == 1..(MaxOps + 3)     \* the operations, the first refresh, and those a notification starts
Logins  == 1..MaxOps

VARIABLES
  account,   \* ConnectionSnapshot
  revisions, \* revision, loginRevision, loginProfile, settledLogins
  saved,     \* the preference CONNECTION_STORAGE: "unset", "none" or a profile
  tasks,     \* the awaits
  service,   \* native: versions, credentials, login attempts, whether the process runs
  budget     \* what the bounds count

connectionVars == <<account, revisions, saved, tasks, service, budget>>

NoConnection == [profile |-> None, version |-> 0]

ConnectionsInit ==
  /\ account = [profiles |-> Unknown, profile |-> None, connection |-> NoConnection, loading |-> TRUE,
                error |-> FALSE, attempt |-> 0, pending |-> FALSE]
  /\ revisions = [revision |-> 1, login |-> 0, loginProfile |-> None, settled |-> {}]
  /\ saved = "unset"
  /\ tasks = [t \in Tasks |-> IF t = 1 THEN [NoTask EXCEPT !.request = "profiles", !.then = "end", !.revision = 1]
                              ELSE NoTask]
  /\ \E signed \in SUBSET Profiles :
       service = [profiles |-> [p \in Profiles |-> [version |-> 1, signedIn |-> p \in signed]],
                  attempts |-> {}, news |-> {}, running |-> TRUE, logins |-> 0]
  /\ budget = [ops |-> 0, troubles |-> 0]

-----------------------------------------------------------------------------
(* The state between two awaits: account, revisions, saved and the task    *)
(* the code goes on with (NoTask when it returned).                        *)

Here(task) == [account |-> account, revisions |-> revisions, saved |-> saved, task |-> task]
End(s)     == [s EXCEPT !.task = NoTask]
Stale(s)   == s.task.revision # s.revisions.revision
Ask(s, request, profile) ==
  [s EXCEPT !.task = [@ EXCEPT !.request = request, !.profile = profile, !.answer = None,
                               !.revision = s.revisions.revision]]
Unconnected(s) == [s EXCEPT !.account.connection = NoConnection]
Newer(s)   == [s EXCEPT !.revisions.revision = @ + 1]

\* refresh up to its first await
Refresh(s, then) ==
  Ask([Newer(s) EXCEPT !.task.then = then,
        !.account = [@ EXCEPT !.loading = TRUE, !.connection = NoConnection, !.error = FALSE]],
      "profiles", None)

\* connect after its refresh: the models are asked of a profile that is signed in, and of
\* no other than the active one.
Connect(s) ==
  IF ~s.account.profiles[s.task.target].signedIn \/ s.account.profile \notin {None, s.task.target} THEN End(s)
  ELSE Ask([Newer(s) EXCEPT !.task.version = s.account.profiles[s.task.target].version,
              !.account = [@ EXCEPT !.loading = TRUE, !.error = FALSE]],
           "connect", s.task.target)

\* refresh returned, also when it was superseded: after a save connect begins (with a
\* refresh of its own), and the notification of a failed login reports it.
Returned(s) ==
  CASE s.task.then = "saved" /\ ~s.account.error   -> Refresh(s, "connect")
    [] s.task.then = "connect" /\ ~s.account.error -> Connect(s)
    [] s.task.then = "failure" /\ s.task.login = s.revisions.login -> End([s EXCEPT !.account.error = TRUE])
    [] OTHER -> End(s)

\* activeModelConnection for the stored preference
ActiveProfile(preference, profiles) ==
  LET signed == {p \in Profiles : profiles[p].signedIn}
  IN CASE preference = "unset" /\ signed # {} -> CHOOSE p \in signed : TRUE
       [] preference \in signed -> preference
       [] OTHER -> None

\* publishCatalog of credentials the profile was read with, or it throws
Current(s) == s.task.answer \in {"models", "no models"} /\ s.task.found = s.task.version
Publish(s) ==
  [s EXCEPT !.account = [@ EXCEPT !.profile = s.task.profile, !.loading = FALSE,
     !.connection = IF s.task.answer = "no models" THEN NoConnection
                    ELSE [profile |-> s.task.profile, version |-> s.task.version]]]

AfterProfiles(s) ==
  LET active == ActiveProfile(s.saved, s.task.profiles)
      read   == [s EXCEPT !.saved = IF @ = "unset" THEN active ELSE @,
                          !.account = [@ EXCEPT !.profiles = s.task.profiles, !.profile = active]]
  IN CASE Stale(s) -> Returned(s)
       [] ~Stale(s) /\ s.task.answer = "failed" ->
            Returned([s EXCEPT !.account = [@ EXCEPT !.loading = FALSE, !.profile = None, !.error = TRUE]])
       [] ~Stale(s) /\ s.task.answer # "failed" /\ active = None ->
            Returned([read EXCEPT !.account.loading = FALSE])
       [] OTHER -> Ask([read EXCEPT !.task.version = s.task.profiles[active].version], "models", active)

\* Mutant: publishes whatever revision it belongs to.
AfterModelsLate(s) == Returned(IF Current(s) THEN Publish(s) ELSE [s EXCEPT !.account.loading = FALSE])

AfterModels(s) ==
  Returned(IF Stale(s) THEN s ELSE IF Current(s) THEN Publish(s) ELSE [s EXCEPT !.account.loading = FALSE])

AfterConnect(s) ==
  End(IF Stale(s) THEN s
      ELSE IF Current(s) /\ s.task.answer = "models" THEN [Publish(s) EXCEPT !.saved = s.task.target]
      ELSE [s EXCEPT !.account = [@ EXCEPT !.loading = FALSE, !.profile = None,
                                           !.connection = NoConnection, !.error = TRUE]])

\* Mutant: the attempt of a withdrawn login is left to itself.
AfterLoginForgets(s) ==
  End(IF s.task.login = s.revisions.login
        THEN IF s.task.answer = "failed" THEN [s EXCEPT !.revisions.loginProfile = None, !.account.pending = FALSE]
             ELSE [s EXCEPT !.account.attempt = s.task.found]
        ELSE s)

\* The attempt of a login that was withdrawn meanwhile is cancelled, unless it ended.
AfterLogin(s) ==
  LET mine == s.task.login = s.revisions.login
  IN CASE s.task.answer = "failed" /\ ~mine -> End(s)
       [] s.task.answer = "failed" /\ mine ->
            End([s EXCEPT !.revisions.loginProfile = None, !.account.pending = FALSE, !.account.attempt = 0])
       [] s.task.answer # "failed" /\ mine -> End([s EXCEPT !.account.attempt = s.task.found])
       [] OTHER -> IF s.task.found \in s.revisions.settled THEN End(s) ELSE Ask(s, "cancel", None)

AfterLogout(s) ==
  IF s.task.answer = "failed" THEN End(s)
  ELSE Refresh([s EXCEPT !.saved = None, !.account.profile = None], "end")

Continue(s) ==
  CASE s.task.request = "profiles" -> AfterProfiles(s)
    [] s.task.request = "models"   -> AfterModels(s)
    [] s.task.request = "connect"  -> AfterConnect(s)
    [] s.task.request = "login"    -> AfterLogin(s)
    [] s.task.request = "logout"   -> AfterLogout(s)
    [] s.task.request = "cancel"   -> End(s)
    [] s.task.request = "save"     -> IF s.task.answer = "failed" THEN End(s) ELSE Refresh(s, "saved")
    [] s.task.request = "forget"   -> IF s.task.answer = "failed" THEN End(s) ELSE Refresh(s, "end")

Goes(t, s) ==
  /\ account' = s.account /\ revisions' = s.revisions /\ saved' = s.saved
  /\ tasks' = [tasks EXCEPT ![t] = s.task]

\* Any task whose request was answered.
Proceed ==
  /\ \E t \in Tasks : tasks[t].answer # None /\ \E s \in {Continue(Here(tasks[t]))} : Goes(t, s)
  /\ UNCHANGED <<service, budget>>

-----------------------------------------------------------------------------
(* Operations of the user.                                                 *)

\* A task that begins with the code after s, in a free slot.
Begin(s) == \E t \in Tasks :
  /\ tasks[t] = NoTask /\ \A u \in 1..t-1 : tasks[u] # NoTask
  /\ Goes(t, s)
Operation(s) ==
  /\ budget.ops < MaxOps /\ budget' = [budget EXCEPT !.ops = @ + 1]
  /\ Begin(s)
  /\ UNCHANGED service

\* loginProfile, loginPending and loginAttempt are cleared; a known attempt is cancelled.
Withdrawn(s) ==
  [s EXCEPT !.revisions.login = @ + 1, !.revisions.loginProfile = None,
            !.account.pending = FALSE, !.account.attempt = 0, !.task.found = s.account.attempt]

\* The settings are disabled while something loads; closing and opening them again
\* forgets that an operation of theirs is under way.
Unlocked == ~account.loading /\ ~account.pending

\* The gateway form: save, then connect.
ConnectOp == Unlocked /\ account.profile = None /\ \E p \in Gateways :
  Operation(Ask(Here([NoTask EXCEPT !.target = p]), "save", p))
ForgetOp  == Unlocked /\ account.profile = None /\ \E p \in Gateways :
  account.profiles[p].version > 0 /\ Operation(Ask(Here(NoTask), "forget", p))
LoginOp   == Unlocked /\ account.profile = None /\ \E p \in Accounts :
  Operation(Ask([Here([NoTask EXCEPT !.target = p, !.login = revisions.login + 1])
                   EXCEPT !.revisions.login = @ + 1, !.revisions.loginProfile = p,
                          !.account = [@ EXCEPT !.pending = TRUE, !.attempt = 0, !.error = FALSE]],
                "login", p))
CancelLoginOp ==
  /\ ~account.loading /\ account.pending
  /\ \E s \in {Withdrawn(Here([NoTask EXCEPT !.then = "end"]))} :
       Operation(IF s.task.found = 0 THEN End(s) ELSE Ask(s, "cancel", None))
LogoutOp  ==
  /\ Unlocked /\ account.profile # None
  /\ \E s \in {Withdrawn(Newer(Unconnected(Here(NoTask))))} : Operation(Ask(s, "logout", account.profile))

-----------------------------------------------------------------------------
(* Notifications.                                                          *)

\* auth/changed is for the login under way, or, before its attempt is known, for its profile.
Concerns(n) == n.profile = revisions.loginProfile /\ account.attempt \in {0, n.attempt}
AuthChanged ==
  /\ \E n \in service.news :
       /\ service' = [service EXCEPT !.news = @ \ {n}]
       /\ IF ~Concerns(n) THEN UNCHANGED <<account, revisions, saved, tasks>>
          ELSE Begin(Refresh([Withdrawn(Here([NoTask EXCEPT !.login = revisions.login + 1]))
                                EXCEPT !.revisions.settled = @ \cup {n.attempt},
                                       !.saved = IF n.success THEN n.profile ELSE @],
                             IF n.success THEN "end" ELSE "failure"))
  /\ UNCHANGED budget

\* runtime/disconnected, then every request rejected, oldest first.
Trouble == budget.troubles < MaxTroubles /\ budget' = [budget EXCEPT !.troubles = @ + 1]
RejectTask(s, t) ==
  LET task == s.tasks[t]
      next == Continue([account |-> s.account, revisions |-> s.revisions, saved |-> s.saved,
                        task |-> [task EXCEPT !.answer = "failed"]])
  IN IF task = NoTask THEN s
     ELSE [account |-> next.account, revisions |-> next.revisions, saved |-> next.saved,
           tasks |-> [s.tasks EXCEPT ![t] = next.task]]
\* {...} with CHOOSE: each state is evaluated once (TLC passes arguments by name).
AllRejected(s) ==
  LET after[t \in 0..MaxOps + 3] ==
        IF t = 0 THEN s ELSE CHOOSE y \in {RejectTask(x, t) : x \in {after[t - 1]}} : TRUE
  IN after[MaxOps + 3]
Outage ==
  /\ service.running /\ Trouble
  /\ service' = [service EXCEPT !.running = FALSE, !.attempts = {}, !.news = {}]
  /\ \E first \in {Withdrawn(Newer(Unconnected(Here(NoTask))))} :
     \E s \in {AllRejected([account |-> [first.account EXCEPT !.loading = FALSE], revisions |-> first.revisions,
                            saved |-> saved, tasks |-> tasks])} :
       account' = s.account /\ revisions' = s.revisions /\ saved' = s.saved /\ tasks' = s.tasks

\* The next request starts a process; runtime/ready refreshes unless something is loading.
Restarted ==
  /\ ~service.running /\ \E t \in Tasks : tasks[t] # NoTask
  /\ service' = [service EXCEPT !.running = TRUE]
  /\ IF account.loading THEN UNCHANGED <<account, revisions, saved, tasks>>
     ELSE Begin(Refresh(Here(NoTask), "end"))
  /\ UNCHANGED budget

-----------------------------------------------------------------------------
(* The native side: auth.rs, providers and profiles in server.rs.          *)

Unanswered(t, request) == service.running /\ tasks[t].request = request /\ tasks[t].answer = None
Answers(t, answer, found) == tasks' = [tasks EXCEPT ![t].answer = answer, ![t].found = found]

ListsProfiles(t) ==
  /\ Unanswered(t, "profiles")
  /\ tasks' = [tasks EXCEPT ![t].answer = "profiles", ![t].profiles = service.profiles]
  /\ UNCHANGED service
ListsModels(t) ==
  /\ Unanswered(t, "models") \/ Unanswered(t, "connect")
  /\ service.profiles[tasks[t].profile].signedIn
  /\ \E answer \in {"models", "no models"} :
       /\ Answers(t, answer, service.profiles[tasks[t].profile].version)
       /\ IF answer = "models" THEN UNCHANGED budget ELSE Trouble
  /\ UNCHANGED service
Fails(t) ==
  /\ service.running /\ tasks[t].request \notin {None, "cancel"} /\ tasks[t].answer = None
  /\ Answers(t, "failed", 0) /\ Trouble
  /\ UNCHANGED service
StartsLogin(t) ==
  /\ Unanswered(t, "login")
  /\ Answers(t, "started", service.logins + 1)
  /\ service' = [service EXCEPT !.logins = @ + 1, !.attempts = @ \cup
       {[attempt |-> service.logins + 1, profile |-> tasks[t].profile,
         version |-> service.profiles[tasks[t].profile].version]}]
News(a, success) == [attempt |-> a.attempt, profile |-> a.profile, success |-> success]
CancelsLogin(t) ==
  /\ Unanswered(t, "cancel")
  /\ Answers(t, "cancelled", 0)
  /\ \E ended \in {{a \in service.attempts : a.attempt = tasks[t].found}} :
       service' = [service EXCEPT !.attempts = @ \ ended, !.news = @ \cup {News(a, FALSE) : a \in ended}]
LoginEnds ==
  /\ service.running
  /\ \E a \in service.attempts, success \in BOOLEAN :
       /\ success => service.profiles[a.profile].version = a.version
       /\ service' = [service EXCEPT !.attempts = @ \ {a}, !.news = @ \cup {News(a, success)},
                         !.profiles[a.profile].signedIn = @ \/ success]
  /\ UNCHANGED tasks
\* Signed out or its token forgotten; saved again, with a token or without one.
ChangesProfile(t) ==
  /\ Unanswered(t, "logout") \/ Unanswered(t, "forget") \/ Unanswered(t, "save")
  /\ Answers(t, "done", 0)
  /\ \E signedIn \in BOOLEAN :
       /\ signedIn => tasks[t].request = "save"
       /\ service' = [service EXCEPT !.profiles[tasks[t].profile] =
                        [version |-> @.version + 1, signedIn |-> signedIn]]
Native ==
  /\ \/ /\ \/ LoginEnds
           \/ \E t \in Tasks : \/ ListsProfiles(t) \/ StartsLogin(t) \/ CancelsLogin(t) \/ ChangesProfile(t)
        /\ UNCHANGED budget
     \/ \E t \in Tasks : ListsModels(t) \/ Fails(t)
  /\ UNCHANGED <<account, revisions, saved>>

ConnectionsNext ==
  \/ ConnectOp \/ ForgetOp \/ LoginOp \/ CancelLoginOp \/ LogoutOp
  \/ Proceed \/ AuthChanged \/ Outage \/ Restarted \/ Native
ConnectionsSpec == ConnectionsInit /\ [][ConnectionsNext]_connectionVars

-----------------------------------------------------------------------------
(* Properties.                                                             *)

Quiet == service.running /\ service.news = {} /\ \A t \in Tasks : tasks[t] = NoTask

\* Once nothing is on its way, requests would use the credentials their profile has now,
\* of the one profile the user activated: no answer read before a logout, a new login, a
\* saved profile or a restart survives it.
ConnectionIsCurrent ==
  Quiet /\ account.connection # NoConnection =>
    /\ service.profiles[account.connection.profile] =
         [version |-> account.connection.version, signedIn |-> TRUE]
    /\ saved = account.connection.profile

\* Once nothing is on its way, a browser login that still waits for the user is the one
\* the settings show, so it can be cancelled: no withdrawn attempt is left behind.
LoginsAreOwned ==
  Quiet => \A a \in service.attempts : a.attempt = account.attempt /\ account.pending
=============================================================================
