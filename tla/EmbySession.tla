----------------------------- MODULE EmbySession -----------------------------
(***************************************************************************)
(* The Emby session owned by the Rust application (yanami-application,      *)
(* session.rs, with the parts of catalog_search.rs and playback.rs that     *)
(* hang on it).  One control thread runs login_emby and logout_emby; worker *)
(* threads run the session-bound calls that were in flight when it started. *)
(* Every step below is one critical section of one thread or task.          *)
(*                                                                          *)
(* A session is named by its device id, which login draws afresh, so a      *)
(* session that was replaced never becomes current again.                   *)
(***************************************************************************)
EXTENDS Naturals

CONSTANTS Device,       \* device ids login can draw
          Worker,       \* worker threads that run session-bound calls
          Control,      \* the session-control thread
          None,         \* the empty Option
          MaxRestarts   \* bound: restarts of the application

ASSUME NoneAssumption == None \notin Device
ASSUME ControlAssumption == Control \notin Worker
ASSUME RestartsAssumption == MaxRestarts \in Nat
ASSUME ThreadAssumption == None \notin Worker \union {Control}

VARIABLES active,       \* active_session
          cache,        \* active_client_cache: the device its client is for
          issued,       \* devices already drawn
          tokens,       \* credential vault: devices whose token is stored
          stored,       \* latest row of user_profiles
          monitor,      \* refresh_monitor: the session of the running task
          lock,         \* who holds the refresh_monitor mutex across steps
          detached,     \* monitors aborted and not yet ended
          progress,     \* refresh_progress: sessions its entries came from
          index,        \* media_catalog: the session of the cached catalog
          supervisor,   \* background_tasks: catalog supervisors registered
          ending,       \* catalog supervisors aborted and not yet ended
          playback,     \* active_playback: the session that prepared it
          op,           \* login_emby or logout_emby under way
          job,          \* the call each thread is in
          signedIn,     \* the session the caller was last told of
          restarts

background == <<monitor, lock, detached, progress, index, supervisor, ending>>
persisted == <<issued, tokens, stored>>
vars == <<active, cache, persisted, background, playback, op, job, signedIn,
          restarts>>

Thread == Worker \union {Control}
Maybe == Device \union {None}
TaskStates == {"none", "opening", "running"}
Kinds == {"refresh", "search", "prepare", "report"}
OpSteps == {"idle", "token", "user", "takeMonitor", "drainMonitor", "clear",
            "takeTasks", "drainTasks", "index", "active", "cache", "monitor",
            "monitoring", "supervise", "playback"}
JobSteps == {"idle", "play", "session", "index", "active", "client", "store",
             "lock", "spawn", "check", "register", "verify", "prepared",
             "send"}

NoOp == [kind |-> "none", pc |-> "idle", device |-> None]
NoJob == [kind |-> "none", pc |-> "idle", session |-> None, client |-> None]
NoTasks == [d \in Device |-> "none"]

TypeOK ==
  /\ active \in Maybe /\ cache \in Maybe /\ stored \in Maybe
  /\ issued \subseteq Device /\ tokens \subseteq Device
  /\ monitor \in Maybe /\ detached \subseteq Device
  /\ progress \subseteq Device /\ index \in Maybe
  /\ lock \in Thread \union {None}
  /\ supervisor \in [Device -> TaskStates]
  /\ ending \in [Device -> TaskStates]
  /\ playback \in Maybe /\ signedIn \in Maybe
  /\ op \in [kind : {"none", "login", "logout"}, pc : OpSteps, device : Maybe]
  /\ op.pc # "idle" => op.device \in Device
  /\ job \in [Thread -> [kind : Kinds \union {"none"}, pc : JobSteps,
                         session : Maybe, client : Maybe]]
  /\ restarts \in 0..MaxRestarts

Init ==
  /\ active = None /\ cache = None
  /\ issued = {} /\ tokens = {} /\ stored = None
  /\ monitor = None /\ lock = None /\ detached = {} /\ progress = {}
  /\ index = None /\ supervisor = NoTasks /\ ending = NoTasks
  /\ playback = None
  /\ op = NoOp /\ job = [t \in Thread |-> NoJob]
  /\ signedIn = None /\ restarts = 0

-----------------------------------------------------------------------------
(* Session-bound calls.  A call enters its next critical section with Go,   *)
(* and leaves with Return.  A search goes on without a supervisor when the  *)
(* supervisor cannot be started.                                            *)

Go(t, step) == job' = [job EXCEPT ![t].pc = step]
Return(t) == job' = [job EXCEPT ![t] = NoJob]
GiveUp(t) == IF job[t].kind = "search" THEN Go(t, "verify") ELSE Return(t)

FirstStep(kind) == CASE kind = "search" -> "session"
                     [] kind = "report" -> "play"
                     [] OTHER -> "active"

AfterClient(kind) == CASE kind = "refresh" -> "lock"
                       [] kind = "search" -> "check"
                       [] kind = "prepare" -> "prepared"
                       [] OTHER -> "send"

\* A coordinator starts a call: only while it is connected and not fenced.
Call(w, kind) ==
  /\ op.pc = "idle" /\ signedIn # None /\ job[w].pc = "idle"
  /\ job' = [job EXCEPT ![w] = [NoJob EXCEPT !.kind = kind,
                                             !.pc = FirstStep(kind)]]
  /\ UNCHANGED <<active, cache, persisted, background, playback, op,
                 signedIn, restarts>>

\* report_playback reads the playback its telemetry must name.
ReadPlayback(w, reported) ==
  /\ job[w].pc = "play"
  /\ IF playback = reported
       THEN job' = [job EXCEPT ![w].session = reported, ![w].pc = "active"]
       ELSE Return(w)
  /\ UNCHANGED <<active, cache, persisted, background, playback, op,
                 signedIn, restarts>>

\* catalog_search takes the session it will search for.
ReadSession(w) ==
  /\ job[w].pc = "session"
  /\ IF active = None
       THEN Return(w)
       ELSE job' = [job EXCEPT ![w].session = active, ![w].pc = "index"]
  /\ UNCHANGED <<active, cache, persisted, background, playback, op,
                 signedIn, restarts>>

\* media_catalog_for replaces a cached catalog of another session.
OpenIndex(w) ==
  /\ job[w].pc = "index"
  /\ index' = job[w].session
  /\ Go(w, "active")
  /\ UNCHANGED <<active, cache, persisted, monitor, lock, detached, progress,
                 supervisor, ending, playback, op, signedIn, restarts>>

\* active_client_snapshot takes the session whose client it wants.
ReadActive(t) ==
  /\ job[t].pc = "active"
  /\ IF active = None
       THEN GiveUp(t)
       ELSE job' = [job EXCEPT ![t].client = active, ![t].pc = "client"]
  /\ UNCHANGED <<active, cache, persisted, background, playback, op,
                 signedIn, restarts>>

\* A cached client is used as it is; one built from the vault's token only
\* while its session is still the active one.
FindClient(t) ==
  /\ job[t].pc = "client"
  /\ LET d == job[t].client
     IN CASE cache = d -> Go(t, AfterClient(job[t].kind))
          [] cache # d /\ d \in tokens /\ active = d -> Go(t, "store")
          [] OTHER -> GiveUp(t)
  /\ UNCHANGED <<active, cache, persisted, background, playback, op,
                 signedIn, restarts>>

StoreClient(t) ==
  /\ job[t].pc = "store"
  /\ cache' = job[t].client
  /\ Go(t, AfterClient(job[t].kind))
  /\ UNCHANGED <<active, persisted, background, playback, op, signedIn,
                 restarts>>

\* Slip: the session is not looked at again under the mutex.
LockForAnySession(t) ==
  /\ job[t].pc = "lock" /\ lock = None
  /\ IF monitor = None
       THEN lock' = t /\ Go(t, "spawn")
       ELSE lock' = lock /\ Return(t)
  /\ UNCHANGED <<active, cache, persisted, monitor, detached, progress, index,
                 supervisor, ending, playback, op, signedIn, restarts>>

\* start_refresh_monitor, under the monitor's mutex.
LockMonitor(t) ==
  /\ job[t].pc = "lock" /\ lock = None
  /\ IF active = job[t].client /\ monitor = None
       THEN lock' = t /\ Go(t, "spawn")
       ELSE lock' = lock /\ Return(t)
  /\ UNCHANGED <<active, cache, persisted, monitor, detached, progress, index,
                 supervisor, ending, playback, op, signedIn, restarts>>

SpawnMonitor(t) ==
  /\ job[t].pc = "spawn"
  /\ monitor' = job[t].client
  /\ lock' = None
  /\ Return(t)
  /\ UNCHANGED <<active, cache, persisted, detached, progress, index,
                 supervisor, ending, playback, op, signedIn, restarts>>

\* ensure_media_catalog_sync_for: the client and the session must be current.
CheckSession(w) ==
  /\ job[w].pc = "check"
  /\ IF job[w].client = job[w].session /\ active = job[w].session
       THEN Go(w, "register")
       ELSE Go(w, "verify")
  /\ UNCHANGED <<active, cache, persisted, background, playback, op,
                 signedIn, restarts>>

\* One supervisor per session; another session's supervisor is refused.
RegisterSupervisor(w) ==
  /\ job[w].pc = "register"
  /\ supervisor' = IF \A d \in Device : supervisor[d] = "none"
                     THEN [supervisor EXCEPT ![job[w].session] = "running"]
                     ELSE supervisor
  /\ Go(w, "verify")
  /\ UNCHANGED <<active, cache, persisted, monitor, lock, detached, progress,
                 index, ending, playback, op, signedIn, restarts>>

\* catalog_search answers, or finds that its session is gone.
Verify(w) ==
  /\ job[w].pc = "verify"
  /\ Return(w)
  /\ UNCHANGED <<active, cache, persisted, background, playback, op,
                 signedIn, restarts>>

Prepared(w) ==
  /\ job[w].pc = "prepared"
  /\ playback' = job[w].client
  /\ Return(w)
  /\ UNCHANGED <<active, cache, persisted, background, op, signedIn, restarts>>

\* The report reaches the server of the client; Stopped ends the playback.
SendReport(w, stopped) ==
  /\ job[w].pc = "send"
  /\ playback' = IF stopped /\ playback = job[w].session
                   THEN None ELSE playback
  /\ Return(w)
  /\ UNCHANGED <<active, cache, persisted, background, op, signedIn, restarts>>

-----------------------------------------------------------------------------
(* Background tasks.                                                        *)

\* A refresh-progress message of the server, also to a monitor not yet ended.
Receive(d) ==
  /\ monitor = d \/ d \in detached
  /\ progress' = progress \union {d}
  /\ UNCHANGED <<active, cache, persisted, monitor, lock, detached, index,
                 supervisor, ending, playback, op, job, signedIn, restarts>>

MonitorEnds(d) ==
  /\ d \in detached
  /\ detached' = detached \ {d}
  /\ UNCHANGED <<active, cache, persisted, monitor, lock, progress, index,
                 supervisor, ending, playback, op, job, signedIn, restarts>>

\* The supervisor login started opens its catalog, unless the catalog of
\* another session is still cached.
SupervisorOpens(d) ==
  /\ supervisor[d] = "opening"
  /\ IF index \in {None, d}
       THEN /\ index' = d
            /\ supervisor' = [supervisor EXCEPT ![d] = "running"]
       ELSE /\ index' = index
            /\ supervisor' = [supervisor EXCEPT ![d] = "none"]
  /\ UNCHANGED <<active, cache, persisted, monitor, lock, detached, progress,
                 ending, playback, op, job, signedIn, restarts>>

\* An aborted supervisor ends; one that was opening may finish opening first.
SupervisorEnds(d) ==
  /\ ending[d] # "none"
  /\ index' \in IF ending[d] = "opening" /\ index \in {None, d}
                  THEN {index, d} ELSE {index}
  /\ ending' = [ending EXCEPT ![d] = "none"]
  /\ UNCHANGED <<active, cache, persisted, monitor, lock, detached, progress,
                 supervisor, playback, op, job, signedIn, restarts>>

-----------------------------------------------------------------------------
(* login_emby and logout_emby.                                              *)

Then(step) == op' = [op EXCEPT !.pc = step]
Finish(session) == op' = NoOp /\ signedIn' = session

\* The server has authenticated the user; the device is new.
Login(d) ==
  /\ op.pc = "idle" /\ d \notin issued
  /\ issued' = issued \union {d}
  /\ op' = [kind |-> "login", pc |-> "token", device |-> d]
  /\ UNCHANGED <<active, cache, tokens, stored, background, playback, job,
                 signedIn, restarts>>

\* SessionCoordinator logs out only while connected.
Logout ==
  /\ op.pc = "idle" /\ signedIn # None
  /\ op' = [kind |-> "logout", pc |-> "takeTasks", device |-> signedIn]
  /\ UNCHANGED <<active, cache, persisted, background, playback, job,
                 signedIn, restarts>>

\* Slip: a token that could not be stored is not an error.
SaveTokenIfPossible ==
  /\ op.pc = "token"
  /\ tokens' \in {tokens, tokens \union {op.device}}
  /\ Then("user")
  /\ UNCHANGED <<active, cache, issued, stored, background, playback, job,
                 signedIn, restarts>>

\* save_emby_session: the token first.
SaveToken ==
  /\ op.pc = "token"
  /\ \/ tokens' = tokens \union {op.device} /\ Then("user")
        /\ UNCHANGED signedIn
     \/ tokens' = tokens /\ Finish(signedIn)
  /\ UNCHANGED <<active, cache, issued, stored, background, playback, job,
                 restarts>>

\* Then the user row; if that fails the token is taken back, best effort.
SaveUser ==
  /\ op.pc = "user"
  /\ \/ stored' = op.device /\ tokens' = tokens /\ Then("takeMonitor")
        /\ UNCHANGED signedIn
     \/ /\ stored' = stored
        /\ tokens' \in {tokens, tokens \ {op.device}}
        /\ Finish(signedIn)
  /\ UNCHANGED <<active, cache, issued, background, playback, job, restarts>>

\* stop_refresh_monitor: take the task, abort it and wait for its end, and
\* only then clear what it collected.
TakeMonitor ==
  /\ op.pc = "takeMonitor" /\ lock = None
  /\ detached' = detached \union ({monitor} \ {None})
  /\ monitor' = None
  /\ Then("drainMonitor")
  /\ UNCHANGED <<active, cache, persisted, lock, progress, index, supervisor,
                 ending, playback, job, signedIn, restarts>>

DrainMonitor ==
  /\ op.pc = "drainMonitor" /\ detached = {}
  /\ Then("clear")
  /\ UNCHANGED <<active, cache, persisted, background, playback, job,
                 signedIn, restarts>>

ClearProgress ==
  /\ op.pc = "clear"
  /\ progress' = {}
  /\ Then(IF op.kind = "login" THEN "takeTasks" ELSE "playback")
  /\ UNCHANGED <<active, cache, persisted, monitor, lock, detached, index,
                 supervisor, ending, playback, job, signedIn, restarts>>

\* cancel_background_tasks: take the registry, abort and wait.
TakeTasks ==
  /\ op.pc = "takeTasks"
  /\ ending' = supervisor
  /\ supervisor' = NoTasks
  /\ Then("drainTasks")
  /\ UNCHANGED <<active, cache, persisted, monitor, lock, detached, progress,
                 index, playback, job, signedIn, restarts>>

DrainTasks ==
  /\ op.pc = "drainTasks" /\ ending = NoTasks
  /\ Then("index")
  /\ UNCHANGED <<active, cache, persisted, background, playback, job,
                 signedIn, restarts>>

DropIndex ==
  /\ op.pc = "index"
  /\ index' = None
  /\ Then("active")
  /\ UNCHANGED <<active, cache, persisted, monitor, lock, detached, progress,
                 supervisor, ending, playback, job, signedIn, restarts>>

\* Login replaces the session.  Logout deletes its token and clears it, all
\* under the session's mutex; a failed deletion leaves the session in place.
ReplaceActive ==
  /\ op.pc = "active"
  /\ \/ op.kind = "login" /\ active' = op.device /\ Then("cache")
        /\ UNCHANGED <<tokens, signedIn>>
     \/ /\ op.kind = "logout" /\ active' = None
        /\ tokens' = tokens \ {active}
        /\ Then("cache")
        /\ UNCHANGED signedIn
     \/ op.kind = "logout" /\ Finish(signedIn) /\ UNCHANGED <<active, tokens>>
  /\ UNCHANGED <<cache, issued, stored, background, playback, job, restarts>>

ReplaceCache ==
  /\ op.pc = "cache"
  /\ cache' = active
  /\ Then(IF op.kind = "login" THEN "monitor" ELSE "takeMonitor")
  /\ UNCHANGED <<active, persisted, background, playback, job, signedIn,
                 restarts>>

\* Login runs start_refresh_monitor itself; its failure is only logged.
StartMonitor ==
  /\ op.pc = "monitor"
  /\ job' = [job EXCEPT ![Control] = [NoJob EXCEPT !.kind = "refresh",
                                                   !.pc = "active"]]
  /\ Then("monitoring")
  /\ UNCHANGED <<active, cache, persisted, background, playback, signedIn,
                 restarts>>

MonitorStarted ==
  /\ op.pc = "monitoring" /\ job[Control].pc = "idle"
  /\ Then("supervise")
  /\ UNCHANGED <<active, cache, persisted, background, playback, job,
                 signedIn, restarts>>

\* ensure_media_catalog_supervisor_background does not look at the
\* supervisors of other sessions.
StartSupervisor ==
  /\ op.pc = "supervise"
  /\ supervisor' = IF supervisor[active] = "none"
                     THEN [supervisor EXCEPT ![active] = "opening"]
                     ELSE supervisor
  /\ Finish(op.device)
  /\ UNCHANGED <<active, cache, persisted, monitor, lock, detached, progress,
                 index, ending, playback, job, restarts>>

DropPlayback ==
  /\ op.pc = "playback"
  /\ playback' = None
  /\ Finish(None)
  /\ UNCHANGED <<active, cache, persisted, background, job, restarts>>

\* The process ends anywhere and is opened again: the last stored session is
\* active, and connected if its token is still there.
Restart ==
  /\ restarts < MaxRestarts
  /\ restarts' = restarts + 1
  /\ active' = stored
  /\ LET d == IF stored \in tokens THEN stored ELSE None
     IN /\ cache' = d /\ monitor' = d /\ signedIn' = d
        /\ supervisor' = [e \in Device |-> IF e = d THEN "opening" ELSE "none"]
  /\ lock' = None /\ detached' = {} /\ progress' = {} /\ index' = None
  /\ ending' = NoTasks /\ playback' = None
  /\ op' = NoOp /\ job' = [t \in Thread |-> NoJob]
  /\ UNCHANGED persisted

-----------------------------------------------------------------------------
WorkerStep(w) ==
  \/ \E kind \in Kinds : Call(w, kind)
  \/ \E d \in Device : ReadPlayback(w, d)
  \/ ReadSession(w) \/ OpenIndex(w) \/ CheckSession(w)
  \/ RegisterSupervisor(w) \/ Verify(w) \/ Prepared(w)
  \/ \E stopped \in BOOLEAN : SendReport(w, stopped)

ClientStep(t) ==
  ReadActive(t) \/ FindClient(t) \/ StoreClient(t) \/ LockMonitor(t)
    \/ SpawnMonitor(t)

TaskStep ==
  \E d \in Device : Receive(d) \/ MonitorEnds(d) \/ SupervisorOpens(d)
                      \/ SupervisorEnds(d)

ControlStep ==
  \/ \E d \in Device : Login(d)
  \/ Logout \/ SaveToken \/ SaveUser \/ TakeMonitor \/ DrainMonitor
  \/ ClearProgress \/ TakeTasks \/ DrainTasks \/ DropIndex \/ ReplaceActive
  \/ ReplaceCache \/ StartMonitor \/ MonitorStarted \/ StartSupervisor
  \/ DropPlayback

Next ==
  \/ \E w \in Worker : WorkerStep(w)
  \/ \E t \in Thread : ClientStep(t)
  \/ TaskStep
  \/ ControlStep
  \/ Restart

Spec == Init /\ [][Next]_vars

-----------------------------------------------------------------------------
\* Once the user is logged out no monitor of the old session runs, none is
\* ending, and nothing it reported is left to be shown (session.rs:560-569).
\* A refresh call in flight could otherwise start one behind the logout.
LogoutSilencesMonitor ==
  op.pc = "idle" /\ active = None =>
    monitor = None /\ detached = {} /\ progress = {}

\* Opening the application again at any moment finds a session that works: a
\* user who is signed in, or is changing account, never has to sign in again
\* (save_emby_session, session.rs:669-688), and one who has logged out does.
SessionSurvivesRestart ==
  /\ signedIn # None /\ op.kind # "logout" => stored \in tokens
  /\ signedIn = None /\ op.pc = "idle" => stored \notin tokens

\* While nothing is under way the application and its caller agree on who is
\* signed in (session.rs:311, 562).
CallerKnowsSession ==
  op.pc = "idle" /\ signedIn # None => active = signedIn /\ stored = signedIn

\* docs/ARCHITECTURE.md:228, "The existing single Emby WebSocket carries ...
\* active-user UserDataChanged notifications": between two account changes the
\* monitor is the active session's.
MonitorIsOfActiveSession ==
  op.pc = "idle" => monitor \in {None, active}

\* docs/ARCHITECTURE.md:228, "Restoring or committing an Emby session starts
\* one session-scoped catalog supervisor": between two account changes only
\* the active session is being synchronized.
SupervisorIsOfActiveSession ==
  op.pc = "idle" => \A d \in Device : supervisor[d] # "none" => d = active

\* docs/ARCHITECTURE.md:212, "playback identity ... move to the new session
\* together": a report reaches the server session that prepared the playback.
ReportStaysWithItsSession ==
  \A w \in Worker : job[w].pc = "send" => job[w].client = job[w].session
=============================================================================
