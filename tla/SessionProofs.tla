---------------------------- MODULE SessionProofs ----------------------------
(***************************************************************************)
(* Theorems about EmbySession for any sets of devices and threads: a logout *)
(* leaves no monitor behind whatever calls are in flight, and a restart at  *)
(* any moment finds the session of a signed-in user.  And about             *)
(* CatalogCoordinator for any items, collections and accounts: what the     *)
(* desktop shows was read from the committed account.  And, from            *)
(* PlaybackCoordinatorProofs, about the reports of a playback.              *)
(***************************************************************************)
EXTENDS MCSession, TLAPS

Job == [kind : Kinds \union {"none"}, pc : JobSteps, session : Maybe,
        client : Maybe]
Op == {o \in [kind : {"none", "login", "logout"}, pc : OpSteps, device : Maybe] :
         o.pc # "idle" => o.device \in Device}

\* The variables the operation and its caller keep, and those of the monitor.
account == <<active, persisted, op, signedIn>>
silence == <<active, monitor, lock, detached, progress, op>>

-----------------------------------------------------------------------------
(* Steps of calls and operations keep their records well formed.            *)

LEMMA JobType ==
  ASSUME NEW t \in Thread, job \in [Thread -> Job]
  PROVE  /\ \A step \in JobSteps : Go(t, step) => job' \in [Thread -> Job]
         /\ Return(t) => job' \in [Thread -> Job]
         /\ GiveUp(t) => job' \in [Thread -> Job]
         /\ AfterClient(job[t].kind) \in JobSteps
<1>1. NoJob \in Job
  BY DEF NoJob, Job, Kinds, JobSteps, Maybe
<1>2. \A step \in JobSteps : [job[t] EXCEPT !.pc = step] \in Job
  BY DEF Job
<1>3. \A step \in JobSteps : Go(t, step) => job' \in [Thread -> Job]
  BY <1>2 DEF Go
<1>4. Return(t) => job' \in [Thread -> Job]
  BY <1>1 DEF Return
<1>5. "verify" \in JobSteps
  BY DEF JobSteps
<1>6. AfterClient(job[t].kind) \in JobSteps
  BY DEF AfterClient, JobSteps
<1> QED
  BY <1>3, <1>4, <1>5, <1>6 DEF GiveUp

LEMMA OpType ==
  ASSUME op \in Op
  PROVE  /\ \A step \in OpSteps : op.pc # "idle" /\ Then(step) => op' \in Op
         /\ NoOp \in Op
BY DEF Op, OpSteps, NoOp, Then, Maybe

LEMMA WorkerType ==
  ASSUME TypeOK, NEW w \in Worker, WorkerStep(w)
  PROVE  TypeOK'
<1> USE DEF TypeOK
<1>0. w \in Thread /\ job \in [Thread -> Job] /\ job[w] \in Job
  BY DEF Thread, Job
<1>1. ASSUME NEW kind \in Kinds, Call(w, kind) PROVE TypeOK'
  <2>1. [NoJob EXCEPT !.kind = kind, !.pc = FirstStep(kind)] \in Job
    BY DEF NoJob, Job, Kinds, JobSteps, Maybe, FirstStep
  <2>2. job' \in [Thread -> Job]
    BY <1>0, <1>1, <2>1 DEF Call
  <2> QED
    BY <1>1, <2>2 DEF Call, Job, persisted, background
<1>2. ASSUME NEW d \in Device, ReadPlayback(w, d) PROVE TypeOK'
  <2>1. [job[w] EXCEPT !.session = d, !.pc = "active"] \in Job
    BY <1>0 DEF Job, JobSteps, Maybe
  <2>2. job' \in [Thread -> Job]
    BY <1>0, <1>2, <2>1, JobType DEF ReadPlayback
  <2> QED
    BY <1>2, <2>2 DEF ReadPlayback, Job, persisted, background
<1>3. ASSUME ReadSession(w) PROVE TypeOK'
  <2>1. [job[w] EXCEPT !.session = active, !.pc = "index"] \in Job
    BY <1>0 DEF Job, JobSteps
  <2>2. job' \in [Thread -> Job]
    BY <1>0, <1>3, <2>1, JobType DEF ReadSession
  <2> QED
    BY <1>3, <2>2 DEF ReadSession, Job, persisted, background
<1>4. ASSUME OpenIndex(w) PROVE TypeOK'
  <2>1. job' \in [Thread -> Job]
    BY <1>0, <1>4, JobType DEF OpenIndex, JobSteps
  <2>2. index' \in Maybe
    BY <1>0, <1>4 DEF OpenIndex, Job
  <2> QED
    BY <1>4, <2>1, <2>2 DEF OpenIndex, Job, persisted
<1>5. ASSUME CheckSession(w) PROVE TypeOK'
  <2>1. job' \in [Thread -> Job]
    BY <1>0, <1>5, JobType DEF CheckSession, JobSteps
  <2> QED
    BY <1>5, <2>1 DEF CheckSession, Job, persisted, background
<1>6. ASSUME RegisterSupervisor(w) PROVE TypeOK'
  <2>1. job' \in [Thread -> Job]
    BY <1>0, <1>6, JobType DEF RegisterSupervisor, JobSteps
  <2>2. supervisor' \in [Device -> TaskStates]
    BY <1>6 DEF RegisterSupervisor, TaskStates
  <2> QED
    BY <1>6, <2>1, <2>2 DEF RegisterSupervisor, Job, persisted
<1>7. ASSUME Verify(w) PROVE TypeOK'
  <2>1. job' \in [Thread -> Job]
    BY <1>0, <1>7, JobType DEF Verify
  <2> QED
    BY <1>7, <2>1 DEF Verify, Job, persisted, background
<1>8. ASSUME Prepared(w) PROVE TypeOK'
  <2>1. job' \in [Thread -> Job] /\ playback' \in Maybe
    BY <1>0, <1>8, JobType DEF Prepared, Job
  <2> QED
    BY <1>8, <2>1 DEF Prepared, Job, persisted, background
<1>9. ASSUME NEW stopped \in BOOLEAN, SendReport(w, stopped) PROVE TypeOK'
  <2>1. job' \in [Thread -> Job] /\ playback' \in Maybe
    BY <1>0, <1>9, JobType DEF SendReport, Maybe
  <2> QED
    BY <1>9, <2>1 DEF SendReport, Job, persisted, background
<1> QED
  BY <1>1, <1>2, <1>3, <1>4, <1>5, <1>6, <1>7, <1>8, <1>9 DEF WorkerStep

LEMMA ClientType ==
  ASSUME TypeOK, NEW t \in Thread, ClientStep(t)
  PROVE  TypeOK'
<1> USE DEF TypeOK
<1>0. job \in [Thread -> Job] /\ job[t] \in Job
  BY DEF Job
<1>1. ASSUME ReadActive(t) PROVE TypeOK'
  <2>1. [job[t] EXCEPT !.client = active, !.pc = "client"] \in Job
    BY <1>0 DEF Job, JobSteps
  <2>2. job' \in [Thread -> Job]
    BY <1>0, <1>1, <2>1, JobType DEF ReadActive
  <2> QED
    BY <1>1, <2>2 DEF ReadActive, Job, persisted, background
<1>2. ASSUME FindClient(t) PROVE TypeOK'
  <2>1. job' \in [Thread -> Job]
    BY <1>0, <1>2, JobType DEF FindClient, JobSteps
  <2> QED
    BY <1>2, <2>1 DEF FindClient, Job, persisted, background
<1>3. ASSUME StoreClient(t) PROVE TypeOK'
  <2>1. job' \in [Thread -> Job] /\ cache' \in Maybe
    BY <1>0, <1>3, JobType DEF StoreClient, Job
  <2> QED
    BY <1>3, <2>1 DEF StoreClient, Job, persisted, background
<1>4. ASSUME LockMonitor(t) PROVE TypeOK'
  <2>1. job' \in [Thread -> Job]
    BY <1>0, <1>4, JobType DEF LockMonitor, JobSteps
  <2>2. lock' \in Thread \union {None}
    BY <1>4 DEF LockMonitor
  <2> QED
    BY <1>4, <2>1, <2>2 DEF LockMonitor, Job, persisted
<1>5. ASSUME SpawnMonitor(t) PROVE TypeOK'
  <2>1. job' \in [Thread -> Job] /\ monitor' \in Maybe
    BY <1>0, <1>5, JobType DEF SpawnMonitor, Job
  <2> QED
    BY <1>5, <2>1 DEF SpawnMonitor, Job, persisted
<1> QED
  BY <1>1, <1>2, <1>3, <1>4, <1>5 DEF ClientStep

LEMMA TaskType ==
  ASSUME TypeOK, TaskStep
  PROVE  TypeOK'
<1> USE DEF TypeOK
<1>1. ASSUME NEW d \in Device, Receive(d) PROVE TypeOK'
  BY <1>1 DEF Receive, persisted
<1>2. ASSUME NEW d \in Device, MonitorEnds(d) PROVE TypeOK'
  BY <1>2 DEF MonitorEnds, persisted
<1>3. ASSUME NEW d \in Device, SupervisorOpens(d) PROVE TypeOK'
  <2>1. index' \in Maybe /\ supervisor' \in [Device -> TaskStates]
    BY <1>3 DEF SupervisorOpens, Maybe, TaskStates
  <2> QED
    BY <1>3, <2>1 DEF SupervisorOpens, persisted
<1>4. ASSUME NEW d \in Device, SupervisorEnds(d) PROVE TypeOK'
  <2>1. index' \in Maybe /\ ending' \in [Device -> TaskStates]
    BY <1>4 DEF SupervisorEnds, Maybe, TaskStates
  <2> QED
    BY <1>4, <2>1 DEF SupervisorEnds, persisted
<1> QED
  BY <1>1, <1>2, <1>3, <1>4 DEF TaskStep

LEMMA ControlType ==
  ASSUME TypeOK, ControlStep
  PROVE  TypeOK'
<1> USE DEF TypeOK
<1>0. op \in Op /\ NoTasks \in [Device -> TaskStates] /\ Device \subseteq Maybe
      /\ None \in Maybe
  BY DEF Op, NoTasks, TaskStates, Maybe
<1>1. ASSUME NEW d \in Device, Login(d) PROVE TypeOK'
  <2>1. op' \in Op
    BY <1>0, <1>1 DEF Login, Op, OpSteps
  <2> QED
    BY <1>1, <2>1 DEF Login, Op, background
<1>2. ASSUME Logout PROVE TypeOK'
  <2>1. op' \in Op
    BY <1>0, <1>2, OpType DEF Logout, OpSteps, Op, Maybe
  <2> QED
    BY <1>0, <1>2, <2>1 DEF Logout, Op, persisted, background
<1>3. ASSUME SaveToken PROVE TypeOK'
  <2>1. op' \in Op /\ signedIn' \in Maybe
    BY <1>0, <1>3, OpType DEF SaveToken, OpSteps, Finish
  <2>2. tokens' \subseteq Device /\ stored' \in Maybe
    BY <1>0, <1>3, OpType DEF SaveToken, Op
  <2> QED
    BY <1>0, <1>3, <2>1, <2>2 DEF SaveToken, Op, persisted, background
<1>4. ASSUME SaveUser PROVE TypeOK'
  <2>1. op' \in Op /\ signedIn' \in Maybe
    BY <1>0, <1>4, OpType DEF SaveUser, OpSteps, Finish
  <2>2. tokens' \subseteq Device /\ stored' \in Maybe
    BY <1>0, <1>4, OpType DEF SaveUser, Op
  <2> QED
    BY <1>0, <1>4, <2>1, <2>2 DEF SaveUser, Op, persisted, background
<1>5. ASSUME TakeMonitor PROVE TypeOK'
  <2>1. op' \in Op
    BY <1>0, <1>5, OpType DEF TakeMonitor, OpSteps
  <2>2. monitor' \in Maybe /\ detached' \subseteq Device
    BY <1>0, <1>5, OpType DEF TakeMonitor, Maybe
  <2> QED
    BY <1>0, <1>5, <2>1, <2>2 DEF TakeMonitor, Op, persisted, background
<1>6. ASSUME DrainMonitor PROVE TypeOK'
  <2>1. op' \in Op
    BY <1>0, <1>6, OpType DEF DrainMonitor, OpSteps
  <2> QED
    BY <1>0, <1>6, <2>1 DEF DrainMonitor, Op, persisted, background
<1>7. ASSUME ClearProgress PROVE TypeOK'
  <2>1. op' \in Op
    BY <1>0, <1>7, OpType DEF ClearProgress, OpSteps
  <2> QED
    BY <1>0, <1>7, <2>1 DEF ClearProgress, Op, persisted, background
<1>8. ASSUME TakeTasks PROVE TypeOK'
  <2>1. op' \in Op
    BY <1>0, <1>8, OpType DEF TakeTasks, OpSteps
  <2> QED
    BY <1>0, <1>8, <2>1 DEF TakeTasks, Op, persisted, background
<1>9. ASSUME DrainTasks PROVE TypeOK'
  <2>1. op' \in Op
    BY <1>0, <1>9, OpType DEF DrainTasks, OpSteps
  <2> QED
    BY <1>0, <1>9, <2>1 DEF DrainTasks, Op, persisted, background
<1>10. ASSUME DropIndex PROVE TypeOK'
  <2>1. op' \in Op
    BY <1>0, <1>10, OpType DEF DropIndex, OpSteps
  <2> QED
    BY <1>0, <1>10, <2>1 DEF DropIndex, Op, persisted, background
<1>11. ASSUME ReplaceActive PROVE TypeOK'
  <2>1. op' \in Op /\ signedIn' \in Maybe
    BY <1>0, <1>11, OpType DEF ReplaceActive, OpSteps, Finish
  <2>2. tokens' \subseteq Device /\ active' \in Maybe
    BY <1>0, <1>11, OpType DEF ReplaceActive, Op
  <2> QED
    BY <1>0, <1>11, <2>1, <2>2 DEF ReplaceActive, Op, persisted, background
<1>12. ASSUME ReplaceCache PROVE TypeOK'
  <2>1. op' \in Op
    BY <1>0, <1>12, OpType DEF ReplaceCache, OpSteps
  <2> QED
    BY <1>0, <1>12, <2>1 DEF ReplaceCache, Op, persisted, background
<1>13. ASSUME StartMonitor PROVE TypeOK'
  <2>1. op' \in Op
    BY <1>0, <1>13, OpType DEF StartMonitor, OpSteps
  <2>2. job' \in [Thread -> Job]
    BY <1>0, <1>13 DEF StartMonitor, Job, NoJob, Kinds, JobSteps, Maybe, Thread
  <2> QED
    BY <1>0, <1>13, <2>1, <2>2 DEF StartMonitor, Op, Job, persisted, background
<1>14. ASSUME MonitorStarted PROVE TypeOK'
  <2>1. op' \in Op
    BY <1>0, <1>14, OpType DEF MonitorStarted, OpSteps
  <2> QED
    BY <1>0, <1>14, <2>1 DEF MonitorStarted, Op, persisted, background
<1>15. ASSUME StartSupervisor PROVE TypeOK'
  <2>1. op' \in Op /\ signedIn' \in Maybe
    BY <1>0, <1>15, OpType DEF StartSupervisor, Op, Finish
  <2>2. supervisor' \in [Device -> TaskStates]
    BY <1>0, <1>15, OpType DEF StartSupervisor, TaskStates
  <2> QED
    BY <1>0, <1>15, <2>1, <2>2 DEF StartSupervisor, Op, persisted, background
<1>16. ASSUME DropPlayback PROVE TypeOK'
  <2>1. op' \in Op /\ signedIn' \in Maybe
    BY <1>0, <1>16, OpType DEF DropPlayback, Finish
  <2> QED
    BY <1>0, <1>16, <2>1 DEF DropPlayback, Op, persisted, background
<1> QED
  BY <1>1, <1>2, <1>3, <1>4, <1>5, <1>6, <1>7, <1>8, <1>9, <1>10, <1>11, <1>12, <1>13, <1>14, <1>15, <1>16 DEF ControlStep

LEMMA RestartType ==
  ASSUME TypeOK, Restart
  PROVE  TypeOK'
<1> USE DEF TypeOK
<1>0. NoOp \in Op /\ NoJob \in Job /\ NoTasks \in [Device -> TaskStates]
  BY DEF NoOp, NoJob, NoTasks, Op, Job, OpSteps, JobSteps, TaskStates, Maybe
<1>1. PICK d \in Maybe :
        /\ cache' = d /\ monitor' = d /\ signedIn' = d
        /\ supervisor' = [e \in Device |-> IF e = d THEN "opening" ELSE "none"]
  BY DEF Restart, Maybe
<1>2. supervisor' \in [Device -> TaskStates]
  BY <1>1 DEF TaskStates
<1>3. restarts' \in 0..MaxRestarts
  BY RestartsAssumption DEF Restart
<1>4. job' \in [Thread -> Job] /\ op' \in Op
  BY <1>0 DEF Restart
<1>5. UNCHANGED persisted /\ active' = stored /\ lock' = None /\ detached' = {}
      /\ progress' = {} /\ index' = None /\ ending' = NoTasks
      /\ playback' = None
  BY DEF Restart
<1> QED
  BY <1>0, <1>1, <1>2, <1>3, <1>4, <1>5 DEF Job, Op, persisted, Maybe

(* Type correctness, for any devices and threads. *)
THEOREM TypeCorrect == Spec => []TypeOK
<1>1. Init => TypeOK
  <2>1. NoOp \in Op /\ NoJob \in Job /\ NoTasks \in [Device -> TaskStates]
    BY DEF NoOp, NoJob, NoTasks, Op, Job, OpSteps, JobSteps, TaskStates, Maybe
  <2>2. 0 \in 0..MaxRestarts
    BY RestartsAssumption
  <2> QED
    BY <2>1, <2>2 DEF Init, TypeOK, Op, Job, Maybe
<1>2. TypeOK /\ [Next]_vars => TypeOK'
  <2>1. ASSUME TypeOK, UNCHANGED vars PROVE TypeOK'
    BY <2>1 DEF TypeOK, vars, persisted, background
  <2> QED
    BY <2>1, WorkerType, ClientType, TaskType, ControlType, RestartType DEF Next
<1> QED
  BY <1>1, <1>2, PTL DEF Spec

-----------------------------------------------------------------------------
(* The steps that leave what an invariant speaks of alone.                  *)

LEMMA CallsLeaveAccount ==
  ASSUME NEW t \in Thread, WorkerStep(t) \/ ClientStep(t) \/ TaskStep
  PROVE  UNCHANGED account
<1>1. WorkerStep(t) => UNCHANGED account
  BY DEF WorkerStep, Call, ReadPlayback, ReadSession, OpenIndex, CheckSession,
         RegisterSupervisor, Verify, Prepared, SendReport, account
<1>2. ClientStep(t) => UNCHANGED account
  BY DEF ClientStep, ReadActive, FindClient, StoreClient, LockMonitor,
         SpawnMonitor, account
<1>3. TaskStep => UNCHANGED account
  BY DEF TaskStep, Receive, MonitorEnds, SupervisorOpens, SupervisorEnds,
         account
<1> QED
  BY <1>1, <1>2, <1>3

-----------------------------------------------------------------------------
(* A restart finds the session of a signed-in user.                         *)

\* While no operation has touched the account, everyone names one session.
Settled == signedIn # None => active = signedIn /\ stored = signedIn

\* Where each operation stands with the account.
LoginShape ==
  op.kind = "login" =>
    /\ op.device \in issued
    /\ op.pc \in {"token", "user"} => Settled /\ stored # op.device
    /\ op.pc = "user" => op.device \in tokens
    /\ op.pc \notin {"token", "user"} =>
         stored = op.device /\ op.device \in tokens
    /\ op.pc \in {"monitor", "monitoring", "supervise"} => active = op.device
    /\ op.pc = "cache" => active = op.device
    /\ op.pc # "playback"

LogoutShape ==
  op.kind = "logout" =>
    /\ signedIn # None
    /\ op.pc \in {"takeTasks", "drainTasks", "index", "active"} =>
         Settled /\ stored \in tokens
    /\ op.pc \in {"cache", "takeMonitor", "drainMonitor", "clear", "playback"} =>
         stored \notin tokens
    /\ op.pc \notin {"token", "user", "monitor", "monitoring", "supervise"}

AccountInv ==
  /\ stored \in issued \union {None}
  /\ op.kind = "none" <=> op.pc = "idle"
  /\ op.pc = "idle" => Settled
  /\ signedIn = None /\ op.pc \in {"idle", "token", "user"} => stored \notin tokens
  /\ signedIn # None /\ op.kind # "logout" => stored \in tokens
  /\ LoginShape /\ LogoutShape

LEMMA AccountStep ==
  ASSUME TypeOK, AccountInv, ControlStep
  PROVE  AccountInv'
<1> USE DEF AccountInv, Settled
<1>0. None \notin Device /\ None \notin tokens /\ None \notin issued
      /\ op \in Op /\ op.kind \in {"none", "login", "logout"}
      /\ (op.pc # "idle" => op.device \in Device)
  BY NoneAssumption DEF TypeOK, Op
<1>00. \A step : op.pc # "idle" /\ Then(step) =>
          op'.kind = op.kind /\ op'.pc = step /\ op'.device = op.device
  BY <1>0 DEF Then, Op
<1>000. \A s : Finish(s) => op'.kind = "none" /\ op'.pc = "idle" /\ signedIn' = s
  BY DEF Finish, NoOp
<1>1. ASSUME NEW d \in Device, Login(d) PROVE AccountInv'
  BY <1>0, <1>1 DEF Login, LoginShape, LogoutShape
<1>2. ASSUME Logout PROVE AccountInv'
  BY <1>0, <1>2 DEF Logout, LoginShape, LogoutShape, persisted
<1>3. ASSUME SaveToken PROVE AccountInv'
  BY <1>0, <1>00, <1>000, <1>3 DEF SaveToken, LoginShape, LogoutShape
<1>4. ASSUME SaveUser PROVE AccountInv'
  BY <1>0, <1>00, <1>000, <1>4 DEF SaveUser, LoginShape, LogoutShape
<1>5. ASSUME TakeMonitor PROVE AccountInv'
  BY <1>0, <1>00, <1>5 DEF TakeMonitor, LoginShape, LogoutShape, persisted
<1>6. ASSUME DrainMonitor PROVE AccountInv'
  BY <1>0, <1>00, <1>6 DEF DrainMonitor, LoginShape, LogoutShape, persisted
<1>7. ASSUME ClearProgress PROVE AccountInv'
  BY <1>0, <1>00, <1>7 DEF ClearProgress, LoginShape, LogoutShape, persisted
<1>8. ASSUME TakeTasks PROVE AccountInv'
  BY <1>0, <1>00, <1>8 DEF TakeTasks, LoginShape, LogoutShape, persisted
<1>9. ASSUME DrainTasks PROVE AccountInv'
  BY <1>0, <1>00, <1>9 DEF DrainTasks, LoginShape, LogoutShape, persisted
<1>10. ASSUME DropIndex PROVE AccountInv'
  BY <1>0, <1>00, <1>10 DEF DropIndex, LoginShape, LogoutShape, persisted
<1>11. ASSUME ReplaceActive PROVE AccountInv'
  BY <1>0, <1>00, <1>000, <1>11 DEF ReplaceActive, LoginShape, LogoutShape
<1>12. ASSUME ReplaceCache PROVE AccountInv'
  BY <1>0, <1>00, <1>12 DEF ReplaceCache, LoginShape, LogoutShape, persisted
<1>13. ASSUME StartMonitor PROVE AccountInv'
  BY <1>0, <1>00, <1>13 DEF StartMonitor, LoginShape, LogoutShape, persisted
<1>14. ASSUME MonitorStarted PROVE AccountInv'
  BY <1>0, <1>00, <1>14 DEF MonitorStarted, LoginShape, LogoutShape, persisted
<1>15. ASSUME StartSupervisor PROVE AccountInv'
  BY <1>0, <1>000, <1>15 DEF StartSupervisor, LoginShape, LogoutShape, persisted
<1>16. ASSUME DropPlayback PROVE AccountInv'
  BY <1>0, <1>000, <1>16 DEF DropPlayback, LoginShape, LogoutShape, persisted
<1> QED
  BY <1>1, <1>2, <1>3, <1>4, <1>5, <1>6, <1>7, <1>8, <1>9, <1>10, <1>11,
     <1>12, <1>13, <1>14, <1>15, <1>16 DEF ControlStep

LEMMA AccountInvariant == Spec => []AccountInv
<1>1. Init => AccountInv
  BY DEF Init, AccountInv, LoginShape, LogoutShape, Settled, NoOp
<1>2. TypeOK /\ AccountInv /\ [Next]_vars => AccountInv'
  <2> SUFFICES ASSUME TypeOK, AccountInv, [Next]_vars PROVE AccountInv'
    OBVIOUS
  <2>1. ASSUME UNCHANGED account PROVE AccountInv'
    BY <2>1 DEF account, persisted, AccountInv, LoginShape, LogoutShape, Settled
  <2>2. ASSUME Restart PROVE AccountInv'
    <3>1. stored = None => stored \notin tokens
      BY NoneAssumption DEF TypeOK
    <3>2. UNCHANGED persisted /\ active' = stored /\ op' = NoOp
          /\ signedIn' = IF stored \in tokens THEN stored ELSE None
      BY <2>2 DEF Restart
    <3> QED
      BY <3>1, <3>2 DEF persisted, AccountInv, LoginShape, LogoutShape,
                        Settled, NoOp
  <2>3. ASSUME UNCHANGED vars PROVE UNCHANGED account
    BY <2>3 DEF vars, account
  <2> QED
    BY <2>1, <2>2, <2>3, AccountStep, CallsLeaveAccount DEF Next, Thread, TaskStep
<1> QED
  BY <1>1, <1>2, TypeCorrect, PTL DEF Spec

(* A signed-in user stays signed in across a restart at any moment, also in *)
(* the middle of a change of account, and a user who logged out does not.   *)
THEOREM RestartKeepsSession == Spec => []SessionSurvivesRestart
<1>1. AccountInv => SessionSurvivesRestart
  BY DEF AccountInv, SessionSurvivesRestart
<1> QED
  BY <1>1, AccountInvariant, PTL

(* Between operations the application and its caller agree on the session.  *)
THEOREM CallerAgrees == Spec => []CallerKnowsSession
<1>1. AccountInv => CallerKnowsSession
  BY DEF AccountInv, CallerKnowsSession, Settled
<1> QED
  BY <1>1, AccountInvariant, PTL

-----------------------------------------------------------------------------
(* A logout leaves no monitor behind.                                       *)

\* Whoever is about to spawn a monitor holds the mutex, and has a client.
LockHeld == \A t \in Thread : job[t].pc = "spawn" => lock = t
HasClient ==
  \A t \in Thread :
    job[t].pc \in {"client", "store", "lock", "spawn"} => job[t].client # None

\* With no session, only a logout that has not stopped it yet has a monitor,
\* or messages of one: each step of stop_refresh_monitor removes one of these.
LoggingOut(steps) == op.kind = "logout" /\ op.pc \in steps
Silent ==
  active = None =>
    /\ LoggingOut({"cache", "takeMonitor"}) \/ (monitor = None /\ lock = None)
    /\ LoggingOut({"cache", "takeMonitor", "drainMonitor"}) \/ detached = {}
    /\ LoggingOut({"cache", "takeMonitor", "drainMonitor", "clear"})
         \/ progress = {}

SilenceInv == LockHeld /\ HasClient /\ Silent

LEMMA ReturnKeeps ==
  ASSUME TypeOK, LockHeld, HasClient, NEW t \in Thread, Return(t),
         lock' = lock \/ (lock' = None /\ lock = t)
  PROVE  LockHeld' /\ HasClient'
BY ThreadAssumption DEF TypeOK, LockHeld, HasClient, Return, NoJob, Thread

LEMMA GoKeeps ==
  ASSUME TypeOK, LockHeld, HasClient, NEW t \in Thread, NEW step, Go(t, step),
         step # "spawn", lock' = lock,
         step \in {"client", "store", "lock"} => job[t].client # None
  PROVE  LockHeld' /\ HasClient'
BY DEF TypeOK, LockHeld, HasClient, Go

LEMMA GiveUpKeeps ==
  ASSUME TypeOK, LockHeld, HasClient, NEW t \in Thread, GiveUp(t), lock' = lock
  PROVE  LockHeld' /\ HasClient'
BY ReturnKeeps, GoKeeps DEF GiveUp

LEMMA WorkerKeepsSilence ==
  ASSUME TypeOK, SilenceInv, NEW w \in Worker, WorkerStep(w)
  PROVE  SilenceInv'
<1> USE DEF SilenceInv
<1>0. w \in Thread /\ NoJob.client = None
  BY DEF Thread, NoJob
<1>1. UNCHANGED silence
  BY DEF WorkerStep, Call, ReadPlayback, ReadSession, OpenIndex, CheckSession,
         RegisterSupervisor, Verify, Prepared, SendReport, silence, background
<1>2. Silent' /\ lock' = lock
  BY <1>1 DEF Silent, LoggingOut, silence
<1>3. ASSUME NEW kind \in Kinds, Call(w, kind) PROVE LockHeld' /\ HasClient'
  <2>1. FirstStep(kind) \notin {"client", "store", "lock", "spawn"}
    BY DEF FirstStep
  <2> QED
    BY <1>0, <1>2, <1>3, <2>1 DEF Call, LockHeld, HasClient, NoJob, TypeOK
<1>4. ASSUME NEW d \in Device, ReadPlayback(w, d) PROVE LockHeld' /\ HasClient'
  <2>1. CASE Return(w)
    BY <1>0, <1>2, <2>1, ReturnKeeps
  <2>2. CASE job' = [job EXCEPT ![w].session = d, ![w].pc = "active"]
    BY <1>0, <1>2, <2>2 DEF LockHeld, HasClient, TypeOK
  <2> QED
    BY <1>4, <2>1, <2>2 DEF ReadPlayback
<1>5. ASSUME ReadSession(w) PROVE LockHeld' /\ HasClient'
  <2>1. CASE Return(w)
    BY <1>0, <1>2, <2>1, ReturnKeeps
  <2>2. CASE job' = [job EXCEPT ![w].session = active, ![w].pc = "index"]
    BY <1>0, <1>2, <2>2 DEF LockHeld, HasClient, TypeOK
  <2> QED
    BY <1>5, <2>1, <2>2 DEF ReadSession
<1>6. OpenIndex(w) \/ CheckSession(w) \/ RegisterSupervisor(w)
        => LockHeld' /\ HasClient'
  BY <1>0, <1>2, GoKeeps DEF OpenIndex, CheckSession, RegisterSupervisor
<1>7. Verify(w) \/ Prepared(w) => LockHeld' /\ HasClient'
  BY <1>0, <1>2, ReturnKeeps DEF Verify, Prepared
<1>8. \A stopped \in BOOLEAN : SendReport(w, stopped) => LockHeld' /\ HasClient'
  BY <1>0, <1>2, ReturnKeeps DEF SendReport
<1> QED
  BY <1>2, <1>3, <1>4, <1>5, <1>6, <1>7, <1>8 DEF WorkerStep

LEMMA ClientKeepsSilence ==
  ASSUME TypeOK, SilenceInv, NEW t \in Thread, ClientStep(t)
  PROVE  SilenceInv'
<1> USE DEF SilenceInv
<1>1. ASSUME ReadActive(t) PROVE SilenceInv'
  <2>1. Silent' /\ lock' = lock
    BY <1>1 DEF ReadActive, Silent, LoggingOut, background
  <2>2. CASE GiveUp(t)
    BY <2>1, <2>2, GiveUpKeeps
  <2>3. CASE active # None
             /\ job' = [job EXCEPT ![t].client = active, ![t].pc = "client"]
    BY <2>1, <2>3 DEF LockHeld, HasClient, TypeOK
  <2> QED
    BY <1>1, <2>2, <2>3 DEF ReadActive
<1>2. ASSUME FindClient(t) PROVE SilenceInv'
  <2>1. Silent' /\ lock' = lock
    BY <1>2 DEF FindClient, Silent, LoggingOut, background
  <2>2. job[t].client # None /\ AfterClient(job[t].kind) # "spawn"
    BY <1>2 DEF FindClient, HasClient, AfterClient
  <2> QED
    BY <1>2, <2>1, <2>2, GoKeeps, GiveUpKeeps DEF FindClient
<1>3. ASSUME StoreClient(t) PROVE SilenceInv'
  <2>1. Silent' /\ lock' = lock
    BY <1>3 DEF StoreClient, Silent, LoggingOut, background
  <2>2. job[t].client # None /\ AfterClient(job[t].kind) # "spawn"
    BY <1>3 DEF StoreClient, HasClient, AfterClient
  <2> QED
    BY <1>3, <2>1, <2>2, GoKeeps DEF StoreClient
<1>4. ASSUME LockMonitor(t) PROVE SilenceInv'
  <2>1. job[t].client # None /\ lock = None
    BY <1>4 DEF LockMonitor, HasClient
  <2>2. CASE lock' = lock /\ Return(t)
    <3>1. Silent'
      BY <1>4, <2>2 DEF LockMonitor, Silent, LoggingOut
    <3> QED
      BY <2>2, <3>1, ReturnKeeps
  <2>3. CASE active = job[t].client /\ lock' = t /\ Go(t, "spawn")
    <3>1. Silent'
      BY <1>4, <2>1, <2>3 DEF LockMonitor, Silent
    <3>2. \A u \in Thread : job[u].pc # "spawn"
      BY <2>1, ThreadAssumption DEF LockHeld, Thread
    <3>3. LockHeld' /\ HasClient'
      BY <2>1, <2>3, <3>2 DEF Go, LockHeld, HasClient, TypeOK
    <3> QED
      BY <3>1, <3>3
  <2> QED
    BY <1>4, <2>2, <2>3 DEF LockMonitor
<1>5. ASSUME SpawnMonitor(t) PROVE SilenceInv'
  <2>1. lock = t /\ t # None
    BY <1>5, ThreadAssumption DEF SpawnMonitor, LockHeld, Thread
  <2>2. Silent'
    BY <1>5, <2>1 DEF SpawnMonitor, Silent, LoggingOut
  <2> QED
    BY <1>5, <2>1, <2>2, ReturnKeeps DEF SpawnMonitor
<1> QED
  BY <1>1, <1>2, <1>3, <1>4, <1>5 DEF ClientStep

LEMMA TaskKeepsSilence ==
  ASSUME TypeOK, SilenceInv, TaskStep
  PROVE  SilenceInv'
<1> USE DEF SilenceInv
<1>1. LockHeld' /\ HasClient'
  BY DEF TaskStep, Receive, MonitorEnds, SupervisorOpens, SupervisorEnds,
         LockHeld, HasClient
<1>2. ASSUME NEW d \in Device, Receive(d) PROVE Silent'
  BY <1>2, NoneAssumption DEF Receive, Silent, LoggingOut
<1>3. ASSUME NEW d \in Device, MonitorEnds(d) PROVE Silent'
  BY <1>3 DEF MonitorEnds, Silent, LoggingOut
<1>4. ASSUME NEW d \in Device, SupervisorOpens(d) \/ SupervisorEnds(d)
      PROVE Silent'
  BY <1>4 DEF SupervisorOpens, SupervisorEnds, Silent, LoggingOut
<1> QED
  BY <1>1, <1>2, <1>3, <1>4 DEF TaskStep

LEMMA ControlKeepsSilence ==
  ASSUME TypeOK, AccountInv, SilenceInv, ControlStep
  PROVE  SilenceInv'
<1> USE DEF SilenceInv
<1>0. op \in Op /\ op.kind \in {"none", "login", "logout"}
      /\ (op.pc # "idle" => op.device \in Device) /\ None \notin Device
  BY NoneAssumption DEF TypeOK, Op
<1>00. \A step : op.pc # "idle" /\ Then(step) =>
          op'.kind = op.kind /\ op'.pc = step
  BY <1>0 DEF Then, Op
<1>1. LockHeld' /\ HasClient'
  <2>1. CASE StartMonitor
    BY <2>1 DEF StartMonitor, LockHeld, HasClient, NoJob, TypeOK, background
  <2>2. CASE UNCHANGED <<job, lock>>
    BY <2>2 DEF LockHeld, HasClient
  <2> QED
    BY <2>1, <2>2 DEF ControlStep, Login, Logout, SaveToken, SaveUser,
      TakeMonitor, DrainMonitor, ClearProgress, TakeTasks, DrainTasks,
      DropIndex, ReplaceActive, ReplaceCache, MonitorStarted, StartSupervisor,
      DropPlayback, background
<1>2. ASSUME UNCHANGED <<active, monitor, lock, detached, progress>>,
             op.pc \notin {"cache", "takeMonitor", "drainMonitor", "clear"}
      PROVE  Silent'
  BY <1>2 DEF Silent, LoggingOut
<1>3. (\E d \in Device : Login(d)) \/ Logout \/ SaveToken \/ SaveUser
        \/ TakeTasks \/ DrainTasks \/ DropIndex \/ StartMonitor
        \/ MonitorStarted \/ StartSupervisor \/ DropPlayback => Silent'
  BY <1>2 DEF Login, Logout, SaveToken, SaveUser, TakeTasks, DrainTasks,
    DropIndex, StartMonitor, MonitorStarted, StartSupervisor, DropPlayback,
    background
<1>4. ASSUME TakeMonitor PROVE Silent'
  BY <1>0, <1>00, <1>4 DEF TakeMonitor, Silent, LoggingOut
<1>5. ASSUME DrainMonitor PROVE Silent'
  BY <1>0, <1>00, <1>5 DEF DrainMonitor, Silent, LoggingOut, background
<1>6. ASSUME ClearProgress PROVE Silent'
  BY <1>0, <1>00, <1>6 DEF ClearProgress, Silent, LoggingOut
<1>7. ASSUME ReplaceActive PROVE Silent'
  BY <1>0, <1>00, <1>2, <1>7 DEF ReplaceActive, Silent, LoggingOut, background
<1>8. ASSUME ReplaceCache PROVE Silent'
  BY <1>0, <1>00, <1>8 DEF ReplaceCache, Silent, LoggingOut, background
<1> QED
  BY <1>1, <1>3, <1>4, <1>5, <1>6, <1>7, <1>8 DEF ControlStep

LEMMA RestartKeepsSilence ==
  ASSUME TypeOK, Restart
  PROVE  SilenceInv'
<1>1. stored = None => stored \notin tokens
  BY NoneAssumption DEF TypeOK
<1>2. active' = stored /\ lock' = None /\ detached' = {} /\ progress' = {}
      /\ monitor' = (IF stored \in tokens THEN stored ELSE None)
      /\ job' = [t \in Thread |-> NoJob]
  BY DEF Restart
<1>3. Silent'
  BY <1>1, <1>2 DEF Silent
<1>4. LockHeld' /\ HasClient'
  BY <1>2 DEF LockHeld, HasClient, NoJob
<1> QED
  BY <1>3, <1>4 DEF SilenceInv

(* Once a logout is done no monitor runs or is ending and nothing of one is *)
(* left, however many refresh calls were in flight when it began.           *)
THEOREM LogoutSilences == Spec => []LogoutSilencesMonitor
<1>1. Init => SilenceInv
  BY DEF Init, SilenceInv, LockHeld, HasClient, Silent, NoJob
<1>2. TypeOK /\ AccountInv /\ SilenceInv /\ [Next]_vars => SilenceInv'
  <2>1. ASSUME SilenceInv, UNCHANGED vars PROVE SilenceInv'
    BY <2>1 DEF SilenceInv, LockHeld, HasClient, Silent, LoggingOut, vars,
                background
  <2> QED
    BY <2>1, WorkerKeepsSilence, ClientKeepsSilence, TaskKeepsSilence,
       ControlKeepsSilence, RestartKeepsSilence DEF Next
<1>3. SilenceInv => LogoutSilencesMonitor
  BY DEF SilenceInv, Silent, LoggingOut, LogoutSilencesMonitor
<1> QED
  BY <1>1, <1>2, <1>3, TypeCorrect, AccountInvariant, PTL DEF Spec

-----------------------------------------------------------------------------
(* The presentation of the catalog.                                        *)

\* A request, and one that carries no answer of another account: h tells that
\* the backend is in account a, the one that is committed.
Shaped(r) ==
  r = [kind |-> r.kind, key |-> r.key, res |-> r.res, pres |-> r.pres,
       sess |-> r.sess, rev |-> r.rev, old |-> r.old, data |-> r.data]
IsOf(d, a) == \A i \in Items : d[i].of = a
Own(r, a, h) ==
  /\ Shaped(r)
  /\ h /\ r.sess /\ r.data # None /\ r.data # Lost => IsOf(r.data, a)
Mine(r, a, h) == r = None \/ Own(r, a, h)

\* The requests of the navigation lanes, and those of the two reads.
NavigationMine(a, h) ==
  /\ lanes = [l \in Catalog!Lanes |-> lanes[l]]
  /\ queue = [k \in Catalog!Kinds |-> queue[k]]
  /\ \A l \in Catalog!Lanes : Mine(lanes[l], a, h)
  /\ \A k \in Catalog!Kinds : Mine(queue[k], a, h)
ReadsMine(a, h) ==
  /\ lane = [k \in Reads |-> [req |-> lane[k].req,
                              refreshing |-> lane[k].refreshing,
                              queued |-> lane[k].queued]]
  /\ \A k \in Reads : Mine(lane[k].req, a, h)

\* The shapes of what the server and the presentation hold.
ServerShape ==
  server = [i \in Items |-> [played |-> server[i].played, fav |-> server[i].fav,
                             n |-> server[i].n, of |-> server[i].of]]
ViewShape ==
  view = [of |-> view.of, fenced |-> view.fenced, target |-> view.target,
          shown |-> view.shown, error |-> view.error,
          libraryFailed |-> view.libraryFailed]
FieldsShape == fields = [i \in Items |-> fields[i]]

\* The backend is in the committed account, which it is unless a transition
\* is under way; the entities are that account's, and so is every answer to a
\* request that has kept its session.
Home == IsOf(server, view.of)
OwnEntities == \A i \in Items : fields[i] # None => fields[i].of = view.of
CatalogInv ==
  /\ ServerShape /\ ViewShape /\ FieldsShape
  /\ Catalog!Active => Home
  /\ OwnEntities
  /\ NavigationMine(view.of, Home) /\ ReadsMine(view.of, Home)

\* What the tokens lose changes neither the session nor the answer.
LEMMA TokensOwn ==
  ASSUME NEW a, NEW h \in BOOLEAN, NEW r, Own(r, a, h)
  PROVE  /\ \A keys : Own(Catalog!Invalid(keys, r), a, h)
         /\ \A kind : Own(Catalog!Demoted(kind, r), a, h)
         /\ \A rev : Own(Catalog!Outrun(rev, r), a, h)
         /\ Own(Catalog!Promoted(r), a, h)
         /\ Own([r EXCEPT !.pres = FALSE], a, h)
<1>1. Shaped(r) /\ (h /\ r.sess /\ r.data # None /\ r.data # Lost => IsOf(r.data, a))
  BY DEF Own
<1>2. ASSUME NEW keys PROVE Own(Catalog!Invalid(keys, r), a, h)
  <2>1. /\ Shaped(Catalog!Invalid(keys, r))
        /\ Catalog!Invalid(keys, r).sess = r.sess /\ Catalog!Invalid(keys, r).data = r.data
    BY <1>1 DEF Shaped, Catalog!Invalid
  <2> QED
    BY <1>1, <2>1 DEF Own
<1>3. ASSUME NEW kind PROVE Own(Catalog!Demoted(kind, r), a, h)
  <2>1. /\ Shaped(Catalog!Demoted(kind, r))
        /\ Catalog!Demoted(kind, r).sess = r.sess /\ Catalog!Demoted(kind, r).data = r.data
    BY <1>1 DEF Shaped, Catalog!Demoted
  <2> QED
    BY <1>1, <2>1 DEF Own
<1>4. ASSUME NEW rev PROVE Own(Catalog!Outrun(rev, r), a, h)
  <2>1. /\ Shaped(Catalog!Outrun(rev, r))
        /\ Catalog!Outrun(rev, r).sess = r.sess /\ Catalog!Outrun(rev, r).data = r.data
    BY <1>1 DEF Shaped, Catalog!Outrun
  <2> QED
    BY <1>1, <2>1 DEF Own
<1>5. ASSUME NEW b \in BOOLEAN PROVE Own([r EXCEPT !.pres = b], a, h)
  <2> DEFINE q == [r EXCEPT !.pres = b]
  <2>1. /\ q = [kind |-> r.kind, key |-> r.key, res |-> r.res, pres |-> b,
                sess |-> r.sess, rev |-> r.rev, old |-> r.old, data |-> r.data]
    BY <1>1 DEF Shaped
  <2> HIDE DEF q
  <2>2. Shaped(q) /\ q.sess = r.sess /\ q.data = r.data
    BY <2>1 DEF Shaped
  <2>3. Own(q, a, h)
    BY <1>1, <2>2 DEF Own
  <2> QED
    BY <2>3 DEF q
<1>6. Catalog!Promoted(r) = [r EXCEPT !.pres = TRUE]
  BY DEF Catalog!Promoted
<1> QED
  BY <1>2, <1>3, <1>4, <1>5, <1>6

LEMMA IssueOwn ==
  ASSUME NEW a, NEW h \in BOOLEAN, NEW kind, NEW key
  PROVE  Own(Catalog!Issue(kind, key), a, h)
BY DEF Own, Shaped, Catalog!Issue

\* What is left in flight once request q has finished.
LEMMA FinishedMine ==
  ASSUME NEW a, NEW h \in BOOLEAN, NavigationMine(a, h), ReadsMine(a, h),
         NEW q, NEW rev, NEW keys, Catalog!Finished(q, rev, keys)
  PROVE  NavigationMine(a, h)' /\ ReadsMine(a, h)'
<1> DEFINE F(r) == IF r = q THEN None ELSE Catalog!Invalid(keys, Catalog!Outrun(rev, r))
           G(r) == IF r = None THEN None ELSE F(r)
<1>1. /\ lanes' = [l \in Catalog!Lanes |-> G(lanes[l])]
      /\ queue' = [k \in Catalog!Kinds |-> G(queue[k])]
      /\ lane' = [k \in Reads |-> [lane[k] EXCEPT !.req = G(lane[k].req)]]
  BY DEF Catalog!Finished, Catalog!Each
<1>2. ASSUME NEW r, Mine(r, a, h)
      PROVE  Mine(G(r), a, h)
  <2>1. CASE r = None \/ r = q
    BY <2>1 DEF Mine
  <2>2. CASE r # None /\ r # q
    <3>1. Own(Catalog!Outrun(rev, r), a, h)
      BY <1>2, <2>2, TokensOwn DEF Mine
    <3>2. Own(Catalog!Invalid(keys, Catalog!Outrun(rev, r)), a, h)
      BY <3>1, TokensOwn
    <3> QED
      BY <2>2, <3>2 DEF Mine
  <2> QED
    BY <2>1, <2>2
<1> HIDE DEF G
<1>3. NavigationMine(a, h)'
  BY <1>1, <1>2 DEF NavigationMine
<1>4. ReadsMine(a, h)'
  <2>1. lane' = [k \in Reads |-> [req |-> G(lane[k].req),
                                  refreshing |-> lane[k].refreshing,
                                  queued |-> lane[k].queued]]
    BY <1>1 DEF ReadsMine
  <2> QED
    BY <1>2, <2>1 DEF ReadsMine
<1> QED
  BY <1>3, <1>4

LEMMA LeastIn ==
  ASSUME NEW S, S \subseteq Catalog!Lanes, S # {}
  PROVE  Catalog!Least(S) \in S
<1>1. S = {1} \/ S = {2} \/ S = {1, 2}
  BY DEF Catalog!Lanes
<1>2. \E l \in S : \A m \in S : l <= m
  BY <1>1
<1> QED
  BY <1>2 DEF Catalog!Least

LEMMA LatestMine ==
  ASSUME NEW a, NEW h \in BOOLEAN, NEW r, Mine(r, a, h), NEW kind
  PROVE  Mine(Catalog!Latest(kind, r), a, h)
BY TokensOwn DEF Mine, Catalog!Latest

LEMMA NavigateMine ==
  ASSUME NEW a, NEW h \in BOOLEAN, NavigationMine(a, h),
         NEW kind, NEW key, Catalog!Navigate(kind, key)
  PROVE  NavigationMine(a, h)'
<1> DEFINE ls == [l \in Catalog!Lanes |-> Catalog!Latest(kind, lanes[l])]
           qs == [k \in Catalog!Kinds |-> Catalog!Latest(kind, queue[k])]
           same == {l \in Catalog!Lanes : Catalog!Equivalent(lanes[l], key)}
           free == {l \in Catalog!Lanes : lanes[l] = None}
           Fits(f, S) == f = [x \in S |-> f[x]] /\ \A x \in S : Mine(f[x], a, h)
<1>1. Fits(ls, Catalog!Lanes) /\ Fits(qs, Catalog!Kinds)
  BY LatestMine DEF NavigationMine
<1>2. ASSUME NEW x, NEW S, NEW f, Fits(f, S)
      PROVE  Fits([f EXCEPT ![x] = Catalog!Issue(kind, key)], S)
  BY <1>2, IssueOwn DEF Mine
<1>3. ASSUME NEW x, NEW S, NEW f, Fits(f, S), x \in S => Own(f[x], a, h)
      PROVE  Fits([f EXCEPT ![x] = Catalog!Promoted(f[x])], S)
  <2>1. x \in S => Mine(Catalog!Promoted(f[x]), a, h)
    BY <1>3, TokensOwn DEF Mine
  <2> QED
    BY <1>3, <2>1
<1>4. ASSUME NEW r, Mine(r, a, h), Catalog!Equivalent(r, key)
      PROVE  Own(Catalog!Latest(kind, r), a, h)
  BY <1>4, TokensOwn DEF Mine, Catalog!Latest, Catalog!Equivalent
<1>5. \/ /\ same # {}
         /\ lanes' = [ls EXCEPT ![Catalog!Least(same)] = Catalog!Promoted(ls[Catalog!Least(same)])]
         /\ queue' = qs
      \/ /\ Catalog!Equivalent(queue[kind], key) /\ lanes' = ls
         /\ queue' = [qs EXCEPT ![kind] = Catalog!Promoted(qs[kind])]
      \/ lanes' = [ls EXCEPT ![Catalog!Least(free)] = Catalog!Issue(kind, key)] /\ queue' = qs
      \/ lanes' = ls /\ queue' = [qs EXCEPT ![kind] = Catalog!Issue(kind, key)]
  BY DEF Catalog!Navigate
<1>6. same # {} => Catalog!Least(same) \in Catalog!Lanes /\ Own(ls[Catalog!Least(same)], a, h)
  <2>1. same # {} => Catalog!Least(same) \in same
    BY LeastIn
  <2> QED
    BY <1>4, <2>1 DEF NavigationMine
<1>7. Catalog!Equivalent(queue[kind], key) /\ kind \in Catalog!Kinds => Own(qs[kind], a, h)
  BY <1>4 DEF NavigationMine
<1> HIDE DEF ls, qs, same, free
<1>8. Fits(lanes', Catalog!Lanes) /\ Fits(queue', Catalog!Kinds)
  <2> HIDE DEF Fits
  <2>1. CASE /\ same # {}
             /\ lanes' = [ls EXCEPT ![Catalog!Least(same)] = Catalog!Promoted(ls[Catalog!Least(same)])]
             /\ queue' = qs
    BY <1>1, <1>3, <1>6, <2>1
  <2>2. CASE /\ Catalog!Equivalent(queue[kind], key) /\ lanes' = ls
             /\ queue' = [qs EXCEPT ![kind] = Catalog!Promoted(qs[kind])]
    BY <1>1, <1>3, <1>7, <2>2
  <2>3. CASE lanes' = [ls EXCEPT ![Catalog!Least(free)] = Catalog!Issue(kind, key)] /\ queue' = qs
    BY <1>1, <1>2, <2>3
  <2>4. CASE lanes' = ls /\ queue' = [qs EXCEPT ![kind] = Catalog!Issue(kind, key)]
    BY <1>1, <1>2, <2>4
  <2> QED
    BY <1>5, <2>1, <2>2, <2>3, <2>4
<1> QED
  BY <1>8 DEF NavigationMine

\* The view keeps its account and its fence.
ViewStays ==
  /\ ViewShape'
  /\ view'.of = view.of /\ (view'.fenced <=> view.fenced)

LEMMA LibraryAskedStays ==
  ASSUME ViewShape, view' = Catalog!LibraryAsked
  PROVE  ViewStays
BY DEF ViewShape, ViewStays, Catalog!LibraryAsked

LEMMA RequestCollectionMine ==
  ASSUME NEW a, NEW h \in BOOLEAN, NavigationMine(a, h), ReadsMine(a, h), ViewShape,
         NEW c, NEW force, Catalog!RequestCollection(c, force)
  PROVE  NavigationMine(a, h)' /\ ReadsMine(a, h)' /\ ViewStays
<1>1. ViewStays
  BY DEF Catalog!RequestCollection, ViewShape, ViewStays
<1>2. CASE coll[c] # None /\ ~coll[c].stale /\ ~force
  <2> DEFINE G(r) == IF r = None THEN None
                     ELSE IF view.target = c THEN r ELSE Catalog!Demoted("collection", r)
  <2>1. /\ lanes' = [l \in Catalog!Lanes |-> G(lanes[l])]
        /\ queue' = [k \in Catalog!Kinds |-> G(queue[k])]
        /\ lane' = [k \in Reads |-> [lane[k] EXCEPT !.req = G(lane[k].req)]]
    BY <1>2 DEF Catalog!RequestCollection, Catalog!Each
  <2>2. ASSUME NEW r, Mine(r, a, h)
        PROVE  Mine(G(r), a, h)
    BY <2>2, TokensOwn DEF Mine
  <2> HIDE DEF G
  <2>3. NavigationMine(a, h)'
    BY <2>1, <2>2 DEF NavigationMine
  <2>4. lane' = [k \in Reads |-> [req |-> G(lane[k].req),
                                  refreshing |-> lane[k].refreshing,
                                  queued |-> lane[k].queued]]
    BY <2>1 DEF ReadsMine
  <2>5. ReadsMine(a, h)'
    BY <2>2, <2>4 DEF ReadsMine
  <2> QED
    BY <1>1, <2>3, <2>5
<1>3. CASE ~(coll[c] # None /\ ~coll[c].stale /\ ~force)
  <2>1. Catalog!Navigate("collection", c) /\ lane' = lane
    BY <1>3 DEF Catalog!RequestCollection
  <2>2. NavigationMine(a, h)'
    BY <2>1, NavigateMine
  <2>3. ReadsMine(a, h)'
    BY <2>1 DEF ReadsMine
  <2> QED
    BY <1>1, <2>2, <2>3
<1> QED
  BY <1>2, <1>3

LEMMA PumpMine ==
  ASSUME NEW a, NEW h \in BOOLEAN, NavigationMine(a, h), Catalog!PumpQueries
  PROVE  NavigationMine(a, h)'
<1> DEFINE free == {l \in Catalog!Lanes : lanes[l] = None}
           first == IF Catalog!Ready("collection") THEN "collection" ELSE "library"
           Start(k) == IF Catalog!Ready(k) THEN queue[k] ELSE None
<1>1. CASE free = {}
  BY <1>1 DEF Catalog!PumpQueries, NavigationMine
<1>2. CASE free # {}
  <2>1. Mine(Start("library"), a, h) /\ Mine(Start("collection"), a, h)
    BY DEF NavigationMine, Catalog!Kinds, Mine
  <2>2. Mine(Start(first), a, h)
    BY <2>1
  <2>3. \A l \in Catalog!Lanes : Mine(lanes'[l], a, h)
    <3> HIDE DEF Start, first
    <3>1. lanes' = [l \in Catalog!Lanes |-> IF l = Catalog!Least(free) THEN Start(first)
                          ELSE IF l \in free /\ first = "collection" THEN Start("library")
                          ELSE lanes[l]]
      BY <1>2 DEF Catalog!PumpQueries, Start, first
    <3> QED
      BY <2>1, <2>2, <3>1 DEF NavigationMine
  <2>4. \A k \in Catalog!Kinds : Mine(queue'[k], a, h)
    BY <1>2 DEF Catalog!PumpQueries, NavigationMine, Mine
  <2>5. lanes' = [l \in Catalog!Lanes |-> lanes'[l]] /\ queue' = [k \in Catalog!Kinds |-> queue'[k]]
    BY <1>2 DEF Catalog!PumpQueries
  <2> QED
    BY <2>3, <2>4, <2>5 DEF NavigationMine
<1> QED
  BY <1>1, <1>2

LEMMA RefreshedMine ==
  ASSUME NEW a, NEW h \in BOOLEAN, ReadsMine(a, h), NEW k \in Reads, NEW force
  PROVE  /\ Mine(Catalog!Refreshed(k, force).req, a, h)
         /\ Catalog!Refreshed(k, force) = [req |-> Catalog!Refreshed(k, force).req,
                                   refreshing |-> Catalog!Refreshed(k, force).refreshing,
                                   queued |-> Catalog!Refreshed(k, force).queued]
<1>1. CASE lane[k].refreshing \/ lane[k].req # None
  <2>1. Catalog!Refreshed(k, force) = [req |-> lane[k].req, refreshing |-> lane[k].refreshing,
                               queued |-> (lane[k].queued \/ force)]
    BY <1>1 DEF Catalog!Refreshed, ReadsMine
  <2> QED
    BY <2>1 DEF ReadsMine
<1>2. CASE ~(lane[k].refreshing \/ lane[k].req # None)
  <2>1. Catalog!Refreshed(k, force) = [req |-> Catalog!Issue(k, k), refreshing |-> TRUE, queued |-> FALSE]
    BY <1>2 DEF Catalog!Refreshed
  <2> QED
    BY <2>1, IssueOwn DEF Mine
<1> QED
  BY <1>1, <1>2

LEMMA RefreshMine ==
  ASSUME NEW a, NEW h \in BOOLEAN, ReadsMine(a, h), NEW k, NEW force,
         Catalog!Refresh(k, force)
  PROVE  ReadsMine(a, h)'
<1>1. lane = [j \in Reads |-> lane[j]]
  BY DEF ReadsMine
<1>2. lane' = [j \in Reads |-> IF j = k THEN Catalog!Refreshed(k, force) ELSE lane[j]]
  BY <1>1 DEF Catalog!Refresh
<1> QED
  BY <1>2, RefreshedMine DEF ReadsMine

LEMMA ReadFields ==
  ASSUME NEW e, NEW q, NEW b \in BOOLEAN,
         e = [req |-> e.req, refreshing |-> e.refreshing, queued |-> e.queued]
  PROVE  /\ [[e EXCEPT !.queued = b] EXCEPT !.req = q]
            = [req |-> q, refreshing |-> e.refreshing, queued |-> b]
         /\ [e EXCEPT !.refreshing = b]
            = [req |-> e.req, refreshing |-> b, queued |-> e.queued]
<1> DEFINE d == [e EXCEPT !.queued = b]
<1>1. d = [req |-> e.req, refreshing |-> e.refreshing, queued |-> b]
  OBVIOUS
<1>2. [e EXCEPT !.refreshing = b] = [req |-> e.req, refreshing |-> b, queued |-> e.queued]
  OBVIOUS
<1>3. [d EXCEPT !.req = q] = [req |-> q, refreshing |-> e.refreshing, queued |-> b]
  <2> HIDE DEF d
  <2> QED
    BY <1>1
<1> QED
  BY <1>2, <1>3

LEMMA BeginAgainMine ==
  ASSUME NEW a, NEW h \in BOOLEAN, ReadsMine(a, h), NEW k, Catalog!BeginAgain(k)
  PROVE  ReadsMine(a, h)'
<1>1. lane = [j \in Reads |-> lane[j]]
  BY DEF ReadsMine
<1>2. CASE Catalog!Active
  <2>1. lane' = [j \in Reads |-> IF j = k THEN [[lane[k] EXCEPT !.queued = FALSE]
                                                  EXCEPT !.req = Catalog!Issue(k, k)]
                                 ELSE lane[j]]
    BY <1>1, <1>2 DEF Catalog!BeginAgain
  <2>2. k \in Reads => [[lane[k] EXCEPT !.queued = FALSE] EXCEPT !.req = Catalog!Issue(k, k)]
                       = [req |-> Catalog!Issue(k, k), refreshing |-> lane[k].refreshing,
                          queued |-> FALSE]
    BY ReadFields DEF ReadsMine
  <2> QED
    BY <2>1, <2>2, IssueOwn DEF ReadsMine, Mine
<1>3. CASE ~Catalog!Active
  <2>1. lane' = [j \in Reads |-> IF j = k THEN [lane[k] EXCEPT !.refreshing = FALSE]
                                 ELSE lane[j]]
    BY <1>1, <1>3 DEF Catalog!BeginAgain
  <2>2. k \in Reads => [lane[k] EXCEPT !.refreshing = FALSE]
                       = [req |-> lane[k].req, refreshing |-> FALSE,
                          queued |-> lane[k].queued]
    BY ReadFields DEF ReadsMine
  <2> QED
    BY <2>1, <2>2 DEF ReadsMine
<1> QED
  BY <1>2, <1>3

\* An answer that has come to the read of a row.
LEMMA FinishRefreshMine ==
  ASSUME NEW a, NEW h \in BOOLEAN, NavigationMine(a, h), ReadsMine(a, h),
         NEW k \in Reads, Catalog!FinishRefresh(k)
  PROVE  NavigationMine(a, h)' /\ ReadsMine(a, h)'
<1> DEFINE r == lane[k].req
           current == Catalog!Active /\ r.sess
           outdated == current /\ (~r.res \/ r.old) /\ ~(k = "favorites" /\ Catalog!Failed(r))
           good == current /\ ~outdated /\ ~Catalog!Failed(r)
           again == Catalog!Active /\ (lane[k].queued \/ outdated)
           F(x) == IF x = r THEN None
                   ELSE IF good /\ k = "activity" THEN Catalog!Outrun(r.rev, x) ELSE x
           G(x) == IF x = None THEN None ELSE F(x)
<1>1. /\ lanes' = [l \in Catalog!Lanes |-> G(lanes[l])]
      /\ queue' = [q \in Catalog!Kinds |-> G(queue[q])]
      /\ lane' = [lane EXCEPT ![k] = Catalog!Ended(lane[k], again)]
  BY DEF Catalog!FinishRefresh
<1>2. ASSUME NEW x, Mine(x, a, h)
      PROVE  Mine(G(x), a, h)
  BY <1>2, TokensOwn DEF Mine
<1>3. NavigationMine(a, h)'
  <2> HIDE DEF G
  <2> QED
    BY <1>1, <1>2 DEF NavigationMine
<1>4. ReadsMine(a, h)'
  <2> HIDE DEF again
  <2>1. Catalog!Ended(lane[k], again) = [req |-> None, refreshing |-> (lane[k].refreshing /\ again),
                                 queued |-> FALSE]
    BY DEF Catalog!Ended
  <2>2. lane' = [j \in Reads |-> IF j = k THEN [req |-> None,
                                              refreshing |-> (lane[k].refreshing /\ again),
                                              queued |-> FALSE]
                                 ELSE lane[j]]
    BY <1>1, <2>1 DEF ReadsMine
  <2>3. \A j \in Reads \ {k} : /\ Mine(lane[j].req, a, h)
                              /\ lane[j] = [req |-> lane[j].req, refreshing |-> lane[j].refreshing,
                                            queued |-> lane[j].queued]
    BY DEF ReadsMine
  <2>4. Mine(None, a, h)
    BY DEF Mine
  <2> QED
    BY <2>2, <2>3, <2>4 DEF ReadsMine
<1> QED
  BY <1>3, <1>4

\* A call that was posted runs.
LEMMA RunMine ==
  ASSUME NEW a, NEW h \in BOOLEAN, NavigationMine(a, h), ReadsMine(a, h), ViewShape,
         NEW t, Catalog!Run(t)
  PROVE  NavigationMine(a, h)' /\ ReadsMine(a, h)' /\ ViewStays
<1>1. \/ Catalog!BeginAgain(CHOOSE k \in Reads : Catalog!Again(k) = t)
      \/ Catalog!Nothing
      \/ Catalog!PumpQueries /\ UNCHANGED <<view, lane>>
      \/ Catalog!LoadLibrary
      \/ /\ Catalog!Navigate("library", "library") /\ view' = Catalog!LibraryAsked
         /\ lane' = [k \in Reads |-> Catalog!Refreshed(k, TRUE)]
      \/ Catalog!RequestCollection(t, FALSE)
  BY Zenon DEF Catalog!Run
<1>2. UNCHANGED view => ViewStays
  BY DEF ViewShape, ViewStays
<1>3. UNCHANGED lane => ReadsMine(a, h)'
  BY DEF ReadsMine
<1>4. UNCHANGED <<lanes, queue>> => NavigationMine(a, h)'
  BY DEF NavigationMine
<1>5. CASE Catalog!BeginAgain(CHOOSE k \in Reads : Catalog!Again(k) = t)
  <2>1. UNCHANGED <<view, lanes, queue>>
    BY <1>5 DEF Catalog!BeginAgain
  <2> QED
    BY <1>2, <1>4, <1>5, <2>1, BeginAgainMine
<1>6. CASE Catalog!Nothing
  BY <1>2, <1>3, <1>4, <1>6 DEF Catalog!Nothing, Catalog!requests
<1>7. CASE Catalog!PumpQueries /\ UNCHANGED <<view, lane>>
  BY <1>2, <1>3, <1>7, PumpMine
<1>8. CASE Catalog!LoadLibrary
  <2>1. Catalog!Navigate("library", "library") /\ view' = Catalog!LibraryAsked /\ UNCHANGED lane
    BY <1>8 DEF Catalog!LoadLibrary
  <2> QED
    BY <1>3, <2>1, NavigateMine, LibraryAskedStays
<1>9. CASE /\ Catalog!Navigate("library", "library") /\ view' = Catalog!LibraryAsked
           /\ lane' = [k \in Reads |-> Catalog!Refreshed(k, TRUE)]
  <2>0. \A k \in Reads :
          /\ Mine(Catalog!Refreshed(k, TRUE).req, a, h)
          /\ Catalog!Refreshed(k, TRUE) = [req |-> Catalog!Refreshed(k, TRUE).req,
                                   refreshing |-> Catalog!Refreshed(k, TRUE).refreshing,
                                   queued |-> Catalog!Refreshed(k, TRUE).queued]
    BY RefreshedMine
  <2>1. ReadsMine(a, h)'
    BY <1>9, <2>0 DEF ReadsMine
  <2> QED
    BY <1>9, <2>1, NavigateMine, LibraryAskedStays
<1>10. CASE Catalog!RequestCollection(t, FALSE)
  BY <1>10, RequestCollectionMine
<1> QED
  BY <1>1, <1>5, <1>6, <1>7, <1>8, <1>9, <1>10

\* The calls of a page.
LEMMA CallMine ==
  ASSUME NEW a, NEW h \in BOOLEAN, NavigationMine(a, h), ReadsMine(a, h), ViewShape,
         Catalog!Call \/ Catalog!Heartbeat
  PROVE  NavigationMine(a, h)' /\ ReadsMine(a, h)' /\ ViewStays
<1>1. \/ \E c \in Collections, force \in BOOLEAN : Catalog!RequestCollection(c, force)
      \/ Catalog!LoadLibrary
      \/ \E k \in Reads : Catalog!Refresh(k, FALSE)
      \/ Catalog!Refresh("activity", FALSE)
  BY DEF Catalog!Call, Catalog!Heartbeat
<1>2. CASE \E c \in Collections, force \in BOOLEAN : Catalog!RequestCollection(c, force)
  BY <1>2, RequestCollectionMine
<1>3. CASE Catalog!LoadLibrary
  <2>1. Catalog!Navigate("library", "library") /\ view' = Catalog!LibraryAsked /\ UNCHANGED lane
    BY <1>3 DEF Catalog!LoadLibrary
  <2>2. ReadsMine(a, h)'
    BY <2>1 DEF ReadsMine
  <2> QED
    BY <2>1, <2>2, NavigateMine, LibraryAskedStays
<1>4. ASSUME NEW k, Catalog!Refresh(k, FALSE)
      PROVE  NavigationMine(a, h)' /\ ReadsMine(a, h)' /\ ViewStays
  <2>1. UNCHANGED <<view, lanes, queue>>
    BY <1>4 DEF Catalog!Refresh
  <2>2. NavigationMine(a, h)' /\ ViewStays
    BY <2>1 DEF NavigationMine, ViewShape, ViewStays
  <2> QED
    BY <1>4, <2>2, RefreshMine
<1> QED
  BY <1>1, <1>2, <1>3, <1>4

\* The catalog starts with nothing of any account.
THEOREM CatalogInit == Catalog!Init => CatalogInv
<1> SUFFICES ASSUME Catalog!Init
             PROVE  CatalogInv
  OBVIOUS
<1>1. PICK a \in Accounts : server = Catalog!Library(a) /\ view = Catalog!View(a)
  BY DEF Catalog!Init
<1>2. ServerShape /\ ViewShape /\ Home
  BY <1>1 DEF ServerShape, ViewShape, Home, IsOf, Catalog!Library, Catalog!View
<1>3. FieldsShape /\ OwnEntities
  BY DEF Catalog!Init, FieldsShape, OwnEntities, Catalog!NoEntity
<1>4. NavigationMine(view.of, Home)
  BY DEF Catalog!Init, NavigationMine, Mine
<1>5. ReadsMine(view.of, Home)
  BY DEF Catalog!Init, ReadsMine, Mine, Catalog!Idle
<1> QED
  BY <1>2, <1>3, <1>4, <1>5 DEF CatalogInv

\* The server takes a change: the accounts of its items stay.
LEMMA ServedChange ==
  ASSUME ServerShape, NEW i, NEW k, NEW v, NEW n,
         server' = [server EXCEPT ![i][Catalog!Op(k)] = v, ![i].n = n]
  PROVE  ServerShape' /\ \A j \in Items : server'[j].of = server[j].of
<1> DEFINE Entry(e) == e = [played |-> e.played, fav |-> e.fav, n |-> e.n, of |-> e.of]
           s == [server EXCEPT ![i] = [server[i] EXCEPT ![Catalog!Op(k)] = v]]
<1>1. server = [j \in Items |-> server[j]] /\ \A j \in Items : Entry(server[j])
  BY DEF ServerShape
<1>2. ASSUME NEW e, Entry(e)
      PROVE  LET d == [e EXCEPT ![Catalog!Op(k)] = v] IN Entry(d) /\ d.of = e.of
  <2>1. CASE k = "activity"
    <3> DEFINE d == [e EXCEPT !.played = v]
    <3>1. d = [played |-> v, fav |-> e.fav, n |-> e.n, of |-> e.of]
      BY <1>2
    <3>2. [e EXCEPT ![Catalog!Op(k)] = v] = d
      BY <2>1 DEF Catalog!Op
    <3> HIDE DEF d
    <3>3. Entry(d) /\ d.of = e.of
      BY <3>1
    <3> QED
      BY <3>2, <3>3
  <2>2. CASE k # "activity"
    <3> DEFINE d == [e EXCEPT !.fav = v]
    <3>1. d = [played |-> e.played, fav |-> v, n |-> e.n, of |-> e.of]
      BY <1>2
    <3>2. [e EXCEPT ![Catalog!Op(k)] = v] = d
      BY <2>2 DEF Catalog!Op
    <3> HIDE DEF d
    <3>3. Entry(d) /\ d.of = e.of
      BY <3>1
    <3> QED
      BY <3>2, <3>3
  <2> QED
    BY <2>1, <2>2
<1>3. ASSUME NEW e, Entry(e)
      PROVE  LET d == [e EXCEPT !.n = n] IN Entry(d) /\ d.of = e.of
  BY <1>3
<1>4. server' = [s EXCEPT ![i] = [s[i] EXCEPT !.n = n]]
  OBVIOUS
<1> HIDE DEF Entry
<1>5. s = [j \in Items |-> s[j]] /\ \A j \in Items : Entry(s[j]) /\ s[j].of = server[j].of
  BY <1>1, <1>2
<1> HIDE DEF s
<1>6. ASSUME NEW j \in Items
      PROVE  Entry(server'[j]) /\ server'[j].of = s[j].of
  <2>1. CASE j = i
    <3>1. server'[j] = [s[j] EXCEPT !.n = n]
      BY <1>4, <1>5, <2>1
    <3> QED
      BY <1>3, <1>5, <3>1
  <2>2. CASE j # i
    <3>1. server'[j] = s[j]
      BY <1>4, <1>5, <2>2
    <3> QED
      BY <1>5, <3>1
  <2> QED
    BY <2>1, <2>2
<1>7. server' = [j \in Items |-> server'[j]]
  BY <1>4, <1>5
<1> QED
  BY <1>5, <1>6, <1>7 DEF ServerShape, Entry

\* What a step in one account has to keep: the entities and the requests.
LEMMA StandsInv ==
  ASSUME CatalogInv, NEW a, a = view.of, NEW h \in BOOLEAN, h <=> Home,
         UNCHANGED server, ViewStays \/ UNCHANGED view,
         FieldsShape', \A i \in Items : fields'[i] # None => fields'[i].of = a,
         NavigationMine(a, h)', ReadsMine(a, h)'
  PROVE  CatalogInv'
<1>1. ViewShape' /\ view'.of = a /\ (view'.fenced <=> view.fenced)
  BY DEF CatalogInv, ViewStays, ViewShape
<1>2. Home' <=> h
  BY <1>1 DEF Home, IsOf
<1>3. ServerShape'
  BY DEF CatalogInv, ServerShape
<1>4. (Catalog!Active => Home)'
  BY <1>1, <1>2 DEF CatalogInv, Catalog!Active
<1>5. OwnEntities'
  BY <1>1 DEF OwnEntities
<1>6. NavigationMine(view.of, Home)' /\ ReadsMine(view.of, Home)'
  <2>1. Home' = h
    BY <1>2 DEF Home, IsOf
  <2> QED
    BY <1>1, <2>1
<1> QED
  BY <1>1, <1>3, <1>4, <1>5, <1>6 DEF CatalogInv

LEMMA RequestsInv ==
  ASSUME CatalogInv, NEW a, a = view.of, NEW h \in BOOLEAN, h <=> Home,
         UNCHANGED <<server, fields>>, ViewStays \/ UNCHANGED view,
         NavigationMine(a, h)', ReadsMine(a, h)'
  PROVE  CatalogInv'
<1>1. FieldsShape' /\ \A i \in Items : fields'[i] # None => fields'[i].of = a
  BY DEF CatalogInv, FieldsShape, OwnEntities
<1> QED
  BY <1>1, StandsInv

\* The invariant while a is committed, and h tells whether the backend is there.
InAccount(a, h) ==
  /\ a = view.of /\ h \in BOOLEAN /\ (h <=> Home)
  /\ ServerShape /\ ViewShape /\ FieldsShape /\ (Catalog!Active => h)
  /\ \A i \in Items : fields[i] # None => fields[i].of = a
  /\ NavigationMine(a, h) /\ ReadsMine(a, h)

LEMMA InvParts ==
  ASSUME CatalogInv
  PROVE  \E a, h : InAccount(a, h)
<1>1. Home \in BOOLEAN
  BY DEF Home, IsOf
<1> QED
  BY <1>1 DEF CatalogInv, OwnEntities, InAccount

\* The answer of a navigation lane: its entities are of the committed account.
LEMMA FinishNavigationInv ==
  ASSUME CatalogInv, NEW l \in Catalog!Lanes, Catalog!FinishNavigation(l)
  PROVE  CatalogInv'
<1> DEFINE r == lanes[l]
<1>1. PICK a, h : InAccount(a, h)
  BY InvParts
<1>2. /\ a = view.of /\ h \in BOOLEAN /\ (h <=> Home) /\ ViewShape /\ FieldsShape
      /\ (Catalog!Active => h) /\ \A i \in Items : fields[i] # None => fields[i].of = a
      /\ NavigationMine(a, h) /\ ReadsMine(a, h)
  BY <1>1 DEF InAccount
<1>3. r # None /\ r.data # None /\ Own(r, a, h) /\ server' = server
  BY <1>2 DEF Catalog!FinishNavigation, NavigationMine, Mine
<1>4. CASE ~(Catalog!Active /\ r.sess)
  <2>1. Catalog!FinishForeign(r)
    BY <1>4 DEF Catalog!FinishNavigation
  <2>2. NavigationMine(a, h)' /\ ReadsMine(a, h)'
    BY <1>2, <2>1, FinishedMine DEF Catalog!FinishForeign
  <2>3. view' = view /\ fields' = fields
    BY <2>1 DEF Catalog!FinishForeign, Catalog!store
  <2> QED
    BY <1>2, <1>3, <2>2, <2>3, RequestsInv
<1>5. CASE Catalog!Active /\ r.sess
  <2>1. Catalog!FinishOutdated(r) \/ Catalog!FinishFailed(r) \/ Catalog!FinishLibrary(r) \/ Catalog!FinishCollection(r)
    BY <1>5 DEF Catalog!FinishNavigation
  <2>2. \E rev, keys : Catalog!Finished(r, rev, keys)
    BY <2>1, Zenon DEF Catalog!FinishOutdated, Catalog!FinishFailed, Catalog!FinishLibrary, Catalog!FinishCollection
  <2>3. NavigationMine(a, h)' /\ ReadsMine(a, h)'
    BY <1>2, <2>2, FinishedMine
  <2>4. ViewStays
    BY <1>2, <2>1 DEF ViewShape, ViewStays, Catalog!FinishOutdated, Catalog!FinishFailed, Catalog!FinishLibrary,
                      Catalog!FinishCollection
  <2>5. fields' = fields \/ (~Catalog!Failed(r) /\ Catalog!Patch(Items, r.data))
    BY <2>1 DEF Catalog!FinishOutdated, Catalog!FinishFailed, Catalog!FinishLibrary, Catalog!FinishCollection, Catalog!store
  <2>6. FieldsShape' /\ \A i \in Items : fields'[i] # None => fields'[i].of = a
    <3>1. CASE fields' = fields
      BY <1>2, <3>1 DEF FieldsShape
    <3>2. CASE ~Catalog!Failed(r) /\ Catalog!Patch(Items, r.data)
      <4>1. IsOf(r.data, a)
        BY <1>2, <1>3, <1>5, <3>2 DEF Own, Catalog!Failed
      <4> QED
        BY <3>2, <4>1 DEF Catalog!Patch, IsOf, FieldsShape
    <3> QED
      BY <2>5, <3>1, <3>2
  <2> QED
    BY <1>2, <1>3, <2>3, <2>4, <2>6, StandsInv
<1> QED
  BY <1>4, <1>5

\* The answer of a read.
LEMMA FinishRefreshInv ==
  ASSUME CatalogInv, NEW k \in Reads, Catalog!FinishRefresh(k)
  PROVE  CatalogInv'
<1> DEFINE r == lane[k].req
<1>1. PICK a, h : InAccount(a, h)
  BY InvParts
<1>2. /\ a = view.of /\ h \in BOOLEAN /\ (h <=> Home) /\ ViewShape /\ FieldsShape
      /\ (Catalog!Active => h) /\ \A i \in Items : fields[i] # None => fields[i].of = a
      /\ NavigationMine(a, h) /\ ReadsMine(a, h)
  BY <1>1 DEF InAccount
<1>3. r # None /\ r.data # None /\ Own(r, a, h) /\ UNCHANGED <<server, view>>
  BY <1>2 DEF Catalog!FinishRefresh, ReadsMine, Mine
<1>4. NavigationMine(a, h)' /\ ReadsMine(a, h)'
  BY <1>2, FinishRefreshMine
<1>5. \/ fields' = fields
      \/ Catalog!Active /\ r.sess /\ ~Catalog!Failed(r) /\ Catalog!Patch(Catalog!Listed(k, r.data), r.data)
  BY DEF Catalog!FinishRefresh
<1>6. FieldsShape' /\ \A i \in Items : fields'[i] # None => fields'[i].of = a
  <2>1. CASE fields' = fields
    BY <1>2, <2>1 DEF FieldsShape
  <2>2. CASE Catalog!Active /\ r.sess /\ ~Catalog!Failed(r) /\ Catalog!Patch(Catalog!Listed(k, r.data), r.data)
    <3>1. IsOf(r.data, a)
      BY <1>2, <1>3, <2>2 DEF Own, Catalog!Failed
    <3> QED
      BY <1>2, <2>2, <3>1 DEF Catalog!Patch, IsOf, FieldsShape
  <2> QED
    BY <1>5, <2>1, <2>2
<1> QED
  BY <1>2, <1>3, <1>4, <1>6, StandsInv

\* Calls that were posted, and the calls of a page.
LEMMA CallsInv ==
  ASSUME CatalogInv, (\E t \in todo : Catalog!Run(t)) \/ Catalog!Call \/ Catalog!Heartbeat
  PROVE  CatalogInv'
<1>1. PICK a, h : InAccount(a, h)
  BY InvParts
<1>2. /\ a = view.of /\ h \in BOOLEAN /\ (h <=> Home) /\ ViewShape
      /\ NavigationMine(a, h) /\ ReadsMine(a, h)
  BY <1>1 DEF InAccount
<1>3. NavigationMine(a, h)' /\ ReadsMine(a, h)' /\ ViewStays
  <2>1. CASE \E t \in todo : Catalog!Run(t)
    BY <1>2, <2>1, RunMine
  <2>2. CASE Catalog!Call \/ Catalog!Heartbeat
    BY <1>2, <2>2, CallMine
  <2> QED
    BY <2>1, <2>2
<1>4. UNCHANGED <<server, fields>>
  BY DEF Catalog!Run, Catalog!Call, Catalog!Heartbeat
<1> QED
  BY <1>2, <1>3, <1>4, RequestsInv

\* The server answers with what it holds.
LEMMA ServedInv ==
  ASSUME CatalogInv, Catalog!Served
  PROVE  CatalogInv'
<1>1. PICK a, h : InAccount(a, h)
  BY InvParts
<1>2. /\ a = view.of /\ h \in BOOLEAN /\ (h <=> Home)
      /\ NavigationMine(a, h) /\ ReadsMine(a, h)
  BY <1>1 DEF InAccount
<1>3. ASSUME NEW q, Own(q, a, h), NEW r \in Catalog!Answered(q)
      PROVE  Own(r, a, h)
  <2>1. \E d : r = [q EXCEPT !.data = d] /\ (d = server \/ d = Lost)
    BY <1>3 DEF Catalog!Answered
  <2>2. PICK d : r = [q EXCEPT !.data = d] /\ (d = server \/ d = Lost)
    BY <2>1
  <2>3. r = [kind |-> q.kind, key |-> q.key, res |-> q.res, pres |-> q.pres,
             sess |-> q.sess, rev |-> q.rev, old |-> q.old, data |-> d]
    BY <1>3, <2>2 DEF Own, Shaped
  <2>4. Shaped(r) /\ r.data = d
    BY <2>3 DEF Shaped
  <2>5. h /\ d # Lost => IsOf(d, a)
    BY <1>2, <2>2 DEF Home
  <2> QED
    BY <2>4, <2>5 DEF Own
<1>4. CASE \E l \in Catalog!Lanes : Catalog!ServeNavigation(l)
  <2>0. PICK l \in Catalog!Lanes : Catalog!ServeNavigation(l)
    BY <1>4
  <2>1. PICK r \in Catalog!Answered(lanes[l]) :
          /\ lanes[l] # None /\ Catalog!Serve(lanes[l], r)
          /\ lanes' = [lanes EXCEPT ![l] = r] /\ lane' = lane
    BY <2>0 DEF Catalog!ServeNavigation
  <2>2. Own(r, a, h)
    BY <1>2, <1>3, <2>1 DEF NavigationMine, Mine
  <2>3. UNCHANGED <<server, view, fields, queue>>
    BY <2>1 DEF Catalog!Serve, Catalog!store
  <2>4. NavigationMine(a, h)' /\ ReadsMine(a, h)'
    BY <1>2, <2>1, <2>2, <2>3 DEF NavigationMine, ReadsMine, Mine
  <2> QED
    BY <1>2, <2>3, <2>4, RequestsInv
<1>5. CASE \E k \in Reads : Catalog!ServeRead(k)
  <2>0. PICK k \in Reads : Catalog!ServeRead(k)
    BY <1>5
  <2>1. PICK r \in Catalog!Answered(lane[k].req) :
          /\ lane[k].req # None /\ Catalog!Serve(lane[k].req, r)
          /\ lane' = [lane EXCEPT ![k].req = r] /\ lanes' = lanes
    BY <2>0 DEF Catalog!ServeRead
  <2>2. Own(r, a, h)
    BY <1>2, <1>3, <2>1 DEF ReadsMine, Mine
  <2>3. UNCHANGED <<server, view, fields, queue>>
    BY <2>1 DEF Catalog!Serve, Catalog!store
  <2>4. lane' = [j \in Reads |-> [req |-> IF j = k THEN r ELSE lane[j].req,
                                  refreshing |-> lane[j].refreshing,
                                  queued |-> lane[j].queued]]
    BY <1>2, <2>1 DEF ReadsMine
  <2>5. NavigationMine(a, h)' /\ ReadsMine(a, h)'
    BY <1>2, <2>1, <2>2, <2>3, <2>4 DEF NavigationMine, ReadsMine, Mine
  <2> QED
    BY <1>2, <2>3, <2>5, RequestsInv
<1> QED
  BY <1>4, <1>5 DEF Catalog!Served

\* The user's change begins, is refused, or is found rolled back.
LEMMA ChangeInv ==
  ASSUME CatalogInv, NEW i,
         \/ \E k \in Reads, v \in BOOLEAN : Catalog!BeginMutation(i, k, v)
         \/ Catalog!MutationFails(i) \/ Catalog!MutationSpeculative(i)
  PROVE  CatalogInv'
<1>1. PICK a, h : InAccount(a, h)
  BY InvParts
<1>2. /\ a = view.of /\ h \in BOOLEAN /\ (h <=> Home)
      /\ NavigationMine(a, h) /\ ReadsMine(a, h)
  BY <1>1 DEF InAccount
<1>3. (\E keys : Catalog!Invalidate(keys)) \/ UNCHANGED <<lanes, queue, lane>>
  BY Zenon DEF Catalog!BeginMutation, Catalog!MutationFails, Catalog!MutationSpeculative, Catalog!requests
<1>4. NavigationMine(a, h)' /\ ReadsMine(a, h)'
  <2>1. CASE \E keys : Catalog!Invalidate(keys)
    BY <1>2, <2>1, FinishedMine DEF Catalog!Invalidate
  <2>2. CASE UNCHANGED <<lanes, queue, lane>>
    BY <1>2, <2>2 DEF NavigationMine, ReadsMine
  <2> QED
    BY <1>3, <2>1, <2>2
<1>5. UNCHANGED <<server, view, fields>>
  BY DEF Catalog!BeginMutation, Catalog!MutationFails, Catalog!MutationSpeculative, Catalog!store
<1> QED
  BY <1>2, <1>4, <1>5, RequestsInv

\* A change succeeds: the entity is the server's, of the committed account.
LEMMA SucceedsInv ==
  ASSUME CatalogInv, NEW i \in Items, NEW whole \in BOOLEAN, Catalog!MutationSucceeds(i, whole)
  PROVE  CatalogInv'
<1>1. PICK a, h : InAccount(a, h)
  BY InvParts
<1>2. /\ a = view.of /\ h \in BOOLEAN /\ (h <=> Home) /\ (Catalog!Active => h)
      /\ FieldsShape /\ \A j \in Items : fields[j] # None => fields[j].of = a
      /\ NavigationMine(a, h) /\ ReadsMine(a, h)
  BY <1>1 DEF InAccount
<1>3. \E keys : Catalog!Invalidate(keys)
  BY Zenon DEF Catalog!MutationSucceeds
<1>4. NavigationMine(a, h)' /\ ReadsMine(a, h)'
  BY <1>2, <1>3, FinishedMine DEF Catalog!Invalidate
<1>5. Catalog!Active /\ UNCHANGED <<server, view>> /\ fields' = [fields EXCEPT ![i] = server[i]]
  BY DEF Catalog!MutationSucceeds
<1>6. server[i].of = a
  BY <1>2, <1>5 DEF Home, IsOf
<1>7. FieldsShape' /\ \A j \in Items : fields'[j] # None => fields'[j].of = a
  BY <1>2, <1>5, <1>6 DEF FieldsShape
<1> QED
  BY <1>2, <1>4, <1>5, <1>7, StandsInv

\* The server takes a change, or refuses it.
LEMMA ServeMutationInv ==
  ASSUME CatalogInv, NEW i, Catalog!ServeMutation(i)
  PROVE  CatalogInv'
<1>1. PICK a, h : InAccount(a, h)
  BY InvParts
<1>2. /\ a = view.of /\ h \in BOOLEAN /\ (h <=> Home) /\ (Catalog!Active => h)
      /\ ServerShape /\ ViewShape /\ FieldsShape
      /\ \A j \in Items : fields[j] # None => fields[j].of = a
      /\ NavigationMine(a, h) /\ ReadsMine(a, h)
  BY <1>1 DEF InAccount
<1>3. UNCHANGED <<view, fields, lanes, queue, lane>>
  BY DEF Catalog!ServeMutation, Catalog!store, Catalog!requests
<1>4. \/ server' = server
      \/ server' = [server EXCEPT ![i][Catalog!Op(mutation[i].kind)] = mutation[i].value,
                                  ![i].n = @ + 1]
  BY DEF Catalog!ServeMutation
<1>5. ServerShape' /\ \A j \in Items : server'[j].of = server[j].of
  <2>1. CASE server' = server
    <3>1. ServerShape'
      BY <1>2, <2>1 DEF ServerShape
    <3> QED
      BY <2>1, <3>1
  <2>2. CASE server' = [server EXCEPT ![i][Catalog!Op(mutation[i].kind)] = mutation[i].value,
                                      ![i].n = @ + 1]
    <3>1. ServerShape
      BY <1>2
    <3> QED
      BY <2>2, <3>1, ServedChange, Zenon
  <2> QED
    BY <1>4, <2>1, <2>2
<1>6. Home' <=> h
  BY <1>2, <1>3, <1>5 DEF Home, IsOf
<1>7. Home' = h
  BY <1>2, <1>6 DEF Home, IsOf
<1>8. ViewShape' /\ FieldsShape' /\ (Catalog!Active => Home)' /\ OwnEntities'
  BY <1>2, <1>3, <1>7 DEF ViewShape, FieldsShape, Catalog!Active, OwnEntities
<1>9. NavigationMine(view.of, Home)' /\ ReadsMine(view.of, Home)'
  BY <1>2, <1>3, <1>7 DEF NavigationMine, ReadsMine
<1> QED
  BY <1>5, <1>8, <1>9 DEF CatalogInv

\* A transition starts: the view is fenced, requests lose tokens or are dropped.
LEMMA TransitionStartsInv ==
  ASSUME CatalogInv, Catalog!TransitionStarts
  PROVE  CatalogInv'
<1>1. PICK a, h : InAccount(a, h)
  BY InvParts
<1>2. /\ a = view.of /\ h \in BOOLEAN /\ (h <=> Home)
      /\ ServerShape /\ ViewShape /\ FieldsShape
      /\ \A j \in Items : fields[j] # None => fields[j].of = a
      /\ NavigationMine(a, h) /\ ReadsMine(a, h)
  BY <1>1 DEF InAccount
<1> DEFINE F(r) == IF r = None THEN None ELSE [Catalog!Invalid(known, r) EXCEPT !.pres = FALSE]
           G(r) == IF r = None THEN None ELSE Catalog!Invalid(known, r)
<1>3. /\ lanes' = [l \in Catalog!Lanes |-> F(lanes[l])] /\ queue' = [k \in Catalog!Kinds |-> None]
      /\ lane' = [k \in Reads |-> [req |-> G(lane[k].req), refreshing |-> FALSE,
                                   queued |-> FALSE]]
      /\ UNCHANGED <<server, fields>> /\ view' = [view EXCEPT !.fenced = TRUE]
  BY DEF Catalog!TransitionStarts
<1>4. ASSUME NEW r, Mine(r, a, h)
      PROVE  Mine(F(r), a, h) /\ Mine(G(r), a, h)
  <2>1. CASE r = None
    BY <2>1 DEF Mine
  <2>2. CASE r # None
    <3>1. Own(Catalog!Invalid(known, r), a, h)
      BY <1>2, <1>4, <2>2, TokensOwn DEF Mine
    <3>2. Own([Catalog!Invalid(known, r) EXCEPT !.pres = FALSE], a, h)
      BY <1>2, <3>1, TokensOwn
    <3> QED
      BY <2>2, <3>1, <3>2 DEF Mine
  <2> QED
    BY <2>1, <2>2
<1> HIDE DEF F, G
<1>5. NavigationMine(a, h)' /\ ReadsMine(a, h)'
  BY <1>2, <1>3, <1>4 DEF NavigationMine, ReadsMine, Mine
<1>6. ViewShape' /\ view'.of = a /\ ~Catalog!Active'
  BY <1>2, <1>3 DEF ViewShape, Catalog!Active
<1>7. Home' = h
  BY <1>2, <1>3, <1>6 DEF Home, IsOf
<1>8. ServerShape' /\ FieldsShape' /\ OwnEntities'
  BY <1>2, <1>3, <1>6 DEF ServerShape, FieldsShape, OwnEntities
<1>9. NavigationMine(view.of, Home)' /\ ReadsMine(view.of, Home)'
  BY <1>5, <1>6, <1>7
<1> QED
  BY <1>6, <1>8, <1>9 DEF CatalogInv

\* A transition is given up: the backend is back in the committed account.
LEMMA TransitionAbortsInv ==
  ASSUME CatalogInv, Catalog!TransitionAborts
  PROVE  CatalogInv'
<1>1. PICK a, h : InAccount(a, h)
  BY InvParts
<1>2. /\ a = view.of /\ h \in BOOLEAN /\ (h <=> Home)
      /\ ServerShape /\ ViewShape /\ FieldsShape
      /\ \A j \in Items : fields[j] # None => fields[j].of = a
      /\ NavigationMine(a, h) /\ ReadsMine(a, h)
  BY <1>1 DEF InAccount
<1>3. /\ server = [i \in Items |-> [server[i] EXCEPT !.of = view.of]]
      /\ view' = [view EXCEPT !.fenced = FALSE]
      /\ UNCHANGED <<server, fields, lanes, queue, lane>>
  BY DEF Catalog!TransitionAborts, Catalog!store, Catalog!requests
<1>4. Home
  <2>1. ASSUME NEW i \in Items PROVE server[i].of = view.of
    <3>1. "of" \in DOMAIN server[i]
      BY <1>2, <2>1 DEF ServerShape
    <3>2. server[i] = [server[i] EXCEPT !.of = view.of]
      BY <1>3, <2>1
    <3> QED
      BY <3>1, <3>2
  <2> QED
    BY <2>1 DEF Home, IsOf
<1>5. ViewShape' /\ view'.of = a
  BY <1>2, <1>3 DEF ViewShape
<1>6. Home' /\ Home' = h
  BY <1>2, <1>3, <1>4, <1>5 DEF Home, IsOf
<1>7. ServerShape' /\ FieldsShape' /\ OwnEntities'
  BY <1>2, <1>3, <1>5 DEF ServerShape, FieldsShape, OwnEntities
<1>8. NavigationMine(a, h)' /\ ReadsMine(a, h)'
  BY <1>2, <1>3 DEF NavigationMine, ReadsMine
<1>9. NavigationMine(view.of, Home)' /\ ReadsMine(view.of, Home)'
  BY <1>5, <1>6, <1>8
<1> QED
  BY <1>5, <1>6, <1>7, <1>9 DEF CatalogInv

\* The backend enters another account, behind the fence.
LEMMA AccountEnteredInv ==
  ASSUME CatalogInv, Catalog!AccountEntered
  PROVE  CatalogInv'
<1>1. /\ view.fenced /\ Home /\ UNCHANGED <<view, fields, lanes, queue, lane>>
      /\ \E b : server' = Catalog!Library(b)
  BY DEF Catalog!AccountEntered, Home, IsOf, Catalog!store, Catalog!requests
<1>2. ServerShape' /\ ViewShape' /\ FieldsShape' /\ ~Catalog!Active' /\ OwnEntities'
  BY <1>1 DEF CatalogInv, ServerShape, ViewShape, FieldsShape, Catalog!Active, OwnEntities, Catalog!Library
<1>3. NavigationMine(view.of, TRUE) /\ ReadsMine(view.of, TRUE)
  <2>1. Home = TRUE
    BY <1>1 DEF Home, IsOf
  <2> QED
    BY <2>1 DEF CatalogInv
<1>4. ASSUME NEW h, NEW r, Mine(r, view.of, TRUE)
      PROVE  Mine(r, view.of, h)
  BY <1>4 DEF Mine, Own
<1>5. NavigationMine(view.of, Home') /\ ReadsMine(view.of, Home')
  BY <1>3, <1>4 DEF NavigationMine, ReadsMine
<1>6. NavigationMine(view.of, Home)' /\ ReadsMine(view.of, Home)'
  BY <1>1, <1>5 DEF NavigationMine, ReadsMine
<1> QED
  BY <1>2, <1>6 DEF CatalogInv

\* The token of another account.
LEMMA ForeignOwn ==
  ASSUME NEW r, Shaped(r)
  PROVE  Catalog!Foreign(r) = [kind |-> r.kind, key |-> r.key, res |-> FALSE, pres |-> FALSE,
                       sess |-> FALSE, rev |-> 0, old |-> FALSE, data |-> r.data]
<1>1. ASSUME NEW e \in BOOLEAN
      PROVE  [r EXCEPT !.sess = e, !.pres = e, !.res = e, !.rev = 0, !.old = e]
             = [kind |-> r.kind, key |-> r.key, res |-> e, pres |-> e, sess |-> e,
                rev |-> 0, old |-> e, data |-> r.data]
  <2> DEFINE f == [r EXCEPT !.sess = e, !.pres = e, !.res = e, !.rev = 0, !.old = e]
  <2>1. DOMAIN f = {"kind", "key", "res", "pres", "sess", "rev", "old", "data"}
    BY DEF Shaped
  <2>2. /\ f["kind"] = r.kind /\ f["key"] = r.key /\ f["data"] = r.data /\ f["rev"] = 0
    BY DEF Shaped
  <2>3. /\ f["res"] = e /\ f["pres"] = e /\ f["sess"] = e /\ f["old"] = e
    BY DEF Shaped
  <2>4. f = [x \in DOMAIN f |-> f[x]]
    OBVIOUS
  <2> HIDE DEF f
  <2>5. f = [kind |-> f["kind"], key |-> f["key"], res |-> f["res"], pres |-> f["pres"],
             sess |-> f["sess"], rev |-> f["rev"], old |-> f["old"], data |-> f["data"]]
    BY <2>1, <2>4
  <2>6. f = [kind |-> r.kind, key |-> r.key, res |-> e, pres |-> e, sess |-> e,
             rev |-> 0, old |-> e, data |-> r.data]
    BY <2>2, <2>3, <2>5
  <2> QED
    BY <2>6 DEF f
<1> QED
  BY <1>1 DEF Catalog!Foreign

\* The other account is committed: the store is empty, no request keeps its session.
LEMMA SessionCommittedInv ==
  ASSUME CatalogInv, Catalog!SessionCommitted
  PROVE  CatalogInv'
<1>1. PICK a, h : InAccount(a, h)
  BY InvParts
<1>2. ServerShape /\ NavigationMine(a, h) /\ ReadsMine(a, h)
  BY <1>1 DEF InAccount
<1>3. PICK b : (\A i \in Items : server[i].of = b) /\ view' = Catalog!View(b)
  BY DEF Catalog!SessionCommitted
<1>4. UNCHANGED server /\ fields' = Catalog!NoEntity /\ Catalog!Each(Catalog!Foreign)
  BY DEF Catalog!SessionCommitted
<1>5. ServerShape' /\ ViewShape' /\ FieldsShape' /\ Home' /\ OwnEntities'
  BY <1>2, <1>3, <1>4 DEF ServerShape, ViewShape, FieldsShape, Home, IsOf, OwnEntities,
                          Catalog!View, Catalog!NoEntity
<1> DEFINE G(r) == IF r = None THEN None ELSE Catalog!Foreign(r)
<1>6. /\ lanes' = [l \in Catalog!Lanes |-> G(lanes[l])]
      /\ queue' = [k \in Catalog!Kinds |-> G(queue[k])]
      /\ lane' = [k \in Reads |-> [lane[k] EXCEPT !.req = G(lane[k].req)]]
  BY <1>4 DEF Catalog!Each
<1>7. ASSUME NEW r, Mine(r, a, h)
      PROVE  Mine(G(r), b, TRUE)
  <2>1. CASE r = None
    BY <2>1 DEF Mine
  <2>2. CASE r # None
    <3>1. Catalog!Foreign(r) = [kind |-> r.kind, key |-> r.key, res |-> FALSE, pres |-> FALSE,
                        sess |-> FALSE, rev |-> 0, old |-> FALSE, data |-> r.data]
      BY <1>7, <2>2, ForeignOwn DEF Mine, Own
    <3>2. Shaped(Catalog!Foreign(r)) /\ ~Catalog!Foreign(r).sess
      BY <3>1 DEF Shaped
    <3> QED
      BY <2>2, <3>2 DEF Mine, Own
  <2> QED
    BY <2>1, <2>2
<1> HIDE DEF G
<1>8. NavigationMine(b, TRUE)'
  BY <1>2, <1>6, <1>7 DEF NavigationMine
<1>9. ReadsMine(b, TRUE)'
  <2>1. lane' = [k \in Reads |-> [req |-> G(lane[k].req),
                                  refreshing |-> lane[k].refreshing,
                                  queued |-> lane[k].queued]]
    BY <1>2, <1>6 DEF ReadsMine
  <2> QED
    BY <1>2, <1>7, <2>1 DEF ReadsMine
<1>10. view'.of = b /\ Home' = TRUE
  BY <1>3, <1>5 DEF Catalog!View, Home, IsOf
<1>11. NavigationMine(view.of, Home)' /\ ReadsMine(view.of, Home)'
  BY <1>8, <1>9, <1>10
<1> QED
  BY <1>5, <1>11 DEF CatalogInv

\* The process starts again: no request is in flight.
LEMMA RestartInv ==
  ASSUME CatalogInv, Catalog!Restart
  PROVE  CatalogInv'
<1>1. PICK a, h : InAccount(a, h)
  BY InvParts
<1>2. /\ a = view.of /\ h \in BOOLEAN /\ (h <=> Home) /\ (Catalog!Active => h)
      /\ ServerShape /\ ViewShape /\ FieldsShape
      /\ \A j \in Items : fields[j] # None => fields[j].of = a
  BY <1>1 DEF InAccount
<1>3. NavigationMine(a, h)' /\ ReadsMine(a, h)'
  BY DEF Catalog!Restart, NavigationMine, ReadsMine, Mine, Catalog!Idle
<1>4. UNCHANGED <<server, fields>> /\ ViewStays
  BY DEF Catalog!Restart, Catalog!View, ViewStays, ViewShape, Catalog!Active
<1> QED
  BY <1>2, <1>3, <1>4, RequestsInv

\* Every step keeps the invariant.
THEOREM CatalogNext == CatalogInv /\ [Catalog!Next]_(Catalog!vars) => CatalogInv'
<1> SUFFICES ASSUME CatalogInv, [Catalog!Next]_(Catalog!vars)
             PROVE  CatalogInv'
  OBVIOUS
<1>1. CASE Catalog!Posted \/ Catalog!Call \/ Catalog!Heartbeat
  BY <1>1, CallsInv DEF Catalog!Posted
<1>2. CASE Catalog!Served
  BY <1>2, ServedInv
<1>3. CASE Catalog!Answer
  BY <1>3, FinishNavigationInv, FinishRefreshInv DEF Catalog!Answer
<1>4. CASE Catalog!AnswerMutation
  BY <1>4, ChangeInv, ServeMutationInv, SucceedsInv DEF Catalog!AnswerMutation
<1>5. CASE Catalog!Transition
  BY <1>5, AccountEnteredInv, SessionCommittedInv, TransitionAbortsInv DEF Catalog!Transition
<1>6. CASE Catalog!TransitionStarts \/ Catalog!Restart
  BY <1>6, TransitionStartsInv, RestartInv
<1>7. CASE \E i \in Items, k \in Reads, v \in BOOLEAN : Catalog!BeginMutation(i, k, v)
  BY <1>7, ChangeInv
<1>8. CASE UNCHANGED Catalog!vars
  <2>1. UNCHANGED <<server, view, fields, lanes, queue, lane>>
    BY <1>8 DEF Catalog!vars, Catalog!store, Catalog!requests
  <2> QED
    BY <2>1 DEF CatalogInv, ServerShape, ViewShape, FieldsShape, Catalog!Active, Home, IsOf,
                OwnEntities, NavigationMine, ReadsMine
<1> QED
  BY <1>1, <1>2, <1>3, <1>4, <1>5, <1>6, <1>7, <1>8 DEF Catalog!Next, Catalog!Progress

(* What is shown in a session that goes on was read from its account: the   *)
(* fence, the tokens and the emptied store of a commit suffice.             *)
THEOREM ShownStaysOfSession == Catalog!Spec => []ShownIsOfSession
<1>1. CatalogInv => ShownIsOfSession
  BY DEF CatalogInv, OwnEntities, ShownIsOfSession, Catalog!ShownIsOfSession
<1> QED
  BY <1>1, CatalogInit, CatalogNext, PTL DEF Catalog!Spec
-----------------------------------------------------------------------------
(* Reports. *)

Proofs == INSTANCE PlaybackCoordinatorProofs
            WITH playback <- playing, issued <- given, stopped <- heard

(* The proof for PlaybackReporting, applied to the reports of this run:       *)
(* report_playback never refuses the Stopped report of a session since which *)
(* nothing but switches has been asked for.                                  *)
THEOREM StoppedAlwaysArrives == Proofs!ReportingSpec => []StoppedFindsPlayback
<1>1. /\ MaxRequests \in Nat
      /\ MaxGeneration \in Nat
      /\ QueueBound \in Nat
      /\ None \notin ReportSessions
      /\ None \notin Proofs!Reports
  BY ReportsAssumption
  DEF Reporting!Reports, Proofs!Reports, Reporting!Events, Proofs!Events
<1>2. Proofs!ReportingSpec => []Proofs!StoppedFindsPlayback
  BY <1>1, Proofs!StoppedReportsArrive, PTL
<1>3. Proofs!StoppedFindsPlayback => StoppedFindsPlayback
  BY DEF StoppedFindsPlayback, Proofs!StoppedFindsPlayback, Reporting!StoppedFindsPlayback
<1> QED
  BY <1>2, <1>3, PTL
=============================================================================
