------------------------ MODULE PlaybackCoordinator ------------------------
(***************************************************************************)
(* native/PlaybackCoordinator.cpp with native/PlaybackReportQueue.cpp: the    *)
(* latest-wins preparation lane, the ordered report lane, and the switch that *)
(* waits in between until a Stopped report has been delivered.               *)
(* Every action is one turn of the UI event loop (a port call, a delivered    *)
(* QFutureWatcher::finished, a fired timer) or the end of a worker's job.     *)
(* Generations and serials are modelled by the request that holds the         *)
(* current one: a token is current until another call takes or drops it.      *)
(***************************************************************************)
EXTENDS Naturals, Sequences, FiniteSets

CONSTANTS MaxRequests,     \* bound on the preparation calls of a behaviour
          ReportSessions,  \* report session identifiers
          MaxGeneration,   \* bound on committed session transitions
          QueueBound,      \* bound on m_reportQueue
          None             \* no report, no report session

NoRequest == 0
Requests  == 1..MaxRequests
Events    == {"Started", "Progress", "Stopped"}
Reports   == [event : Events, of : ReportSessions, generation : 0..MaxGeneration]

ASSUME PlaybackAssumption ==
  /\ MaxRequests \in Nat
  /\ MaxGeneration \in Nat
  /\ QueueBound \in Nat
  /\ None \notin ReportSessions
  /\ None \notin Reports

VARIABLES
  session,          \* what m_sessionStateProvider returns: generation, connected
  fenced,           \* m_sessionFenced
  shuttingDown,     \* m_shuttingDown
  called,           \* number of preparation calls made, the next request's name
  latest,           \* request whose token is the newest of the preparation lane
  latestGeneration, \* sessionGeneration of that token
  activePrepare,    \* m_activePrepare
  queuedPrepare,    \* m_queuedPrepare
  prepareJob,       \* request the future of m_prepareWatcher was started for
  prepareDone,      \* that future has finished and its event is not delivered
  afterStop,        \* m_afterStop
  afterStopOf,      \* m_afterStop->reportSessionId
  afterStopSerial,  \* request that holds m_afterStopSerial
  timers,           \* requests inside a scheduled zero timer
  reportQueue,      \* m_reportQueue
  activeReport,     \* m_activeReport while m_reportInFlight
  reportDone,       \* its future has finished and its event is not delivered
  outcome           \* number of ready and failed signals per request
sessionVars == <<session, fenced, shuttingDown>>
laneVars    == <<latest, latestGeneration, activePrepare, queuedPrepare,
                 prepareJob, prepareDone>>
switchVars  == <<afterStop, afterStopOf, afterStopSerial, timers>>
reportVars  == <<reportQueue, activeReport, reportDone>>
vars == <<sessionVars, called, laneVars, switchVars, reportVars, outcome>>

Init ==
  /\ session \in [generation : {0}, connected : BOOLEAN]
  /\ fenced = FALSE /\ shuttingDown = FALSE
  /\ called = 0
  /\ latest = NoRequest /\ latestGeneration = 0
  /\ activePrepare = NoRequest /\ queuedPrepare = NoRequest
  /\ prepareJob = NoRequest /\ prepareDone = FALSE
  /\ afterStop = NoRequest /\ afterStopOf = None
  /\ afterStopSerial = NoRequest /\ timers = {}
  /\ reportQueue = <<>> /\ activeReport = None /\ reportDone = FALSE
  /\ outcome = [r \in Requests |-> 0]

(* m_runtime.ready() does not change between initialisation and shutdown. *)
Available == ~shuttingDown /\ ~fenced /\ session.connected
AcceptsLatest(r) == r = latest /\ latestGeneration = session.generation
PrepareRunning == prepareJob # NoRequest /\ ~prepareDone

(* The ready and failed signals of one turn, for at most three requests. *)
Hit(h, r) == IF h = r THEN 1 ELSE 0
Settle(a, b, c) ==
  outcome' = [r \in Requests |-> outcome[r] + Hit(a, r) + Hit(b, r) + Hit(c, r)]
-----------------------------------------------------------------------------
(* The preparation lane. *)

StartPrepare(r) ==
  /\ activePrepare' = r
  /\ prepareJob' = r /\ prepareDone' = FALSE  \* setFuture drops an older result

(* submitPrepare: the newest request takes the lane at once when no worker    *)
(* runs, or the single place behind it.  The caller's superseded switch is    *)
(* told in the same turn.                                                    *)
SubmitPrepare(r) ==
  /\ latest' = r /\ latestGeneration' = session.generation
  /\ \/ /\ activePrepare # NoRequest \/ PrepareRunning
        /\ activePrepare' = NoRequest
        /\ queuedPrepare' = r
        /\ UNCHANGED <<prepareJob, prepareDone>>
        /\ Settle(afterStop, activePrepare, queuedPrepare)
     \/ /\ activePrepare = NoRequest /\ ~PrepareRunning
        /\ StartPrepare(r)
        /\ UNCHANGED queuedPrepare
        /\ Settle(afterStop, NoRequest, NoRequest)

InvalidateAfterStop ==
  /\ afterStop' = NoRequest /\ afterStopOf' = None
  /\ afterStopSerial' = NoRequest

PrepareInContext(r, validItem) ==
  /\ InvalidateAfterStop
  /\ \/ /\ Available /\ validItem
        /\ SubmitPrepare(r)
     \/ /\ ~(Available /\ validItem)
        /\ Settle(r, afterStop, NoRequest)
        /\ UNCHANGED laneVars
  /\ UNCHANGED <<sessionVars, reportVars>>

Prepare(validItem) ==
  /\ called < MaxRequests
  /\ called' = called + 1
  /\ PrepareInContext(called + 1, validItem)
  /\ UNCHANGED timers

PrepareWorkerDone ==
  /\ PrepareRunning
  /\ prepareDone' = TRUE
  /\ UNCHANGED <<sessionVars, called, latest, latestGeneration, activePrepare,
                 queuedPrepare, prepareJob, switchVars, reportVars, outcome>>

(* Slip: the queue is not pumped. *)
FinishPrepareWithoutPump ==
  /\ prepareDone
  /\ IF Available /\ AcceptsLatest(activePrepare)
     THEN Settle(activePrepare, NoRequest, NoRequest)
     ELSE UNCHANGED outcome
  /\ activePrepare' = NoRequest
  /\ prepareJob' = NoRequest /\ prepareDone' = FALSE
  /\ UNCHANGED <<sessionVars, called, queuedPrepare, latest, latestGeneration,
                 switchVars, reportVars>>

(* finishPrepare with pumpPrepare: ready and failed are one signal here.  A   *)
(* queued request that is no longer the newest is dropped without a signal.   *)
FinishPrepare ==
  /\ prepareDone
  /\ IF Available /\ AcceptsLatest(activePrepare)
     THEN Settle(activePrepare, NoRequest, NoRequest)
     ELSE UNCHANGED outcome
  /\ \/ /\ ~shuttingDown /\ ~fenced /\ queuedPrepare # NoRequest
        /\ queuedPrepare' = NoRequest
        /\ \/ /\ Available /\ AcceptsLatest(queuedPrepare)
              /\ StartPrepare(queuedPrepare)
           \/ /\ ~(Available /\ AcceptsLatest(queuedPrepare))
              /\ activePrepare' = NoRequest
              /\ prepareJob' = NoRequest /\ prepareDone' = FALSE
     \/ /\ shuttingDown \/ fenced \/ queuedPrepare = NoRequest
        /\ activePrepare' = NoRequest
        /\ prepareJob' = NoRequest /\ prepareDone' = FALSE
        /\ UNCHANGED queuedPrepare
  /\ UNCHANGED <<sessionVars, called, latest, latestGeneration, switchVars, reportVars>>

(* resetPreparation: the lane, the deferred switch and its serial. *)
ResetPreparation ==
  /\ latest' = NoRequest
  /\ activePrepare' = NoRequest /\ queuedPrepare' = NoRequest
  /\ InvalidateAfterStop
  /\ Settle(afterStop, queuedPrepare, activePrepare)
  /\ UNCHANGED <<latestGeneration, prepareJob, prepareDone, timers>>

CancelPreparation ==
  /\ ResetPreparation
  /\ UNCHANGED <<sessionVars, called, reportVars>>
-----------------------------------------------------------------------------
(* The report lane. *)

(* What keeps its place when reports are erased from the queue moves up to     *)
(* its rank among what is kept.                                              *)
Rank(kept, i) == Cardinality({j \in kept : j <= i})
Without(queue, gone) ==
  LET kept == DOMAIN queue \ gone
  IN [n \in 1..Cardinality(kept) |-> queue[CHOOSE i \in kept : Rank(kept, i) = n]]

(* Slip: a Stopped report replaces everything that waits for its session. *)
CoalesceAll(queue, rep) ==
  LET Superseded(q) == /\ rep.event = "Stopped" \/ q.event = "Progress"
                       /\ rep.event \in {"Progress", "Stopped"}
                       /\ q.of = rep.of
  IN Append(Without(queue, {i \in DOMAIN queue : Superseded(queue[i])}), rep)

(* enqueueReport: a Progress or Stopped report replaces the waiting Progress  *)
(* reports of its report session.                                            *)
Coalesce(queue, rep) ==
  LET Superseded(q) == /\ rep.event \in {"Progress", "Stopped"}
                       /\ q.event = "Progress"
                       /\ q.of = rep.of
  IN Append(Without(queue, {i \in DOMAIN queue : Superseded(queue[i])}), rep)

BelongsToSession(rep) == Available /\ rep.generation = session.generation

(* startNextReport on a queue: reports of other sessions go, and the oldest   *)
(* of the rest starts when the lane is open.                                 *)
StartNextReport(queue, open) ==
  LET foreign == {i \in DOMAIN queue : ~BelongsToSession(queue[i])}
      mine    == Without(queue, foreign)
  IN
  \/ /\ open /\ mine # <<>>
     /\ activeReport' = Head(mine)
     /\ reportQueue' = Tail(mine)
     /\ reportDone' = FALSE
  \/ /\ open /\ mine = <<>>
     /\ activeReport' = None
     /\ reportQueue' = <<>>
     /\ reportDone' = FALSE
  \/ /\ ~open
     /\ reportQueue' = mine
     /\ UNCHANGED <<activeReport, reportDone>>

Report(event, of) ==
  /\ Available
  /\ Len(reportQueue) < QueueBound
  /\ StartNextReport(
       Coalesce(reportQueue, [event |-> event, of |-> of,
                              generation |-> session.generation]),
       activeReport = None)
  /\ UNCHANGED <<sessionVars, called, laneVars, switchVars, outcome>>

ReportWorkerDone ==
  /\ activeReport # None
  /\ ~reportDone
  /\ reportDone' = TRUE
  /\ UNCHANGED <<sessionVars, called, laneVars, switchVars, reportQueue,
                 activeReport, outcome>>

(* The finished report is the Stopped report the deferred switch waits for. *)
ReleasesSwitch ==
  /\ activeReport.event = "Stopped"
  /\ BelongsToSession(activeReport)
  /\ afterStop # NoRequest
  /\ afterStopOf = activeReport.of

(* Whether the report reached the server makes no difference here. *)
FinishReport ==
  /\ reportDone
  /\ StartNextReport(reportQueue, TRUE)
  /\ \/ /\ ReleasesSwitch
        /\ afterStop' = NoRequest /\ afterStopOf' = None
        /\ timers' = timers \cup {afterStop}
     \/ /\ ~ReleasesSwitch
        /\ UNCHANGED <<afterStop, afterStopOf, timers>>
  /\ UNCHANGED <<sessionVars, called, laneVars, afterStopSerial, outcome>>
-----------------------------------------------------------------------------
(* The switch to another item. *)

(* The report that is being sent and those that wait. *)
Line == (IF activeReport = None THEN <<>> ELSE <<activeReport>>) \o reportQueue

(* Slip: the report that is being sent is not looked at. *)
LatestWaiting ==
  LET stopped == {i \in DOMAIN reportQueue : reportQueue[i].event = "Stopped"}
  IN IF stopped = {} THEN None
     ELSE reportQueue[CHOOSE i \in stopped : \A j \in stopped : j <= i].of

(* The newest Stopped report that is waiting or being sent. *)
LatestStopped ==
  LET stopped == {i \in DOMAIN Line : Line[i].event = "Stopped"}
  IN IF stopped = {} THEN None
     ELSE Line[CHOOSE i \in stopped : \A j \in stopped : j <= i].of

(* Slip: m_afterStop is not emptied when the switch need not wait. *)
SwitchKeepsAfterStop(validItem) ==
  /\ called < MaxRequests
  /\ called' = called + 1
  /\ \/ /\ ~(Available /\ validItem)
        /\ Settle(called + 1, NoRequest, NoRequest)
        /\ UNCHANGED switchVars
     \/ /\ Available /\ validItem
        /\ afterStopSerial' = called + 1
        /\ afterStop' = called + 1
        /\ afterStopOf' = LatestStopped
        /\ timers' = IF LatestStopped = None THEN timers \cup {called + 1} ELSE timers
        /\ Settle(afterStop, NoRequest, NoRequest)
  /\ UNCHANGED <<sessionVars, laneVars, reportVars>>

SwitchTo(validItem) ==
  /\ called < MaxRequests
  /\ called' = called + 1
  /\ \/ /\ ~(Available /\ validItem)
        /\ Settle(called + 1, NoRequest, NoRequest)
        /\ UNCHANGED switchVars
     \/ /\ Available /\ validItem
        /\ afterStopSerial' = called + 1
        /\ \/ /\ LatestStopped # None
              /\ afterStop' = called + 1
              /\ afterStopOf' = LatestStopped
              /\ UNCHANGED timers
           \/ /\ LatestStopped = None
              /\ afterStop' = NoRequest /\ afterStopOf' = None
              /\ timers' = timers \cup {called + 1}
        /\ Settle(afterStop, NoRequest, NoRequest)
  /\ UNCHANGED <<sessionVars, laneVars, reportVars>>

(* Slip: the timer does not compare serials. *)
AfterStopTimerIgnoresSerial(r) ==
  /\ r \in timers
  /\ timers' = timers \ {r}
  /\ UNCHANGED called
  /\ \/ /\ shuttingDown \/ fenced
        /\ UNCHANGED <<sessionVars, laneVars, afterStop, afterStopOf,
                       afterStopSerial, reportVars, outcome>>
     \/ /\ ~shuttingDown /\ ~fenced
        /\ PrepareInContext(r, TRUE)

(* The zero timer of scheduleAfterStop. *)
AfterStopTimer(r) ==
  /\ r \in timers
  /\ timers' = timers \ {r}
  /\ UNCHANGED called
  /\ \/ /\ ~shuttingDown /\ r # afterStopSerial
        /\ Settle(r, NoRequest, NoRequest)
        /\ UNCHANGED <<sessionVars, laneVars, afterStop, afterStopOf,
                       afterStopSerial, reportVars>>
     \/ /\ shuttingDown \/ (fenced /\ r = afterStopSerial)
        /\ UNCHANGED <<sessionVars, laneVars, afterStop, afterStopOf,
                       afterStopSerial, reportVars, outcome>>
     \/ /\ ~shuttingDown /\ ~fenced /\ r = afterStopSerial
        /\ PrepareInContext(r, TRUE)
-----------------------------------------------------------------------------
(* The composition root closes and opens the fence around a transition. *)

FenceSessionTransition ==
  /\ ~fenced /\ ~shuttingDown
  /\ fenced' = TRUE
  /\ reportQueue' = <<>>
  /\ ResetPreparation
  /\ UNCHANGED <<session, shuttingDown, called, activeReport, reportDone>>

(* resumeAfterSessionTransition finds both lanes empty: the fence emptied     *)
(* them and nothing is accepted while it is closed.                          *)
AbortSessionTransition ==
  /\ fenced /\ ~shuttingDown
  /\ fenced' = FALSE
  /\ UNCHANGED <<session, shuttingDown, called, laneVars, switchVars,
                 reportVars, outcome>>

CommitSessionTransition ==
  /\ fenced /\ ~shuttingDown
  /\ session.generation < MaxGeneration
  /\ fenced' = FALSE
  /\ \E c \in BOOLEAN :
       session' = [generation |-> session.generation + 1, connected |-> c]
  /\ UNCHANGED <<shuttingDown, called, laneVars, switchVars, reportVars, outcome>>

Shutdown ==
  /\ ~shuttingDown
  /\ shuttingDown' = TRUE /\ fenced' = TRUE
  /\ reportQueue' = <<>>
  /\ ResetPreparation
  /\ UNCHANGED <<session, called, activeReport, reportDone>>
-----------------------------------------------------------------------------
Calls == \/ \E v \in BOOLEAN : Prepare(v) \/ SwitchTo(v)
         \/ CancelPreparation
         \/ \E e \in Events, s \in ReportSessions : Report(e, s)
         \/ FenceSessionTransition
         \/ AbortSessionTransition
         \/ CommitSessionTransition
         \/ Shutdown

Progresses == \/ PrepareWorkerDone \/ FinishPrepare
              \/ ReportWorkerDone \/ FinishReport
              \/ \E r \in Requests : AfterStopTimer(r)

Next == Calls \/ Progresses
Spec == Init /\ [][Next]_vars

(* Workers return (the bridge cancels and times out what hangs), the event    *)
(* loop delivers what it was given, and a transition that began ends.        *)
FairSpec ==
  /\ Spec
  /\ WF_vars(PrepareWorkerDone) /\ WF_vars(FinishPrepare)
  /\ WF_vars(ReportWorkerDone) /\ WF_vars(FinishReport)
  /\ \A r \in Requests : WF_vars(AfterStopTimer(r))
  /\ WF_vars(AbortSessionTransition)
-----------------------------------------------------------------------------
FlagsTypeOK ==
  /\ session \in [generation : 0..MaxGeneration, connected : BOOLEAN]
  /\ fenced \in BOOLEAN /\ shuttingDown \in BOOLEAN
  /\ prepareDone \in BOOLEAN

CallsTypeOK ==
  /\ called \in 0..MaxRequests
  /\ latest \in 0..called /\ latestGeneration \in 0..MaxGeneration
  /\ activePrepare \in 0..called /\ queuedPrepare \in 0..called
  /\ prepareJob \in 0..called
  /\ afterStop \in 0..called /\ afterStopSerial \in 0..called
  /\ timers \subseteq 1..called
  /\ outcome \in [Requests -> Nat]

ReportsTypeOK ==
  /\ reportQueue \in Seq(Reports)
  /\ activeReport \in Reports \cup {None}
  /\ reportDone \in BOOLEAN

(* Every variable but afterStopOf holds a value of its type; the newest        *)
(* requests are among those made.                                            *)
TypeOK == FlagsTypeOK /\ CallsTypeOK /\ ReportsTypeOK

(* The places a preparation call that is not answered yet can be in. *)
Held(r) == r \in {activePrepare, queuedPrepare, afterStop} \cup timers

(* No preparation call is answered twice: whichever of the worker, the newer  *)
(* calls, the cancelation, the fence and the zero timer come to it, in       *)
(* whatever order, ready or failed is emitted for it at most once.           *)
AnsweredOnce == \A r \in Requests : outcome[r] <= 1

(* The newest call is never lost: it has been answered or one of the lane,    *)
(* the deferred switch and the pending timers still holds it.  (A superseded  *)
(* call may be dropped without an answer: submitPrepare starts past a queued  *)
(* one when the worker's result is not delivered yet.)                       *)
NewestNeverLost ==
  called # 0 /\ outcome[called] = 0 /\ ~shuttingDown => Held(called)

(* finishPrepare takes the worker's result for the answer to m_activePrepare   *)
(* without comparing them: they always belong together.                      *)
ResultIsOfActive ==
  activePrepare # NoRequest => prepareJob = activePrepare

(* Nothing submitted before a transition goes on behind the fence or after    *)
(* it: the lane and the deferred switch are empty while the fence is closed,  *)
(* and the newest token was issued in the session that is current.           *)
NothingCrossesFence ==
  /\ fenced => {activePrepare, queuedPrepare, afterStop, afterStopSerial} = {NoRequest}
  /\ latest # NoRequest => latestGeneration = session.generation

(* When a preparation starts, every later call has been answered already or   *)
(* is a switch that still waits: a superseded one never starts, though its    *)
(* timer may fire after the call that superseded it.                         *)
NeverStartsSuperseded ==
  [][activePrepare' # activePrepare /\ activePrepare' # NoRequest =>
       \A r \in Requests : activePrepare' < r /\ r <= called' =>
         outcome'[r] # 0 \/ r = afterStop' \/ r \in timers']_vars

IsTerminal(q) == q.event # "Progress"

(* No report waits behind the fence or in a session it is not about.          *)
ReportsAreCurrent ==
  /\ fenced => reportQueue = <<>>
  /\ \A i \in 1..Len(reportQueue) : reportQueue[i].generation = session.generation

(* Of the Started and Stopped reports in line, those that were not finished    *)
(* stay in line, in their order, with no other one between or before them.   *)
Carried(finished) ==
  LET stay == {i \in DOMAIN Line \ finished : IsTerminal(Line[i])}
  IN \E at \in [stay -> DOMAIN Line'] :
       /\ \A i \in stay : Line'[at[i]] = Line[i]
       /\ \A i, j \in stay : i < j => at[i] < at[j]
       /\ \A i \in stay, k \in DOMAIN Line' :
            k < at[i] /\ IsTerminal(Line'[k]) => \E j \in stay : at[j] = k

(* Started and Stopped reports leave the lane one by one from its head, in    *)
(* the order they came, whatever Progress reports are merged around them;     *)
(* only the fence drops them, and it drops every report.                     *)
TerminalReportsKeepOrder ==
  /\ []ReportsAreCurrent
  /\ [][fenced' \/ Carried({}) \/ (reportDone /\ Carried({1}))]_vars

(* The Stopped report that the deferred switch of r waits for never releases   *)
(* it: it is of an earlier session, or lost.  SwitchNotBlocked finds this.    *)
Stranded(r) ==
  /\ afterStop = r
  /\ \A i \in 1..Len(Line) :
       ~(Line[i].event = "Stopped" /\ Line[i].of = afterStopOf
           /\ Line[i].generation = session.generation)

(* The newest call is answered in the end, unless it is superseded or         *)
(* stranded: the view model waits for it with no timeout of its own.         *)
NewestAnswered ==
  \A r \in Requests :
    (called = r) ~> (outcome[r] # 0 \/ called # r \/ shuttingDown \/ Stranded(r))

(* "Reporting failures do not block closing the player or switching items"    *)
(* (docs/ARCHITECTURE.md:280): a switch does not wait for ever for a report.  *)
SwitchNotBlocked ==
  (afterStop # NoRequest) ~> (afterStop = NoRequest \/ shuttingDown)
=============================================================================
