-------------------------- MODULE PlaybackReporting --------------------------
(***************************************************************************)
(* One playback from the page to the backend: the player page with           *)
(* PlaybackViewModel, the reporter (as PlaybackReportProtocol describes it), *)
(* PlaybackCoordinator, and the active_playback of the Rust application,     *)
(* against which every report is checked.  A call of the view model is       *)
(* taken apart into the calls it makes: the reporter's reports come first,   *)
(* and no other turn of the event loop begins in between.  The two worker    *)
(* jobs run beside it.                                                       *)
(***************************************************************************)
EXTENDS PlaybackCoordinator

VARIABLES
  stage, reporting, \* the reporter: where its open report session stands
  wire,         \* its reports of this turn which the port has not taken yet
  calling,      \* what follows them: "none", "switch", "shutdown"
  shown,        \* reportSessionId of the page while mediaUrl is not empty
  playback,     \* play_session_id of active_playback
  result,       \* report_session_id of what the preparation job has prepared
  taken,        \* what report_playback found: "no", "refused", "sent"
  issued,       \* (history) play sessions the server has given out
  undisturbed,  \* (history) shown since the last direct preparation or fence
  stopped       \* (history) sessions whose Stopped report has been taken up
reporterVars == <<stage, reporting, wire>>
backendVars  == <<playback, result, taken, issued, stopped>>
linkVars     == <<calling, shown, undisturbed>>
reportingVars == <<vars, reporterVars, backendVars, linkVars>>

Reporter == INSTANCE PlaybackReportProtocol
              WITH Sessions <- ReportSessions, session <- reporting

ReportingInit ==
  /\ Init /\ Reporter!Init
  /\ calling = "none" /\ shown = None /\ undisturbed = {}
  /\ playback = None /\ result = None /\ taken = "no"
  /\ issued = {} /\ stopped = {}

(* The event loop begins a turn. *)
Turn == wire = <<>> /\ calling = "none"

(* The backend in a turn of the event loop: a job that starts has no result. *)
BackendWaits ==
  /\ result' = IF activePrepare' \in {NoRequest, activePrepare} THEN result ELSE None
  /\ UNCHANGED <<playback, taken, issued, stopped>>

Disturb(really) == undisturbed' = IF really THEN {} ELSE undisturbed

(* Bound: the reporter reports when the port has room for all it may say. *)
Room == Len(reportQueue) + 2 <= QueueBound
-----------------------------------------------------------------------------
(* The page and the view model. *)

(* prepare: a preparation that waits for no report.  The page closes itself    *)
(* before, or keeps what it shows (an automatic queue refresh).              *)
PagePrepares(v) ==
  /\ Turn
  /\ Prepare(v)
  /\ Disturb(Available /\ v)
  /\ BackendWaits
  /\ UNCHANGED <<reporterVars, calling, shown>>

PageCancels ==
  /\ Turn
  /\ CancelPreparation
  /\ BackendWaits
  /\ UNCHANGED <<reporterVars, linkVars>>

ReporterStops == /\ Room
                 /\ \/ Reporter!Close
                    \/ stage = "closed" /\ UNCHANGED reporterVars

(* closePlayback. *)
PageCloses ==
  /\ Turn
  /\ shown # None
  /\ shown' = None
  /\ ReporterStops
  /\ UNCHANGED <<vars, backendVars, calling, undisturbed>>

(* onFileLoaded: the reporter opens the session that is shown. *)
PageBegins ==
  /\ Turn /\ Room
  /\ shown \notin {None, reporting}
  /\ Reporter!Open(shown)
  /\ UNCHANGED <<vars, backendVars, linkVars>>

(* What the player tells the reporter: its progress, its end. *)
ReporterReports ==
  /\ Turn /\ Room
  /\ Reporter!Start \/ Reporter!Progress \/ Reporter!Close
  /\ UNCHANGED <<vars, backendVars, linkVars>>

(* playQueueEntry with switchToInContext, and shutdown: the reporter stops,   *)
(* then the port is called.                                                  *)
StopsFirst ==
  /\ Turn
  /\ \/ /\ called < MaxRequests
        /\ calling' = "switch" /\ shown' = None
     \/ /\ ~shuttingDown
        /\ calling' = "shutdown" /\ UNCHANGED shown
  /\ ReporterStops
  /\ UNCHANGED <<vars, backendVars, undisturbed>>

PageSwitches(v) ==
  /\ wire = <<>> /\ calling = "switch" /\ calling' = "none"
  /\ SwitchTo(v)
  /\ BackendWaits
  /\ UNCHANGED <<reporterVars, shown, undisturbed>>

ServicesShutDown ==
  /\ wire = <<>> /\ calling = "shutdown" /\ calling' = "none"
  /\ Shutdown
  /\ BackendWaits
  /\ UNCHANGED <<reporterVars, shown, undisturbed>>
-----------------------------------------------------------------------------
(* The port in its own turns. *)

PortTakes ==
  /\ Reporter!Take
  /\ \/ Report(Head(wire).event, Head(wire).session)
     \/ ~Available /\ UNCHANGED vars
  /\ BackendWaits
  /\ UNCHANGED linkVars

(* onReady, when the view model still waits for this request and the job      *)
(* succeeded; an automatic queue refresh shows nothing.                      *)
PreparationEnds ==
  /\ Turn
  /\ FinishPrepare
  /\ \/ /\ activePrepare # NoRequest /\ activePrepare = called
        /\ Available /\ AcceptsLatest(activePrepare)
        /\ result # None
        /\ shown' = result /\ undisturbed' = undisturbed \cup {result}
     \/ UNCHANGED <<shown, undisturbed>>
  /\ result' = None
  /\ UNCHANGED <<reporterVars, calling, playback, taken, issued, stopped>>

ReportEnds ==
  /\ Turn
  /\ FinishReport
  /\ taken' = "no"
  /\ UNCHANGED <<reporterVars, linkVars, playback, result, issued, stopped>>

TimerFires ==
  /\ Turn
  /\ \E r \in Requests : AfterStopTimer(r)
  /\ BackendWaits
  /\ UNCHANGED <<reporterVars, linkVars>>

(* fenceFeatures, abort and commit. *)
TransitionBegins ==
  /\ Turn
  /\ Reporter!Abandon
  /\ FenceSessionTransition
  /\ Disturb(TRUE)
  /\ BackendWaits
  /\ UNCHANGED <<calling, shown>>

TransitionEnds ==
  /\ Turn
  /\ AbortSessionTransition \/ CommitSessionTransition
  /\ BackendWaits
  /\ UNCHANGED <<reporterVars, linkVars>>
-----------------------------------------------------------------------------
(* The worker jobs. *)

(* prepare_playback replaces active_playback by the play session the server   *)
(* has given out for it.                                                     *)
Publish ==
  /\ PrepareRunning /\ result = None
  /\ \E s \in ReportSessions \ issued :
       /\ playback' = s /\ result' = s
       /\ issued' = issued \cup {s}
  /\ UNCHANGED <<vars, reporterVars, linkVars, taken, stopped>>

(* With or without a result. *)
PrepareReturns ==
  /\ PrepareWorkerDone
  /\ UNCHANGED <<reporterVars, linkVars, backendVars>>

(* report_playback clones active_playback and refuses a stale report. *)
ReportTakenUp ==
  /\ activeReport # None /\ ~reportDone /\ taken = "no"
  /\ taken' = IF playback = activeReport.of THEN "sent" ELSE "refused"
  /\ stopped' = IF activeReport.event = "Stopped"
                THEN stopped \cup {activeReport.of} ELSE stopped
  /\ UNCHANGED <<vars, reporterVars, linkVars, playback, result, issued>>

(* A Stopped report the server accepted ends the playback it was sent for. *)
ReportReturns ==
  /\ taken # "no"
  /\ ReportWorkerDone
  /\ \/ UNCHANGED playback
     \/ /\ taken = "sent" /\ activeReport.event = "Stopped"
        /\ playback = activeReport.of
        /\ playback' = None
  /\ UNCHANGED <<reporterVars, linkVars, result, taken, issued, stopped>>

(* logout_emby, in the job of a session transition. *)
Forget ==
  /\ fenced /\ ~shuttingDown
  /\ playback' = None
  /\ UNCHANGED <<vars, reporterVars, linkVars, result, taken, issued, stopped>>

ReportingNext ==
  \/ \E v \in BOOLEAN : PagePrepares(v) \/ PageSwitches(v)
  \/ PageCancels \/ PageCloses \/ PageBegins \/ ReporterReports
  \/ StopsFirst \/ ServicesShutDown \/ PortTakes
  \/ PreparationEnds \/ ReportEnds \/ TimerFires
  \/ TransitionBegins \/ TransitionEnds
  \/ Publish \/ PrepareReturns \/ ReportTakenUp \/ ReportReturns \/ Forget

ReportingSpec == ReportingInit /\ [][ReportingNext]_reportingVars
-----------------------------------------------------------------------------
ReportingTypeOK ==
  /\ TypeOK
  /\ stage \in Reporter!Stages /\ reporting \in ReportSessions \cup {None}
  /\ wire \in Seq([event : Events, session : ReportSessions])
  /\ calling \in {"none", "switch", "shutdown"}
  /\ {shown, playback, result} \subseteq ReportSessions \cup {None}
  /\ taken \in {"no", "refused", "sent"}
  /\ issued \subseteq ReportSessions
  /\ undisturbed \subseteq ReportSessions /\ stopped \subseteq ReportSessions

(* The reason a switch waits: as long as playbacks replace each other by      *)
(* switches, the Stopped report of a session still finds its playback at the *)
(* backend, however calls, jobs and reports interleave; the server learns of *)
(* the end of what it was told had started.  (A direct preparation does not  *)
(* wait: it may replace the playback of a session whose reports are in line.)*)
StoppedFindsPlayback ==
  /\ activeReport # None /\ taken = "no"
  /\ activeReport.event = "Stopped"
  /\ activeReport.of \in undisturbed \ stopped
  => playback = activeReport.of
=============================================================================
