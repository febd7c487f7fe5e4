-------------------------- MODULE PlaybackReporter --------------------------
(***************************************************************************)
(* native/PlaybackReporter.cpp: the life and cadence of the reports about    *)
(* one player.  Every action is one turn of the UI event loop: a signal of   *)
(* the player, a call of the view model or the composition root, or a timer.  *)
(* A position is abstracted to the file it was taken from.                   *)
(***************************************************************************)
EXTENDS Naturals, Sequences

CONSTANTS Sessions,        \* report session identifiers
          MaxFiles,        \* bound on the files the player opens
          MaxGeneration,   \* bound on m_sessionGeneration
          None             \* no report session

Nothing     == 0           \* a position or a generation that is not set
Files       == 0..MaxFiles
Generations == 0..MaxGeneration
Events      == {"Started", "Progress", "Stopped"}
Reports     == [event : Events, session : Sessions, of : Files]

ASSUME ReporterAssumption ==
  /\ MaxFiles \in Nat
  /\ MaxGeneration \in Nat
  /\ None \notin Sessions

VARIABLES
  player,      \* m_player is set
  file,        \* the file whose position the player shows
  active,      \* m_active
  started,     \* m_started
  session,     \* m_reportSessionId
  opened,      \* the file that was loaded when the session began (history)
  generation,  \* m_sessionGeneration
  queued,      \* m_queuedProgressGeneration
  timers,      \* generations captured by scheduled zero timers
  delay,       \* m_startDelay is running
  heartbeat,   \* m_heartbeat is running
  pending,     \* m_pendingPosition: the file of a seek not reported yet
  last,        \* m_lastSnapshot: the file its position was taken from
  wire         \* reports handed to the port in this turn
playerVars  == <<player, file>>
sessionVars == <<active, started, session, opened, generation>>
timerVars   == <<queued, timers, delay, heartbeat>>
vars == <<playerVars, sessionVars, timerVars, pending, last, wire>>

Init ==
  /\ player = FALSE /\ file = 0
  /\ active = FALSE /\ started = FALSE /\ session = None /\ opened = 0
  /\ generation = 0
  /\ queued = Nothing /\ timers = {} /\ delay = FALSE /\ heartbeat = FALSE
  /\ pending = Nothing /\ last = 0
  /\ wire = <<>>

(* Port calls are made inside the turn: the next turn finds none left. *)
Turn == wire = <<>>

Told(e, f) == [event |-> e, session |-> session, of |-> f]

(* snapshot() without a player keeps the position it sampled last. *)
Sampled == IF player THEN file ELSE last

(* The position startSession reports: a seek that waits goes before it. *)
StartPosition == IF pending # Nothing THEN pending ELSE Sampled
-----------------------------------------------------------------------------
(* startSession, for a session that is open and not started. *)
StartReporting ==
  /\ started' = TRUE
  /\ heartbeat' = TRUE
  /\ last' = StartPosition
  /\ pending' = Nothing
  /\ wire' = <<Told("Started", StartPosition)>>

(* stopSession starts a session that never was before it stops it. *)
StopReports ==
  IF started THEN <<Told("Stopped", Sampled)>>
  ELSE <<Told("Started", StartPosition),
         Told("Stopped", IF player THEN file ELSE StartPosition)>>

LastAfterStop == IF started \/ player THEN Sampled ELSE StartPosition

Closed ==
  /\ delay' = FALSE /\ heartbeat' = FALSE /\ queued' = Nothing
  /\ active' = FALSE /\ started' = FALSE /\ session' = None /\ opened' = 0
  /\ pending' = Nothing

StopReporting ==
  /\ generation' = generation + 1
  /\ Closed
  /\ wire' = StopReports
  /\ last' = LastAfterStop

(* queueProgress: at most one turn is scheduled for the current session. *)
QueueProgress ==
  \/ /\ active /\ queued # generation
     /\ queued' = generation
     /\ timers' = timers \cup {generation}
  \/ /\ ~active \/ queued = generation
     /\ UNCHANGED <<queued, timers>>
-----------------------------------------------------------------------------
(* Calls of PlaybackViewModel and DesktopBackendServices. *)

StopSession ==
  /\ Turn /\ active /\ generation < MaxGeneration
  /\ StopReporting
  /\ UNCHANGED <<playerVars, timers>>

(* A player that is not the attached one: its own file, nothing loaded yet. *)
AttachPlayer ==
  /\ Turn /\ file < MaxFiles /\ generation < MaxGeneration
  /\ player' = TRUE /\ file' = file + 1
  /\ \/ active /\ StopReporting
     \/ ~active /\ UNCHANGED <<sessionVars, queued, delay, heartbeat, pending, last, wire>>
  /\ UNCHANGED timers

(* Slip: the bounded wait for the track list is not armed. *)
BeginWithoutDelay(s) ==
  /\ Turn /\ player
  /\ generation + 2 <= MaxGeneration
  /\ ~active
  /\ active' = TRUE /\ started' = FALSE /\ session' = s /\ opened' = file
  /\ generation' = generation + 1
  /\ UNCHANGED <<wire, last, heartbeat, queued, pending, playerVars, timers, delay>>

(* beginSession: for the open session it only replaces the track list. *)
BeginSession(s) ==
  /\ Turn /\ player
  /\ generation + 2 <= MaxGeneration
  /\ ~(active /\ session = s)
  /\ active' = TRUE /\ started' = FALSE /\ session' = s /\ opened' = file
  /\ delay' = TRUE
  /\ \/ /\ active
        /\ generation' = generation + 2
        /\ wire' = StopReports
        /\ last' = LastAfterStop
        /\ heartbeat' = FALSE /\ queued' = Nothing /\ pending' = Nothing
     \/ /\ ~active
        /\ generation' = generation + 1
        /\ UNCHANGED <<wire, last, heartbeat, queued, pending>>
  /\ UNCHANGED <<playerVars, timers>>

AbandonSessionForTransition ==
  /\ Turn /\ generation < MaxGeneration
  /\ generation' = generation + 1
  /\ Closed
  /\ UNCHANGED <<playerVars, timers, last, wire>>
-----------------------------------------------------------------------------
(* Signals of the player; a player that is gone sends none. *)

(* The destroyed signal: m_player is cleared before the session is stopped. *)
PlayerDestroyed ==
  /\ Turn /\ player /\ generation < MaxGeneration
  /\ player' = FALSE
  /\ \/ /\ active
        /\ generation' = generation + 1
        /\ Closed
        /\ LET sampled == IF started \/ pending = Nothing THEN last ELSE pending IN
             /\ wire' = IF started THEN <<Told("Stopped", sampled)>>
                        ELSE <<Told("Started", sampled), Told("Stopped", sampled)>>
             /\ last' = sampled
     \/ ~active /\ UNCHANGED <<sessionVars, queued, delay, heartbeat, pending, last, wire>>
  /\ UNCHANGED <<file, timers>>

(* pausedChanged, volumeChanged, mutedChanged, rateChanged, seekableChanged. *)
PlayerStateChanged ==
  /\ Turn /\ player
  /\ QueueProgress
  /\ UNCHANGED <<playerVars, sessionVars, delay, heartbeat, pending, last, wire>>

TracksChanged ==
  /\ Turn /\ player
  /\ \/ /\ active /\ ~started
        /\ StartReporting
        /\ UNCHANGED <<active, session, opened, generation, queued, timers, delay>>
     \/ /\ ~(active /\ ~started)
        /\ QueueProgress
        /\ UNCHANGED <<sessionVars, delay, heartbeat, pending, last, wire>>
  /\ UNCHANGED playerVars

(* loadFile resets the position and emits seekableChanged and tracksChanged. *)
LoadFile ==
  /\ Turn /\ player /\ file < MaxFiles
  /\ file' = file + 1
  /\ QueueProgress
  /\ \/ /\ active /\ ~started
        /\ started' = TRUE /\ heartbeat' = TRUE /\ pending' = Nothing
        /\ LET position == IF pending # Nothing THEN pending ELSE file' IN
             last' = position /\ wire' = <<Told("Started", position)>>
        /\ UNCHANGED <<active, session, opened, generation>>
     \/ /\ ~(active /\ ~started)
        /\ UNCHANGED <<sessionVars, heartbeat, pending, last, wire>>
  /\ UNCHANGED <<player, delay>>

(* Slip: the seek is reported without a look at m_started. *)
SeekReportsAtOnce ==
  /\ Turn /\ player
  /\ \/ /\ active
        /\ last' = file
        /\ wire' = <<Told("Progress", file)>>
        /\ UNCHANGED pending
     \/ /\ ~active
        /\ pending' = file
        /\ UNCHANGED <<last, wire>>
  /\ UNCHANGED <<playerVars, sessionVars, timerVars>>

(* seekRequested is emitted by every call of seek, with a file or without. *)
SeekRequested ==
  /\ Turn /\ player
  /\ \/ /\ active /\ started
        /\ last' = file
        /\ wire' = <<Told("Progress", file)>>
        /\ UNCHANGED pending
     \/ /\ ~(active /\ started)
        /\ pending' = file
        /\ UNCHANGED <<last, wire>>
  /\ UNCHANGED <<playerVars, sessionVars, timerVars>>

(* fileEnded and playbackCompleted. *)
FileEnded ==
  /\ Turn /\ player /\ active /\ generation < MaxGeneration
  /\ StopReporting
  /\ UNCHANGED <<playerVars, timers>>
-----------------------------------------------------------------------------
(* Timers. *)

StartDelayTimeout ==
  /\ Turn /\ delay
  /\ delay' = FALSE
  /\ \/ /\ active /\ ~started
        /\ StartReporting
        /\ UNCHANGED <<active, session, opened, generation>>
     \/ /\ ~(active /\ ~started)
        /\ UNCHANGED <<sessionVars, heartbeat, pending, last, wire>>
  /\ UNCHANGED <<playerVars, queued, timers>>

(* reportProgress with the sampled position. *)
ReportProgress ==
  \/ /\ active /\ started
     /\ last' = Sampled
     /\ wire' = <<Told("Progress", Sampled)>>
  \/ /\ ~(active /\ started)
     /\ UNCHANGED <<last, wire>>

HeartbeatTick ==
  /\ Turn /\ heartbeat
  /\ ReportProgress
  /\ UNCHANGED <<playerVars, sessionVars, timerVars, pending>>

(* The zero timer of queueProgress, with the generation it captured. *)
ZeroTimer(g) ==
  /\ Turn /\ g \in timers
  /\ timers' = timers \ {g}
  /\ \/ /\ g = queued
        /\ queued' = Nothing
        /\ \/ g = generation /\ ReportProgress
           \/ g # generation /\ UNCHANGED <<last, wire>>
     \/ /\ g # queued
        /\ UNCHANGED <<queued, last, wire>>
  /\ UNCHANGED <<playerVars, sessionVars, delay, heartbeat, pending>>

(* PlaybackPort::report. *)
PortTakes ==
  /\ wire # <<>>
  /\ wire' = Tail(wire)
  /\ UNCHANGED <<playerVars, sessionVars, timerVars, pending, last>>
-----------------------------------------------------------------------------
Calls == \/ StopSession \/ AttachPlayer \/ AbandonSessionForTransition
         \/ \E s \in Sessions : BeginSession(s)

Signals == \/ PlayerDestroyed \/ PlayerStateChanged \/ TracksChanged
           \/ LoadFile \/ SeekRequested \/ FileEnded

Timers == \/ StartDelayTimeout \/ HeartbeatTick
          \/ \E g \in Generations : ZeroTimer(g)

Next == Calls \/ Signals \/ Timers \/ PortTakes
Spec == Init /\ [][Next]_vars

(* The port is called inside the turn, and the event loop serves a timer that *)
(* has run out between the turns of other signals, however many come.         *)
FairSpec ==
  /\ Spec
  /\ WF_vars(PortTakes)
  /\ SF_vars(StartDelayTimeout)
  /\ \A g \in Generations : SF_vars(ZeroTimer(g))
-----------------------------------------------------------------------------
TypeOK ==
  /\ player \in BOOLEAN /\ file \in Files
  /\ active \in BOOLEAN /\ started \in BOOLEAN
  /\ session \in Sessions \cup {None} /\ opened \in Files
  /\ generation \in Generations
  /\ queued \in Generations /\ timers \subseteq Generations
  /\ delay \in BOOLEAN /\ heartbeat \in BOOLEAN
  /\ pending \in Files /\ last \in Files
  /\ wire \in Seq(Reports)

(* A timer never outlives the session it serves: the heartbeat runs only for  *)
(* a session that is started, the start delay only for one that is open, and  *)
(* a queued progress turn is one of the session that is open.                 *)
TimersServeTheSession ==
  /\ heartbeat => active /\ started
  /\ delay => active
  /\ queued # Nothing => active /\ queued = generation

(* A change of the player's state is not lost: while a progress turn counts   *)
(* as queued, which makes queueProgress return early, it really is scheduled. *)
QueuedIsScheduled == queued # Nothing => queued \in timers

(* PlaybackReportProtocol, with the stage read from the two flags. *)
Stage == IF ~active THEN "closed" ELSE IF started THEN "started" ELSE "open"
Message(r) == [event |-> r.event, session |-> r.session]
Messages(w) == [i \in 1..Len(w) |-> Message(w[i])]
Protocol == INSTANCE PlaybackReportProtocol
  WITH stage <- Stage, wire <- Messages(wire)

(* Whatever signals, calls and timers come in whatever order, the port sees   *)
(* Started first, Stopped last, each once per session, and no report between  *)
(* two sessions.                                                             *)
FollowsProtocol == Protocol!Spec

(* A session that is opened reaches its Started report, also when the track   *)
(* list never changes.                                                       *)
SessionStarts ==
  \A g \in Generations :
    (active /\ generation = g) ~> (started \/ generation # g)

(* "PlaybackReporter samples the actual player state after the file is         *)
(* loaded." (docs/ARCHITECTURE.md:280): the position of a Started report is    *)
(* not one of a file that was shown before the session was opened.            *)
StartedNotFromEarlierFile ==
  \A i \in 1..Len(wire) :
    wire[i].event = "Started" /\ active /\ wire[i].session = session =>
      wire[i].of >= opened
=============================================================================
