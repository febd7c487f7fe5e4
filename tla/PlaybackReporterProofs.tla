----------------------- MODULE PlaybackReporterProofs -----------------------
(***************************************************************************)
(* Proofs about PlaybackReporter, for any sessions, files and generations:    *)
(* its timers serve the open session only, a queued progress turn is always   *)
(* scheduled, and its reports follow PlaybackReportProtocol.                  *)
(***************************************************************************)
EXTENDS PlaybackReporter, SequenceTheorems, TLAPS

(* The flags and the identity of the open session go together. *)
OpenSession ==
  /\ active <=> session # None
  /\ started => active

IInv == TypeOK /\ TimersServeTheSession /\ QueuedIsScheduled /\ OpenSession

(* Zero stands for what is not set, and is a file and a generation too. *)
LEMMA ZeroType == Nothing \in Files /\ Nothing \in Generations /\ Nothing = 0
BY ReporterAssumption DEF Files, Generations, Nothing

(* Reports of the open session, alone or in pairs, are reports for the port. *)
LEMMA ToldType ==
  ASSUME session \in Sessions
  PROVE  /\ \A e \in Events, f \in Files : Told(e, f) \in Reports
         /\ \A e \in Events, f \in Files : <<Told(e, f)>> \in Seq(Reports)
         /\ \A e1, e2 \in Events, f1, f2 \in Files :
              <<Told(e1, f1), Told(e2, f2)>> \in Seq(Reports)
<1>1. \A e \in Events, f \in Files : Told(e, f) \in Reports
  BY DEF Told, Reports
<1>2. \A x, y \in Reports : <<x>> \in Seq(Reports) /\ <<x, y>> \in Seq(Reports)
  OBVIOUS
<1> QED
  BY <1>1, <1>2

(* What the reporter samples is the position of a file. *)
LEMMA PositionType ==
  ASSUME TypeOK
  PROVE  Sampled \in Files /\ StartPosition \in Files /\ LastAfterStop \in Files
BY DEF TypeOK, Sampled, StartPosition, LastAfterStop, Files

(* The reports of a stop are well formed. *)
LEMMA StopReportsType ==
  ASSUME TypeOK, OpenSession, active
  PROVE  StopReports \in Seq(Reports)
<1>1. session \in Sessions
  BY DEF TypeOK, OpenSession
<1>2. Sampled \in Files /\ StartPosition \in Files /\ file \in Files
  BY PositionType DEF TypeOK
<1>3. "Started" \in Events /\ "Stopped" \in Events
  BY DEF Events
<1> QED
  BY <1>1, <1>2, <1>3, ToldType DEF StopReports

THEOREM InitIInv == Init => IInv
<1> SUFFICES ASSUME Init PROVE IInv
  OBVIOUS
<1>1. TypeOK
  <2>1. file \in Files /\ opened \in Files /\ pending \in Files /\ last \in Files
    BY ZeroType DEF Init
  <2>2. generation \in Generations /\ queued \in Generations
    BY ZeroType DEF Init
  <2>3. wire \in Seq(Reports) /\ timers \subseteq Generations
    BY DEF Init
  <2>4. /\ player \in BOOLEAN /\ active \in BOOLEAN /\ started \in BOOLEAN
        /\ delay \in BOOLEAN /\ heartbeat \in BOOLEAN
        /\ session \in Sessions \cup {None}
    BY DEF Init
  <2> QED
    BY <2>1, <2>2, <2>3, <2>4 DEF TypeOK
<1>2. TimersServeTheSession /\ QueuedIsScheduled /\ OpenSession
  BY DEF Init, TimersServeTheSession, QueuedIsScheduled, OpenSession, Nothing
<1> QED
  BY <1>1, <1>2 DEF IInv

(* A stop leaves nothing behind, from whichever handler it is made. *)
LEMMA StopKeepsIInv ==
  ASSUME IInv, active, generation < MaxGeneration, StopReporting,
         player' \in BOOLEAN, file' \in Files, timers' = timers
  PROVE  IInv'
<1>1. LastAfterStop \in Files /\ StopReports \in Seq(Reports)
  BY PositionType, StopReportsType DEF IInv
<1>2. generation + 1 \in Generations
  BY ReporterAssumption DEF IInv, TypeOK, Generations
<1>3. TypeOK'
  BY <1>1, <1>2, ZeroType DEF IInv, TypeOK, StopReporting, Closed
<1>4. TimersServeTheSession' /\ QueuedIsScheduled' /\ OpenSession'
  BY DEF StopReporting, Closed, TimersServeTheSession, QueuedIsScheduled,
         OpenSession, Nothing
<1> QED
  BY <1>3, <1>4 DEF IInv

LEMMA StepIInv == IInv /\ [Next]_vars => IInv'
<1> SUFFICES ASSUME IInv, [Next]_vars PROVE IInv'
  OBVIOUS
<1> USE ReporterAssumption DEF IInv
<1>1. CASE StopSession
  BY <1>1, StopKeepsIInv DEF StopSession, playerVars, TypeOK
<1>2. CASE AttachPlayer
  <2>1. player' \in BOOLEAN /\ file' \in Files /\ timers' = timers
    BY <1>2 DEF AttachPlayer, TypeOK, Files
  <2>2. CASE active
    BY <1>2, <2>1, <2>2, StopKeepsIInv DEF AttachPlayer
  <2>3. CASE ~active
    BY <1>2, <2>1, <2>3
       DEF AttachPlayer, sessionVars, TypeOK, TimersServeTheSession,
           QueuedIsScheduled, OpenSession
  <2> QED
    BY <2>2, <2>3
<1>3. CASE AbandonSessionForTransition
  <2>1. TypeOK'
    <3>1. generation' \in Generations
      BY <1>3 DEF AbandonSessionForTransition, TypeOK, Generations
    <3> QED
      BY <1>3, <3>1, ZeroType
         DEF AbandonSessionForTransition, Closed, TypeOK, playerVars
  <2>2. TimersServeTheSession' /\ QueuedIsScheduled' /\ OpenSession'
    BY <1>3 DEF AbandonSessionForTransition, Closed, TimersServeTheSession,
                QueuedIsScheduled, OpenSession, Nothing
  <2> QED
    BY <2>1, <2>2
<1>4. ASSUME NEW s \in Sessions, BeginSession(s) PROVE IInv'
  <2>1. last' \in Files /\ wire' \in Seq(Reports) /\ pending' \in Files
    BY <1>4, PositionType, StopReportsType
       DEF BeginSession, TypeOK, Files, Nothing
  <2>2. generation' \in Generations /\ queued' \in Generations
    BY <1>4 DEF BeginSession, TypeOK, Generations, Nothing
  <2>3. TypeOK'
    BY <1>4, <2>1, <2>2
       DEF BeginSession, TypeOK, playerVars, TimersServeTheSession
  <2>4. queued' = Nothing /\ heartbeat' = FALSE
    BY <1>4 DEF BeginSession, TimersServeTheSession, Nothing, TypeOK
  <2>5. TimersServeTheSession' /\ QueuedIsScheduled' /\ OpenSession'
    BY <1>4, <2>4 DEF BeginSession, TimersServeTheSession, QueuedIsScheduled,
                      OpenSession
  <2> QED
    BY <2>3, <2>5
<1>5. CASE PlayerDestroyed
  <2>1. CASE active
    <3> DEFINE sampled == IF started \/ pending = Nothing THEN last ELSE pending
    <3>1. session \in Sessions /\ sampled \in Files
      BY <2>1 DEF TypeOK, OpenSession
    <3>2. "Started" \in Events /\ "Stopped" \in Events
      BY DEF Events
    <3>3. wire' = (IF started THEN <<Told("Stopped", sampled)>>
                   ELSE <<Told("Started", sampled), Told("Stopped", sampled)>>)
          /\ last' = sampled
      BY <1>5, <2>1 DEF PlayerDestroyed
    <3> HIDE DEF sampled
    <3>4. wire' \in Seq(Reports)
      BY <3>1, <3>2, <3>3, ToldType
    <3>5. TypeOK'
      <4>1. generation' \in Generations
        BY <1>5, <2>1 DEF PlayerDestroyed, TypeOK, Generations
      <4> QED
        BY <1>5, <2>1, <3>1, <3>3, <3>4, <4>1, ZeroType
           DEF PlayerDestroyed, Closed, TypeOK
    <3>6. TimersServeTheSession' /\ QueuedIsScheduled' /\ OpenSession'
      BY <1>5, <2>1 DEF PlayerDestroyed, Closed, TimersServeTheSession,
                        QueuedIsScheduled, OpenSession, Nothing
    <3> QED
      BY <3>5, <3>6
  <2>2. CASE ~active
    <3>1. player' = FALSE /\ UNCHANGED <<file, timers>>
      BY <1>5 DEF PlayerDestroyed
    <3>2. UNCHANGED <<sessionVars, queued, delay, heartbeat, pending, last, wire>>
      BY <1>5, <2>2 DEF PlayerDestroyed
    <3> QED
      BY <3>1, <3>2 DEF sessionVars, TypeOK, TimersServeTheSession,
                        QueuedIsScheduled, OpenSession
  <2> QED
    BY <2>1, <2>2
<1>6. CASE PlayerStateChanged
  BY <1>6 DEF PlayerStateChanged, QueueProgress, playerVars, sessionVars,
              TypeOK, TimersServeTheSession, QueuedIsScheduled, OpenSession,
              Generations
<1>7. CASE TracksChanged
  <2>1. CASE active /\ ~started
    <3>1. session \in Sessions /\ StartPosition \in Files /\ "Started" \in Events
      BY <2>1, PositionType DEF TypeOK, OpenSession, Events
    <3>2. last' \in Files /\ wire' \in Seq(Reports) /\ pending' \in Files
      BY <1>7, <2>1, <3>1, ToldType, ZeroType
         DEF TracksChanged, StartReporting
    <3> QED
      BY <1>7, <2>1, <3>2
         DEF TracksChanged, StartReporting, playerVars, TypeOK,
             TimersServeTheSession, QueuedIsScheduled, OpenSession
  <2>2. CASE ~(active /\ ~started)
    <3>1. QueueProgress
          /\ UNCHANGED <<playerVars, sessionVars, delay, heartbeat, pending, last, wire>>
      BY <1>7, <2>2 DEF TracksChanged
    <3> QED
      BY <3>1
         DEF QueueProgress, playerVars, sessionVars, TypeOK, Generations,
             TimersServeTheSession, QueuedIsScheduled, OpenSession
  <2> QED
    BY <2>1, <2>2
<1>8. CASE LoadFile
  <2>1. file' \in Files /\ queued' \in Generations /\ timers' \subseteq Generations
    <3>1. file' \in Files
      BY <1>8 DEF LoadFile, TypeOK, Files
    <3>2. QueueProgress
      BY <1>8 DEF LoadFile
    <3> QED
      BY <3>1, <3>2 DEF QueueProgress, TypeOK
  <2>2. (queued' # Nothing => active /\ queued' = generation /\ queued' \in timers')
    BY <1>8 DEF LoadFile, QueueProgress, TimersServeTheSession, QueuedIsScheduled
  <2>3. CASE active /\ ~started
    <3> DEFINE position == IF pending # Nothing THEN pending ELSE file'
    <3>1. session \in Sessions /\ position \in Files /\ "Started" \in Events
      BY <2>1, <2>3 DEF TypeOK, OpenSession, Events
    <3>2. last' = position /\ wire' = <<Told("Started", position)>>
          /\ pending' = Nothing /\ started' = TRUE /\ heartbeat' = TRUE
          /\ UNCHANGED <<active, session, opened, generation, player, delay>>
      BY <1>8, <2>3 DEF LoadFile
    <3> HIDE DEF position
    <3>3. wire' \in Seq(Reports) /\ pending' \in Files
      BY <3>1, <3>2, ToldType DEF Files, Nothing
    <3> QED
      BY <2>1, <2>2, <2>3, <3>1, <3>2, <3>3
         DEF TypeOK, TimersServeTheSession, QueuedIsScheduled, OpenSession
  <2>4. CASE ~(active /\ ~started)
    BY <1>8, <2>1, <2>2, <2>4
       DEF LoadFile, sessionVars, TypeOK, TimersServeTheSession,
           QueuedIsScheduled, OpenSession
  <2> QED
    BY <2>3, <2>4
<1>9. CASE SeekRequested
  <2>1. last' \in Files /\ pending' \in Files
    BY <1>9 DEF SeekRequested, TypeOK
  <2>2. wire' \in Seq(Reports)
    <3>1. CASE active /\ started
      BY <1>9, <3>1, ToldType DEF SeekRequested, TypeOK, OpenSession, Events
    <3>2. CASE ~(active /\ started)
      BY <1>9, <3>2 DEF SeekRequested, TypeOK
    <3> QED
      BY <3>1, <3>2
  <2>3. UNCHANGED <<playerVars, sessionVars, timerVars>>
    BY <1>9 DEF SeekRequested
  <2> QED
    BY <2>1, <2>2, <2>3
       DEF playerVars, sessionVars, timerVars, TypeOK, TimersServeTheSession,
           QueuedIsScheduled, OpenSession
<1>10. CASE FileEnded
  BY <1>10, StopKeepsIInv DEF FileEnded, playerVars, TypeOK
<1>11. CASE StartDelayTimeout
  <2>1. CASE active /\ ~started
    <3>1. session \in Sessions /\ StartPosition \in Files /\ "Started" \in Events
      BY <2>1, PositionType DEF TypeOK, OpenSession, Events
    <3>2. last' \in Files /\ wire' \in Seq(Reports) /\ pending' \in Files
      BY <1>11, <2>1, <3>1, ToldType, ZeroType
         DEF StartDelayTimeout, StartReporting
    <3> QED
      BY <1>11, <2>1, <3>2
         DEF StartDelayTimeout, StartReporting, playerVars, TypeOK,
             TimersServeTheSession, QueuedIsScheduled, OpenSession
  <2>2. CASE ~(active /\ ~started)
    <3>1. delay' = FALSE /\ UNCHANGED <<playerVars, queued, timers>>
      BY <1>11 DEF StartDelayTimeout
    <3>2. UNCHANGED <<sessionVars, heartbeat, pending, last, wire>>
      BY <1>11, <2>2 DEF StartDelayTimeout
    <3> QED
      BY <3>1, <3>2
         DEF playerVars, sessionVars, TypeOK, TimersServeTheSession,
             QueuedIsScheduled, OpenSession
  <2> QED
    BY <2>1, <2>2
<1>12. ASSUME ReportProgress PROVE last' \in Files /\ wire' \in Seq(Reports)
  <2>1. CASE active /\ started
    BY <1>12, <2>1, PositionType, ToldType
       DEF ReportProgress, TypeOK, OpenSession, Events
  <2>2. CASE ~(active /\ started)
    BY <1>12, <2>2 DEF ReportProgress, TypeOK
  <2> QED
    BY <2>1, <2>2
<1>13. CASE HeartbeatTick
  BY <1>12, <1>13
     DEF HeartbeatTick, playerVars, sessionVars, timerVars, TypeOK,
         TimersServeTheSession, QueuedIsScheduled, OpenSession
<1>14. ASSUME NEW g \in Generations, ZeroTimer(g) PROVE IInv'
  <2>1. last' \in Files /\ wire' \in Seq(Reports)
    BY <1>12, <1>14 DEF ZeroTimer, TypeOK
  <2>2. queued' = Nothing \/ (queued' = queued /\ g # queued)
    BY <1>14 DEF ZeroTimer
  <2>3. /\ timers' = timers \ {g}
        /\ UNCHANGED <<playerVars, sessionVars, delay, heartbeat, pending>>
    BY <1>14 DEF ZeroTimer
  <2>4. queued' \in Generations
    BY <2>2 DEF TypeOK, Generations, Nothing
  <2> QED
    BY <2>1, <2>2, <2>3, <2>4
       DEF playerVars, sessionVars, TypeOK, TimersServeTheSession,
           QueuedIsScheduled, OpenSession
<1>15. CASE PortTakes
  <2>1. wire' \in Seq(Reports)
    BY <1>15, HeadTailProperties DEF PortTakes, TypeOK
  <2> QED
    BY <1>15, <2>1
       DEF PortTakes, playerVars, sessionVars, timerVars, TypeOK,
           TimersServeTheSession, QueuedIsScheduled, OpenSession
<1>16. CASE UNCHANGED vars
  BY <1>16 DEF vars, playerVars, sessionVars, timerVars, TypeOK,
               TimersServeTheSession, QueuedIsScheduled, OpenSession
<1> QED
  BY <1>1, <1>2, <1>3, <1>4, <1>5, <1>6, <1>7, <1>8, <1>9, <1>10, <1>11,
     <1>13, <1>14, <1>15, <1>16 DEF Next, Calls, Signals, Timers

THEOREM IInvHolds == Spec => []IInv
<1> QED
  BY InitIInv, StepIInv, PTL DEF Spec

(* Type correctness, the reports handed to the port included.                 *)
THEOREM TypeCorrect == Spec => []TypeOK
BY IInvHolds, PTL DEF IInv

(* Every timer serves the session that is open (the timers of                 *)
(* PlaybackReporter.cpp:124-126, 140-142 are cleared with it).               *)
THEOREM TimersServe == Spec => []TimersServeTheSession
BY IInvHolds, PTL DEF IInv

(* While queueProgress takes a progress turn for queued it is scheduled.      *)
THEOREM QueuedTurnIsScheduled == Spec => []QueuedIsScheduled
BY IInvHolds, PTL DEF IInv
-----------------------------------------------------------------------------
(* Messages, on the short sequences a turn hands to the port. *)
LEMMA MessagesShort ==
  /\ Messages(<<>>) = <<>>
  /\ \A a : Messages(<<a>>) = <<Message(a)>>
  /\ \A a, b : Messages(<<a, b>>) = <<Message(a), Message(b)>>
BY DEF Messages

LEMMA AppendToNothing == \A a : Append(<<>>, a) = <<a>>
<1> SUFFICES ASSUME NEW a PROVE Append(<<>>, a) = <<a>>
  OBVIOUS
<1>1. <<>> \in Seq({a})
  OBVIOUS
<1> QED
  BY <1>1, AppendProperties

LEMMA MessagesType ==
  ASSUME NEW w \in Seq(Reports)
  PROVE  /\ Messages(w) \in Seq({Message(r) : r \in Reports})
         /\ Len(Messages(w)) = Len(w)
         /\ \A i \in 1..Len(w) : Messages(w)[i] = Message(w[i])
<1>1. Len(w) \in Nat /\ \A i \in 1..Len(w) : w[i] \in Reports
  OBVIOUS
<1> QED
  BY <1>1 DEF Messages

LEMMA MessagesTail ==
  ASSUME NEW w \in Seq(Reports), w # <<>>
  PROVE  Messages(w) # <<>> /\ Messages(Tail(w)) = Tail(Messages(w))
<1> DEFINE M == {Message(r) : r \in Reports}
           m == Messages(w)
           t == Messages(Tail(w))
<1>1. /\ Tail(w) \in Seq(Reports) /\ Len(Tail(w)) = Len(w) - 1 /\ Len(w) \in Nat
      /\ Len(w) # 0 /\ \A i \in 1..Len(Tail(w)) : Tail(w)[i] = w[i + 1]
  BY HeadTailProperties
<1>2. /\ m \in Seq(M) /\ Len(m) = Len(w)
      /\ \A i \in 1..Len(w) : m[i] = Message(w[i])
  BY MessagesType
<1>3. /\ t \in Seq(M) /\ Len(t) = Len(w) - 1
      /\ \A i \in 1..Len(t) : t[i] = Message(w[i + 1])
  BY <1>1, MessagesType
<1> HIDE DEF M, m, t
<1>4. m # <<>>
  BY <1>1, <1>2
<1>5. /\ Tail(m) \in Seq(M) /\ Len(Tail(m)) = Len(m) - 1
      /\ \A i \in 1..Len(Tail(m)) : Tail(m)[i] = m[i + 1]
  BY <1>2, <1>4, HeadTailProperties
<1>6. \A i \in 1..Len(t) : t[i] = Tail(m)[i]
  BY <1>1, <1>2, <1>3, <1>5
<1>7. t = Tail(m)
  BY <1>2, <1>3, <1>5, <1>6, SeqEqual
<1> QED
  BY <1>4, <1>7 DEF m, t

(* What a stop reports is what the protocol still owes the open session. *)
LEMMA StopReportsAreDue ==
  ASSUME active
  PROVE  Messages(StopReports) = <<>> \o Protocol!Closing
<1>1. CASE started
  <2>1. StopReports = <<Told("Stopped", Sampled)>>
    BY <1>1 DEF StopReports
  <2>2. Message(Told("Stopped", Sampled)) = Protocol!Message("Stopped")
    BY DEF Message, Told, Protocol!Message
  <2>3. Protocol!Closing = <<Protocol!Message("Stopped")>>
    BY <1>1 DEF Stage, Protocol!Closing
  <2> QED
    BY <2>1, <2>2, <2>3, MessagesShort
<1>2. CASE ~started
  <2>1. PICK f, g : StopReports = <<Told("Started", f), Told("Stopped", g)>>
    BY <1>2 DEF StopReports
  <2>2. /\ Message(Told("Started", f)) = Protocol!Message("Started")
        /\ Message(Told("Stopped", g)) = Protocol!Message("Stopped")
    BY DEF Message, Told, Protocol!Message
  <2>3. Protocol!Closing = <<Protocol!Message("Started"), Protocol!Message("Stopped")>>
    BY <1>2 DEF Stage, Protocol!Closing
  <2> QED
    BY <2>1, <2>2, <2>3, MessagesShort
<1> QED
  BY <1>1, <1>2

(* The three steps of the protocol, recognised by what they leave behind. *)
LEMMA ClosesProtocol ==
  ASSUME wire = <<>>, active, Messages(wire') = <<>> \o Protocol!Closing,
         active' = FALSE, session' = None
  PROVE  Protocol!Close
BY MessagesShort DEF Protocol!Close, Stage

LEMMA StartsProtocol ==
  ASSUME wire = <<>>, active, ~started, active' = active, started' = TRUE,
         session' = session, NEW f, wire' = <<Told("Started", f)>>
  PROVE  Protocol!Start
<1>1. Messages(wire) = <<>> /\ Messages(wire') = <<Message(Told("Started", f))>>
  BY MessagesShort
<1>2. Message(Told("Started", f)) = Protocol!Message("Started")
  BY DEF Message, Told, Protocol!Message
<1>3. Messages(wire') = Append(Messages(wire), Protocol!Message("Started"))
  BY <1>1, <1>2, AppendToNothing
<1>4. Stage = "open" /\ Stage' = "started"
  BY DEF Stage
<1> QED
  BY <1>3, <1>4 DEF Protocol!Start

LEMMA ProgressesProtocol ==
  ASSUME wire = <<>>, active, started, UNCHANGED sessionVars,
         NEW f, wire' = <<Told("Progress", f)>>
  PROVE  Protocol!Progress
<1>1. Messages(wire) = <<>> /\ Messages(wire') = <<Message(Told("Progress", f))>>
  BY MessagesShort
<1>2. Message(Told("Progress", f)) = Protocol!Message("Progress")
  BY DEF Message, Told, Protocol!Message
<1>3. Messages(wire') = Append(Messages(wire), Protocol!Message("Progress"))
  BY <1>1, <1>2, AppendToNothing
<1>4. Stage = "started" /\ Stage' = Stage /\ session' = session
  BY DEF Stage, sessionVars
<1> QED
  BY <1>3, <1>4 DEF Protocol!Progress

LEMMA StuttersProtocol ==
  ASSUME UNCHANGED <<sessionVars, wire>>
  PROVE  UNCHANGED Protocol!vars
BY DEF sessionVars, Stage, Messages, Message, Protocol!vars

LEMMA ReportsProgress ==
  ASSUME wire = <<>>, UNCHANGED sessionVars, ReportProgress
  PROVE  Protocol!Progress \/ UNCHANGED Protocol!vars
BY ProgressesProtocol, StuttersProtocol DEF ReportProgress

LEMMA StepProtocol == IInv /\ [Next]_vars => [Protocol!Next]_(Protocol!vars)
<1> SUFFICES ASSUME IInv, [Next]_vars
             PROVE  Protocol!Next \/ UNCHANGED Protocol!vars
  OBVIOUS
<1>0. Protocol!Close \/ Protocol!Start \/ Protocol!Progress \/ Protocol!Abandon
      \/ Protocol!Take \/ (\E s \in Sessions : Protocol!Open(s)) => Protocol!Next
  BY DEF Protocol!Next
<1>1. ASSUME Turn, active, StopReporting PROVE Protocol!Close
  BY <1>1, StopReportsAreDue, ClosesProtocol DEF Turn, StopReporting, Closed
<1>2. CASE StopSession \/ FileEnded
  BY <1>0, <1>1, <1>2 DEF StopSession, FileEnded
<1>3. CASE AttachPlayer
  <2>1. CASE active
    BY <1>0, <1>1, <1>3, <2>1 DEF AttachPlayer
  <2>2. CASE ~active
    BY <1>3, <2>2, StuttersProtocol DEF AttachPlayer
  <2> QED
    BY <2>1, <2>2
<1>4. CASE AbandonSessionForTransition
  <2>1. Stage' = "closed" /\ session' = None /\ wire' = wire
    BY <1>4 DEF AbandonSessionForTransition, Closed, Stage
  <2>2. Messages(wire)' = Messages(wire)
    BY <2>1 DEF Messages, Message
  <2> QED
    BY <1>0, <2>1, <2>2 DEF Protocol!Abandon
<1>5. ASSUME NEW s \in Sessions, BeginSession(s) PROVE Protocol!Open(s)
  <2>1. Stage' = "open" /\ session' = s
    BY <1>5 DEF BeginSession, Stage
  <2>2. CASE active
    <3>1. wire = <<>> /\ wire' = StopReports
      BY <1>5, <2>2 DEF BeginSession, Turn
    <3>2. Messages(wire') = Messages(wire) \o Protocol!Closing
      BY <2>2, <3>1, StopReportsAreDue, MessagesShort
    <3>3. Stage # "closed"
      BY <2>2 DEF Stage
    <3> QED
      BY <2>1, <3>2, <3>3 DEF Protocol!Open
  <2>3. CASE ~active
    <3>1. Stage = "closed" /\ wire' = wire
      BY <1>5, <2>3 DEF BeginSession, Stage
    <3>2. Messages(wire)' = Messages(wire)
      BY <3>1 DEF Messages, Message
    <3> QED
      BY <2>1, <3>1, <3>2 DEF Protocol!Open
  <2> QED
    BY <2>2, <2>3
<1>6. CASE PlayerDestroyed
  <2>1. CASE active
    <3> DEFINE sampled == IF started \/ pending = Nothing THEN last ELSE pending
    <3>1. wire' = (IF started THEN <<Told("Stopped", sampled)>>
                   ELSE <<Told("Started", sampled), Told("Stopped", sampled)>>)
          /\ active' = FALSE /\ session' = None /\ wire = <<>>
      BY <1>6, <2>1 DEF PlayerDestroyed, Closed, Turn
    <3> HIDE DEF sampled
    <3>2. /\ Message(Told("Started", sampled)) = Protocol!Message("Started")
          /\ Message(Told("Stopped", sampled)) = Protocol!Message("Stopped")
      BY DEF Message, Told, Protocol!Message
    <3>3. Messages(wire') = <<>> \o Protocol!Closing
      <4>1. CASE started
        <5>1. wire' = <<Told("Stopped", sampled)>>
          BY <3>1, <4>1
        <5>2. Protocol!Closing = <<Protocol!Message("Stopped")>>
          BY <2>1, <4>1 DEF Stage, Protocol!Closing
        <5> QED
          BY <5>1, <5>2, <3>2, MessagesShort
      <4>2. CASE ~started
        <5>1. wire' = <<Told("Started", sampled), Told("Stopped", sampled)>>
          BY <3>1, <4>2
        <5>2. Protocol!Closing = <<Protocol!Message("Started"), Protocol!Message("Stopped")>>
          BY <2>1, <4>2 DEF Stage, Protocol!Closing
        <5> QED
          BY <5>1, <5>2, <3>2, MessagesShort
      <4> QED
        BY <4>1, <4>2
    <3> QED
      BY <1>0, <2>1, <3>1, <3>3, ClosesProtocol
  <2>2. CASE ~active
    BY <1>6, <2>2, StuttersProtocol DEF PlayerDestroyed
  <2> QED
    BY <2>1, <2>2
<1>7. CASE PlayerStateChanged
  BY <1>7, StuttersProtocol DEF PlayerStateChanged
<1>8. CASE TracksChanged
  BY <1>0, <1>8, StartsProtocol, StuttersProtocol DEF TracksChanged, StartReporting, Turn
<1>9. CASE LoadFile
  <2>1. CASE active /\ ~started
    <3>1. \E f : wire' = <<Told("Started", f)>>
      BY <1>9, <2>1 DEF LoadFile
    <3> QED
      BY <1>0, <1>9, <2>1, <3>1, StartsProtocol DEF LoadFile, Turn
  <2>2. CASE ~(active /\ ~started)
    BY <1>9, <2>2, StuttersProtocol DEF LoadFile
  <2> QED
    BY <2>1, <2>2
<1>10. CASE SeekRequested
  BY <1>0, <1>10, ProgressesProtocol, StuttersProtocol DEF SeekRequested, Turn
<1>11. CASE StartDelayTimeout
  BY <1>0, <1>11, StartsProtocol, StuttersProtocol
     DEF StartDelayTimeout, StartReporting, Turn
<1>12. CASE HeartbeatTick
  BY <1>0, <1>12, ReportsProgress DEF HeartbeatTick, Turn
<1>13. ASSUME NEW g \in Generations, ZeroTimer(g)
       PROVE  Protocol!Next \/ UNCHANGED Protocol!vars
  <2>1. wire = <<>> /\ UNCHANGED sessionVars
    BY <1>13 DEF ZeroTimer, Turn
  <2>2. ReportProgress \/ UNCHANGED wire
    BY <1>13 DEF ZeroTimer
  <2> QED
    BY <1>0, <2>1, <2>2, ReportsProgress, StuttersProtocol
<1>14. CASE PortTakes
  <2>1. wire \in Seq(Reports) /\ wire # <<>> /\ wire' = Tail(wire)
    BY <1>14 DEF PortTakes, IInv, TypeOK
  <2>2. Messages(wire') = Tail(Messages(wire)) /\ Messages(wire) # <<>>
    BY <2>1, MessagesTail
  <2>3. Stage' = Stage /\ session' = session
    BY <1>14 DEF PortTakes, sessionVars, Stage
  <2> QED
    BY <1>0, <2>2, <2>3 DEF Protocol!Take
<1>15. CASE UNCHANGED vars
  BY <1>15, StuttersProtocol DEF vars
<1> QED
  BY <1>0, <1>2, <1>3, <1>4, <1>5, <1>6, <1>7, <1>8, <1>9, <1>10, <1>11,
     <1>12, <1>13, <1>14, <1>15 DEF Next, Calls, Signals, Timers

(* PlaybackReporter sends Started first, Stopped last, each once, and no       *)
(* report between two sessions, whatever the order of signals and timers.     *)
THEOREM ReporterFollowsProtocol == Spec => FollowsProtocol
<1>1. Init => Protocol!Init
  BY MessagesShort DEF Init, Stage, Protocol!Init
<1> QED
  BY <1>1, IInvHolds, StepProtocol, PTL DEF Spec, FollowsProtocol, Protocol!Spec
=============================================================================
