------------------------------ MODULE PlaybackStall -------------------------
(***************************************************************************)
(* How MpvVideoItem watches over the file it plays: the load that takes    *)
(* too long to begin, the playback that makes no progress, the pause, the  *)
(* seek and the end of the file (PlaybackStallWatchdog.hpp,                *)
(* PlaybackCompletionGate.hpp and the handlers of MpvVideoItem.cpp that    *)
(* drive them).  The configuration that precedes a load is modelled in     *)
(* MpvVideoItem.                                                           *)
(*                                                                         *)
(* libmpv works on its own thread: what it reports waits in the inbox, in  *)
(* order, while the item opens, stops, seeks and pauses.  An event does    *)
(* not say which load it is about.  Time is the time without progress, in  *)
(* three levels; a sleep of the machine is a gap between two looks at the  *)
(* clock.                                                                  *)
(***************************************************************************)
EXTENDS Naturals, Sequences

CONSTANTS
  MaxEvents,  \* bound: what the user, libmpv and the machine do
  MaxInbox    \* bound: reports of libmpv that wait

StallAssumption == MaxEvents \in Nat /\ MaxInbox \in Nat

VARIABLES
  item,    \* the fields of MpvVideoItem and of its watchdog
  core,    \* libmpv has no file, opens one or plays one
  inbox,   \* reports of libmpv on their way
  events

vars == <<item, core, inbox, events>>

DogStates   == {"inactive", "monitoring", "suspended", "stalled", "timedOut"}
ItemStates  == {"idle", "loading", "playing", "paused", "buffering", "ended"}
Reports ==
  {"loaded", "stopped", "failed", "seeks", "restarts", "advances", "stands",
   "pauses", "resumes", "starves", "feeds", "eof", "rewinds"}

Fresh    == 0   \* less than stallAfterMs without progress
Silent   == 1   \* less than timeoutAfterMs
Hopeless == 2

Init ==
  /\ item = [loaded |-> FALSE, state |-> "idle", timer |-> FALSE,
             late |-> FALSE, dog |-> "inactive", seeking |-> FALSE,
             armed |-> FALSE, reanchor |-> FALSE, quiet |-> Fresh,
             slept |-> FALSE, buffering |-> FALSE, reported |-> FALSE,
             cache |-> FALSE, eof |-> FALSE, handled |-> FALSE,
             wantsPause |-> FALSE, paused |-> FALSE]
  /\ core = "idle"
  /\ inbox = <<>>
  /\ events = 0

-----------------------------------------------------------------------------
\* The watchdog.

IsStalled(s) == s.dog \in {"stalled", "timedOut"}

\* A long gap between two looks at the clock begins a new grace period.
Normalized(s) ==
  IF s.slept THEN [s EXCEPT !.quiet = Fresh, !.slept = FALSE] ELSE s

NoSeek(s) ==
  [s EXCEPT !.seeking = FALSE, !.armed = FALSE, !.reanchor = FALSE]

\* What the item shows of a file that is loaded and has not ended.
Refreshed(s) ==
  IF ~ s.loaded \/ s.handled THEN s
  ELSE [s EXCEPT !.state = IF s.wantsPause THEN "paused"
                           ELSE IF s.cache \/ s.buffering THEN "buffering"
                           ELSE "playing"]

\* The time without progress is held against the limits.
Judged(s) ==
  IF s.dog # "timedOut" /\ s.quiet = Hopeless
    THEN Refreshed([s EXCEPT !.dog = "timedOut", !.buffering = TRUE,
                             !.reported = TRUE])
  ELSE IF s.dog = "monitoring" /\ s.quiet = Silent
    THEN Refreshed([s EXCEPT !.dog = "stalled", !.buffering = TRUE])
  ELSE s

\* Progress is the only thing that ends a stall.
Advanced(s) ==
  LET moved == [s EXCEPT !.quiet = Fresh, !.dog = "monitoring"]
  IN  IF IsStalled(s)
        THEN Refreshed([moved EXCEPT !.buffering = FALSE, !.reported = FALSE])
        ELSE moved

ObservePosition(s, advances) ==
  LET n == Normalized(s)
  IN  IF s.dog = "inactive" THEN s
      ELSE IF s.dog = "suspended" THEN n
      ELSE IF s.seeking THEN Judged(n)
      ELSE IF s.reanchor THEN Judged([n EXCEPT !.reanchor = FALSE])
      ELSE IF advances THEN Advanced(n)
      ELSE Judged(n)

MarkStalled(s) ==
  IF s.dog \in {"monitoring", "stalled"}
    THEN [Normalized(s) EXCEPT !.dog = "stalled"] ELSE s

BeginSeek(s) ==
  IF s.dog \in {"inactive", "suspended"} THEN s
  ELSE [NoSeek(s) EXCEPT !.seeking = TRUE, !.quiet = Fresh, !.slept = FALSE]

SeekStarted(s) ==
  IF s.dog \in {"inactive", "suspended"} THEN s
  ELSE IF s.seeking THEN [s EXCEPT !.armed = TRUE]
  ELSE [BeginSeek(s) EXCEPT !.armed = TRUE]

Restarted(s) ==
  IF s.dog \in {"inactive", "suspended"} \/ ~ s.seeking \/ ~ s.armed THEN s
  ELSE [NoSeek(Normalized(s)) EXCEPT !.reanchor = TRUE]

WatchPaused(s) ==
  IF s.dog = "inactive" THEN s
  ELSE [NoSeek(Normalized(s)) EXCEPT
          !.dog = "suspended", !.buffering = s.buffering /\ ~ IsStalled(s)]

\* A timeout that was reported is still one after the pause.
WatchResumed(s) ==
  LET n == IF s.dog = "suspended"
             THEN [NoSeek(s) EXCEPT !.dog = "monitoring", !.quiet = Fresh,
                                    !.slept = FALSE]
             ELSE IF s.dog = "inactive" THEN s ELSE Normalized(s)
  IN  IF s.reported THEN [MarkStalled(n) EXCEPT !.buffering = TRUE] ELSE n

-----------------------------------------------------------------------------
\* The item.

PauseMonitored(s, paused) ==
  IF ~ s.loaded \/ s.handled THEN s
  ELSE Refreshed(IF paused THEN WatchPaused(s) ELSE WatchResumed(s))

ResetStall(s) ==
  [NoSeek(s) EXCEPT !.timer = FALSE, !.dog = "inactive", !.quiet = Fresh,
                    !.slept = FALSE, !.late = FALSE, !.buffering = FALSE,
                    !.reported = FALSE]

NoFile(s) ==
  [ResetStall(s) EXCEPT !.loaded = FALSE, !.cache = FALSE]

Opened(s) ==
  [NoFile(s) EXCEPT !.wantsPause = s.paused, !.eof = FALSE,
                    !.handled = FALSE, !.state = "loading", !.timer = TRUE]

Stopped(s) ==
  [NoFile(s) EXCEPT !.eof = FALSE, !.handled = FALSE, !.state = "idle"]

Sought(s) == IF s.loaded THEN [BeginSeek(s) EXCEPT !.timer = TRUE] ELSE s

\* Slip: a file that loads late is watched like one that loads in time.
LoadedSlip(s) ==
  Refreshed([NoSeek(s) EXCEPT
               !.loaded = TRUE, !.eof = FALSE, !.handled = FALSE,
               !.dog = IF s.wantsPause THEN "suspended" ELSE "monitoring",
               !.quiet = Fresh, !.slept = FALSE, !.timer = TRUE])

\* A file that loads after its load was reported late begins as a stall.
Loaded(s) ==
  LET a == [NoSeek(s) EXCEPT
              !.loaded = TRUE, !.eof = FALSE, !.handled = FALSE,
              !.dog = IF s.wantsPause THEN "suspended" ELSE "monitoring",
              !.quiet = Fresh, !.slept = FALSE,
              !.buffering = s.reported /\ ~ s.wantsPause]
      b == IF a.buffering THEN MarkStalled(a) ELSE a
  IN  Refreshed([b EXCEPT !.timer = TRUE])

Ended(s, state) == [NoFile(s) EXCEPT !.state = state]

\* Only the first time that the end is reached counts for a load.
EofSeen(s, value) ==
  LET seen == [s EXCEPT !.eof = value]
  IN  IF value /\ ~ s.eof /\ s.loaded /\ ~ s.handled
        THEN [ResetStall(seen) EXCEPT !.handled = TRUE, !.cache = FALSE,
                                      !.state = "ended"]
        ELSE seen

PauseSeen(s, value) ==
  PauseMonitored([s EXCEPT !.paused = value, !.wantsPause = value], value)

-----------------------------------------------------------------------------
\* The calls of the user's.

Event ==
  /\ events < MaxEvents
  /\ events' = events + 1

Report(r) == Append(inbox, r)

\* libmpv gives up the file it has before it takes another one.
GivesUp == IF core = "idle" THEN inbox ELSE Report("stopped")

Open ==
  /\ Event
  /\ Len(inbox) < MaxInbox
  /\ item' = Opened(item)
  /\ core' = "opening"
  /\ inbox' = GivesUp

StopPlayback ==
  /\ Event
  /\ Len(inbox) < MaxInbox
  /\ item' = Stopped(item)
  /\ core' = "idle"
  /\ inbox' = GivesUp

Seek ==
  /\ Event
  /\ item' = Sought(item)
  /\ UNCHANGED <<core, inbox>>

\* libmpv may refuse the property at once.
SetPaused(paused, accepted) ==
  /\ Event
  /\ Len(inbox) < MaxInbox
  /\ LET s == PauseMonitored([item EXCEPT !.wantsPause = paused], paused)
     IN  item' = IF accepted THEN s
                 ELSE PauseMonitored([s EXCEPT !.wantsPause = s.paused],
                                     s.paused)
  /\ inbox' = IF accepted THEN Report(IF paused THEN "pauses" ELSE "resumes")
              ELSE inbox
  /\ UNCHANGED core

-----------------------------------------------------------------------------
\* libmpv.

CoreLoads ==
  /\ core = "opening"
  /\ Len(inbox) < MaxInbox
  /\ core' = "playing"
  /\ inbox' = Report("loaded")
  /\ UNCHANGED <<item, events>>

CoreFails ==
  /\ Event
  /\ core # "idle"
  /\ Len(inbox) < MaxInbox
  /\ core' = "idle"
  /\ inbox' = Report("failed")
  /\ UNCHANGED item

CoreReports(r) ==
  /\ Event
  /\ core = "playing"
  /\ Len(inbox) < MaxInbox
  /\ inbox' = Report(r)
  /\ UNCHANGED <<item, core>>

Handled(s, r) ==
  CASE r = "loaded"   -> Loaded(s)
    [] r = "stopped"  -> Ended(s, "idle")
    [] r = "failed"   -> Ended(s, "ended")
    [] r = "seeks"    -> IF s.loaded THEN SeekStarted(s) ELSE s
    [] r = "restarts" -> IF s.loaded THEN Restarted(s) ELSE s
    [] r = "advances" -> IF s.loaded THEN ObservePosition(s, TRUE) ELSE s
    [] r = "stands"   -> IF s.loaded THEN ObservePosition(s, FALSE) ELSE s
    [] r = "pauses"   -> PauseSeen(s, TRUE)
    [] r = "resumes"  -> PauseSeen(s, FALSE)
    [] r = "starves"  -> Refreshed([s EXCEPT !.cache = TRUE])
    [] r = "feeds"    -> Refreshed([s EXCEPT !.cache = FALSE])
    [] r = "eof"      -> EofSeen(s, TRUE)
    [] r = "rewinds"  -> EofSeen(s, FALSE)

\* The drain takes all that waits; a report that is taken later may as well
\* have come later, so a step takes one.
DrainEvents ==
  /\ inbox # <<>>
  /\ item' = Handled(item, Head(inbox))
  /\ inbox' = Tail(inbox)
  /\ UNCHANGED <<core, events>>

-----------------------------------------------------------------------------
\* The clock and the timer that looks at it.

Tick ==
  /\ item.timer
  /\ item' = IF item.loaded
               THEN [item EXCEPT !.quiet = IF item.quiet = Fresh THEN Silent
                                           ELSE Hopeless]
               ELSE [item EXCEPT !.late = TRUE]
  /\ UNCHANGED <<core, inbox, events>>

Sleep ==
  /\ Event
  /\ item.timer
  /\ item' = [item EXCEPT !.slept = TRUE]
  /\ UNCHANGED <<core, inbox>>

\* A load that has not begun in time is reported once.
PolledLoad(s) ==
  IF s.slept THEN [s EXCEPT !.slept = FALSE, !.late = FALSE]
  ELSE IF s.state = "loading" /\ s.late THEN [s EXCEPT !.reported = TRUE]
  ELSE s

\* Slip: a stall is waited out, not judged again.
PolledFileSlip(s) ==
  IF s.dog = "monitoring" /\ ~ s.slept THEN Judged(s) ELSE Normalized(s)

PolledFile(s) ==
  IF s.dog = "inactive" THEN s
  ELSE IF s.slept \/ s.dog \in {"suspended", "timedOut"} THEN Normalized(s)
  ELSE Judged(s)

PollPlaybackStall ==
  /\ item.timer
  /\ item' = IF item.loaded THEN PolledFile(item) ELSE PolledLoad(item)
  /\ UNCHANGED <<core, inbox, events>>

Next ==
  \/ Open
  \/ StopPlayback
  \/ Seek
  \/ \E paused, accepted \in BOOLEAN : SetPaused(paused, accepted)
  \/ CoreLoads
  \/ CoreFails
  \/ \E r \in Reports \ {"loaded", "stopped", "failed", "pauses", "resumes"} :
       CoreReports(r)
  \/ DrainEvents
  \/ Tick
  \/ Sleep
  \/ PollPlaybackStall

\* Time passes, the timer of the GUI thread fires and what libmpv reports is
\* taken; whether libmpv loads a file or reports anything is its own affair.
Fairness ==
  /\ WF_vars(DrainEvents)
  /\ WF_vars(Tick)
  /\ WF_vars(PollPlaybackStall)

Spec == Init /\ [][Next]_vars /\ Fairness

-----------------------------------------------------------------------------
StallType ==
  /\ item \in
       [loaded : BOOLEAN, state : ItemStates, timer : BOOLEAN, late : BOOLEAN,
        dog : DogStates, seeking : BOOLEAN, armed : BOOLEAN,
        reanchor : BOOLEAN, quiet : {Fresh, Silent, Hopeless},
        slept : BOOLEAN, buffering : BOOLEAN, reported : BOOLEAN,
        cache : BOOLEAN, eof : BOOLEAN, handled : BOOLEAN,
        wantsPause : BOOLEAN, paused : BOOLEAN]
  /\ core \in {"idle", "opening", "playing"}
  /\ inbox \in Seq(Reports)
  /\ Len(inbox) <= MaxInbox
  /\ events \in 0 .. MaxEvents

\* While a file plays, the item shows a stall exactly when the watchdog is in
\* one, and a timeout that was reported is one that progress, after the pause
\* if there is one, will end: no report is left without its recovery.
StallIsShown ==
  item.loaded /\ ~ item.handled =>
    /\ item.timer
    /\ item.buffering <=> IsStalled(item)
    /\ item.reported => IsStalled(item) \/ item.dog = "suspended"

\* A file that is watched makes progress, pauses, ends or is reported.
SilenceIsReported ==
  (item.loaded /\ item.dog \in {"monitoring", "stalled"})
    ~> (item.reported \/ item.dog \in {"inactive", "suspended"})
=============================================================================
