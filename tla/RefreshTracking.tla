---------------------------- MODULE RefreshTracking ----------------------------
(***************************************************************************)
(* What MediaCoordinator keeps of the library scans and metadata refreshes *)
(* it asked the server for (MediaCoordinatorRefresh.cpp).  The server does *)
(* them later and tells Rust, which hands over each completion once, to    *)
(* the poll of the one-second timer.  Meanwhile the item of a metadata     *)
(* refresh is protected in MediaStore from answers read before it.         *)
(*                                                                         *)
(* Clocks are kept as marks: a scan is stale and a refresh or a release    *)
(* due once its time is over.  Which catalog reads a completion schedules  *)
(* is left out.                                                            *)
(***************************************************************************)
EXTENDS Naturals, FiniteSets

CONSTANTS
  Items,       \* the libraries and items
  None,        \* nothing buffered
  MaxEvents    \* bounds the requests, transitions and completions

VARIABLES
  session,     \* "open", "fenced" during a login or logout, "shut"
  op,          \* the operation of each item the server has not answered yet
  jobs,        \* the items the server is at work on
  notices,     \* completions Rust holds
  poll,        \* "idle", "running", or "finished" with its event queued
  taken,       \* the completions the poll took out of Rust
  pollCurrent, \* the poll was started in this session
  buffered,    \* m_bufferedRefreshProgress
  scans,       \* m_requestedLibraryScans
  stale,       \* scans asked for more than two minutes ago
  hidden,      \* m_hiddenLibraryScanIndicators
  shown,       \* the keys of m_libraryScanProgress
  metadata,    \* m_requestedMetadataRefreshes
  aged,        \* refreshes asked for more than two minutes ago
  protected,   \* m_refreshProtectedItems, protected in the store
  release,     \* the keys of m_refreshProtectionReleaseAtMs
  due,         \* releases whose 30 seconds are over
  recent,      \* m_recentRefreshCompletionsMs, of the running operation
  timer,       \* m_metadataRefreshFallbackTimer is active
  events       \* bounded by MaxEvents

asked == <<scans, stale, hidden, shown, metadata, aged, protected, release, due,
           recent, timer>>
polled == <<poll, taken, pollCurrent, buffered>>
refreshVars == <<session, op, jobs, notices, polled, asked, events>>

Count == events < MaxEvents /\ events' = events + 1

\* pollRefreshProgress.  QFutureWatcher::isRunning is false as soon as the
\* worker is done: a poll whose event is still queued is replaced, and what it
\* took out of Rust is lost with it.
StartPoll ==
  IF session = "open" /\ poll # "running"
  THEN /\ poll' = "running"
       /\ taken' = {}
       /\ pollCurrent' = TRUE
       /\ UNCHANGED buffered
  ELSE UNCHANGED polled

-----------------------------------------------------------------------------
(* The progress messages *)

\* Slip: the timer does not wait for the releases.
TimerNeededSlip == metadata' # {}

\* The timer stays on while a refresh is tracked or a release is waiting.
TimerNeeded == metadata' # {} \/ release' # {}

\* applyRefreshProgress: done are the completed items, seen scans under way.
\* Completions of nobody's request are kept for an operation still running.
Apply(done, seen) ==
  LET expired == scans \ (seen \cup done \cup hidden)
  IN  /\ recent' = recent \cup (done \ (scans \cup metadata))
      /\ hidden' = ((hidden \ seen) \cup (expired \cap stale)) \ done
      /\ shown' = seen \cup (expired \ stale)
      /\ scans' = scans \ done
      /\ stale' = stale \ done
      /\ metadata' = metadata \ done
      /\ aged' = aged \ done
      /\ release' = release \cup (done \cap metadata)
      /\ due' = due \ (done \cap metadata)
      /\ timer' = TimerNeeded
      /\ UNCHANGED protected

PollTick ==
  /\ session = "open" /\ poll # "running"
  /\ StartPoll
  /\ UNCHANGED <<session, op, jobs, notices, asked, events>>

\* The worker takes the completions; or the call fails and takes nothing.
PollReturns ==
  /\ poll = "running"
  /\ poll' = "finished"
  /\ \/ taken' = notices /\ notices' = {}
     \/ taken' = {} /\ UNCHANGED notices
  /\ UNCHANGED <<session, op, jobs, pollCurrent, buffered, asked, events>>

\* finishRefreshProgress
PollDelivered ==
  /\ poll = "finished"
  /\ poll' = "idle"
  /\ taken' = {}
  /\ IF session = "fenced" /\ pollCurrent
     THEN buffered' = taken /\ UNCHANGED asked
     ELSE /\ UNCHANGED buffered
          /\ IF session = "open" /\ pollCurrent
             THEN \E seen \in SUBSET (scans \cap jobs) : Apply(taken, seen \ taken)
             ELSE UNCHANGED asked
  /\ UNCHANGED <<session, op, jobs, notices, pollCurrent, events>>

-----------------------------------------------------------------------------
(* Requests, and the server *)

Request(i, kind) ==
  /\ session = "open" /\ op[i] = "none"
  /\ Count
  /\ op' = [op EXCEPT ![i] = kind]
  /\ recent' = recent \ {i}
  /\ UNCHANGED <<session, jobs, notices, polled, scans, stale, hidden, shown, metadata,
                 aged, protected, release, due, timer>>

\* The server accepted the operation and is done with it some time later; its
\* message may be lost with the connection.
Begins(i) ==
  /\ op[i] # "none" /\ i \notin jobs
  /\ jobs' = jobs \cup {i}
  /\ Count
  /\ UNCHANGED <<session, op, notices, polled, asked>>
Ends(i) ==
  /\ i \in jobs
  /\ jobs' = jobs \ {i}
  /\ notices' \in {notices, notices \cup {i}}
  /\ UNCHANGED <<session, op, polled, asked, events>>

\* trackLibraryScan
TrackScan(i) ==
  /\ IF i \in recent
     THEN UNCHANGED <<scans, stale, hidden, shown>>
     ELSE /\ scans' = scans \cup {i}
          /\ stale' = stale \ {i}
          /\ hidden' = hidden \ {i}
          /\ shown' = shown \cup {i}
  /\ UNCHANGED <<metadata, aged, protected, release, due, recent, timer>>

\* Slip: the release of an earlier refresh goes on.
OtherReleasesSlip(i) == release

\* A new refresh supersedes the release of an earlier one.
OtherReleases(i) == release \ {i}

\* trackMetadataRefresh
TrackMetadata(i) ==
  /\ protected' = protected \cup {i}
  /\ due' = due \ {i}
  /\ timer' = TRUE
  /\ IF i \in recent
     THEN release' = OtherReleases(i) \cup {i} /\ UNCHANGED <<metadata, aged>>
     ELSE /\ release' = OtherReleases(i)
          /\ metadata' = metadata \cup {i}
          /\ aged' = aged \ {i}
  /\ UNCHANGED <<scans, stale, hidden, shown, recent>>

\* finishMutation with refreshStarted, or of a failed operation.
Answered(i) ==
  /\ op[i] # "none"
  /\ op' = [op EXCEPT ![i] = "none"]
  /\ \/ UNCHANGED <<asked, polled>>
     \/ op[i] = "scan" /\ TrackScan(i) /\ StartPoll
     \/ op[i] = "refresh" /\ TrackMetadata(i) /\ StartPoll
  /\ UNCHANGED <<session, jobs, notices, events>>

\* A recent completion is forgotten after 30 seconds.
Forget(i) ==
  /\ i \in recent
  /\ recent' = recent \ {i}
  /\ UNCHANGED <<session, op, jobs, notices, polled, scans, stale, hidden, shown, metadata,
                 aged, protected, release, due, timer, events>>

-----------------------------------------------------------------------------
(* The fallback timer *)

\* pollMetadataRefreshFallbacks
Fallback ==
  /\ timer
  /\ IF session # "open"
     THEN timer' = FALSE /\ UNCHANGED <<metadata, aged, protected, release, due>>
     ELSE /\ protected' = protected \ (due \cup aged)
          /\ release' = release \ due
          /\ due' = {}
          /\ metadata' = metadata \ aged
          /\ aged' = {}
          /\ timer' = TimerNeeded
  /\ UNCHANGED <<session, op, jobs, notices, polled, scans, stale, hidden, shown, recent, events>>

\* Time passes.
Ages ==
  /\ stale' \in {stale, scans}
  /\ aged' \in {aged, metadata}
  /\ due' \in {due, release}
  /\ UNCHANGED <<session, op, jobs, notices, polled, scans, hidden, shown, metadata,
                 protected, release, recent, timer, events>>

-----------------------------------------------------------------------------
(* Session transitions *)

\* sessionTransitionStarted: running operations are detached.
Fence ==
  /\ session = "open"
  /\ Count
  /\ session' = "fenced"
  /\ timer' = FALSE
  /\ op' = [i \in Items |-> "none"]
  /\ UNCHANGED <<jobs, notices, polled, scans, stale, hidden, shown, metadata, aged,
                 protected, release, due, recent>>

\* sessionTransitionAborted: a snapshot taken meanwhile is applied, the timer
\* goes on if it is needed.
Abort ==
  /\ session = "fenced"
  /\ session' = "open"
  /\ IF buffered # None THEN Apply(buffered, {})
     ELSE UNCHANGED <<scans, stale, hidden, shown, metadata, aged, protected, release,
                      due, recent>> /\ timer' = TimerNeeded
  /\ buffered' = None
  /\ UNCHANGED <<op, jobs, notices, poll, taken, pollCurrent, events>>

\* resetRefreshTracking of sessionCommitted and shutdown.
Reset ==
  /\ scans' = {} /\ stale' = {} /\ hidden' = {} /\ shown' = {}
  /\ metadata' = {} /\ aged' = {} /\ protected' = {} /\ release' = {} /\ due' = {}
  /\ recent' = {}
  /\ buffered' = None
Commit ==
  /\ session = "fenced"
  /\ session' = "open"
  /\ Reset
  /\ notices' = {}
  /\ pollCurrent' = FALSE
  /\ UNCHANGED <<op, jobs, poll, taken, timer, events>>
Shutdown ==
  /\ session # "shut"
  /\ session' = "shut"
  /\ Reset
  /\ timer' = FALSE
  /\ op' = [i \in Items |-> "none"]
  /\ UNCHANGED <<jobs, notices, poll, taken, pollCurrent, events>>

Init ==
  /\ session = "open"
  /\ op = [i \in Items |-> "none"]
  /\ jobs = {} /\ notices = {}
  /\ poll = "idle" /\ taken = {} /\ pollCurrent = TRUE /\ buffered = None
  /\ scans = {} /\ stale = {} /\ hidden = {} /\ shown = {}
  /\ metadata = {} /\ aged = {} /\ protected = {} /\ release = {} /\ due = {}
  /\ recent = {} /\ timer = FALSE
  /\ events = 0

\* What goes on by itself: the timer, time, and the end of a login or logout.
Progress == Fallback \/ Ages \/ Abort \/ Commit

Next ==
  \/ Progress \/ PollTick \/ PollReturns \/ PollDelivered
  \/ \E i \in Items :
       \/ \E kind \in {"scan", "refresh"} : Request(i, kind)
       \/ Begins(i) \/ Ends(i) \/ Answered(i) \/ Forget(i)
  \/ Fence \/ Shutdown

Spec == Init /\ [][Next]_refreshVars /\ WF_refreshVars(Progress)

-----------------------------------------------------------------------------

\* The protection of an item is always lifted: whatever becomes of the server's
\* message, the polls and the logins tried meanwhile, the fallback timer runs
\* for as long as an item is protected.
ProtectionEnds == <>[](protected = {})

\* No item is protected for nobody, and none loses its protection to the release
\* of an earlier refresh: protected is what is tracked or waits for its release,
\* never both, and in a session that goes on the timer that lifts it runs
\* exactly then.  A library shows progress exactly while its scan is tracked and
\* its indicator has not expired.
TrackingIsExact ==
  /\ protected = metadata \cup release
  /\ metadata \cap release = {}
  /\ session = "open" => (timer <=> protected # {})
  /\ shown = scans \ hidden
=============================================================================
