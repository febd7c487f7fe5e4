------------------------------ MODULE MCSession ------------------------------
(***************************************************************************)
(* The session and what belongs to it, in two runs: the Rust session with  *)
(* the threads that serve it, or the playback that is reported to it; and  *)
(* the desktop's presentation of a catalog, which has to be that of the    *)
(* committed account.  They share no state here: a behaviour takes steps   *)
(* of one of them.                                                         *)
(***************************************************************************)
EXTENDS EmbySession, TLC

CONSTANTS
  Items, Collections, Accounts, Lost, Reads, MaxEvents,
  ReportSessions, MaxRequests, MaxGeneration, QueueBound

VARIABLES
  part,  \* the component of this behaviour
  \* CatalogCoordinator
  server, view, fields, rows, coll, lanes, queue, lane, known, todo, mutation,
  count,
  \* PlaybackReporting
  session, fenced, shuttingDown, called, latest, latestGeneration,
  activePrepare, queuedPrepare, prepareJob, prepareDone, afterStop,
  afterStopOf, afterStopSerial, timers, reportQueue, activeReport, reportDone,
  outcome, stage, reporting, wire, calling, shown, playing, result, taken,
  given, undisturbed, heard

Catalog   == INSTANCE CatalogCoordinator
Reporting == INSTANCE PlaybackReporting
               WITH playback <- playing, issued <- given, stopped <- heard

\* What the catalog and the reports assume of their constants.
ASSUME NavigationAssumption == Catalog!CatalogAssumption
ASSUME ReportsAssumption ==
  /\ {MaxRequests, MaxGeneration, QueueBound} \subseteq Nat
  /\ None \notin ReportSessions \cup Reporting!Reports

catalogVars ==
  <<server, view, fields, rows, coll, lanes, queue, lane, known, todo, mutation,
    count>>
playVars ==
  <<session, fenced, shuttingDown, called, latest, latestGeneration,
    activePrepare, queuedPrepare, prepareJob, prepareDone, afterStop,
    afterStopOf, afterStopSerial, timers, reportQueue, activeReport, reportDone,
    outcome, stage, reporting, wire, calling, shown, playing, result, taken,
    given, undisturbed, heard>>
allVars == <<part, vars, catalogVars, playVars>>

Symmetry == Permutations(Worker)

\* A component that was not picked keeps one initial state.
SessionInit ==
  /\ part \in {"account", "reports"}
  /\ Init /\ Catalog!Init /\ Reporting!ReportingInit
  /\ part = "account" => ~session.connected

AccountAlone == part = "account" /\ UNCHANGED <<part, catalogVars, playVars>>
ReportsAlone == part = "reports" /\ UNCHANGED <<part, vars, catalogVars>>

SessionNext ==
  \/ AccountAlone /\ Next
  \/ ReportsAlone /\ Reporting!ReportingNext

SessionSpec == SessionInit /\ [][SessionNext]_allVars

NavigationInit ==
  /\ part = "catalog"
  /\ Init /\ Catalog!Init /\ Reporting!ReportingInit
  /\ ~session.connected

NavigationSpec ==
  /\ NavigationInit
  /\ [][Catalog!Next /\ UNCHANGED <<part, vars, playVars>>]_allVars
  /\ WF_catalogVars(Catalog!Progress)

\* The properties of the catalog and of the reports, stated where they are.
ShownIsOfSession     == Catalog!ShownIsOfSession
CatalogSettles       == Catalog!CatalogSettles
StoppedFindsPlayback == Reporting!StoppedFindsPlayback
=============================================================================
