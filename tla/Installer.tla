------------------------------- MODULE Installer -------------------------------
(***************************************************************************)
(* The Windows installer: its window (InstallerMain.cpp), the thread that  *)
(* installs, and the shortcut it writes or removes (InstallerShortcuts     *)
(* .cpp), beside other programs that install Yanami, or change the         *)
(* shortcut, at the same time.                                             *)
(*                                                                         *)
(* The two shortcuts are handled alike, one after the other: one is kept,  *)
(* by whose file it is.  Writing the payload out and verifying it succeeds *)
(* or fails; texts, layout and languages are left out.                     *)
(***************************************************************************)
EXTENDS Naturals, FiniteSets

CONSTANTS
  Dirs,        \* the directories the user may choose
  Child,       \* Child[d]: the free name the installer proposes inside d
  None,        \* no directory, nothing registered
  MaxEvents    \* bounds the user, the other programs and the failed drawings

InstallerAssumption ==
  /\ None \notin Dirs /\ Child \in [Dirs -> Dirs]
  /\ MaxEvents \in Nat

VARIABLES
  page,        \* page_, or "closed"
  registry,    \* the install location Windows has registered
  known,       \* registeredInstall_, read before
  chosen,      \* installDirectory_
  selected,    \* selectedDirectory_, what the user chose before the last attempt
  occupied,    \* the directories that are not empty
  worker,      \* where performInstall is
  succeeded,   \* outcome->success
  wanted,      \* the shortcut is selected
  link,        \* the file at the shortcut's path: "none", "own" or "foreign"
  seen,        \* what inspectShortcut found
  same,        \* the file is the one inspected
  failed,      \* renderHadFailure_
  queued,      \* renderRecoveryQueued_, with its message
  attempts,    \* renderRecoveryAttempts_
  unavailable, \* renderUnavailable_
  box,         \* the message box that says so is open
  events       \* bounded by MaxEvents

wizard == <<page, known, chosen, selected>>
disk == <<registry, occupied>>
shortcut == <<wanted, link, seen, same>>
drawing == <<failed, queued, attempts, unavailable, box>>
installerVars == <<wizard, disk, worker, succeeded, shortcut, drawing, events>>

Count == events < MaxEvents /\ events' = events + 1

\* resolveInstallDirectory: a registered installation is repaired in its own
\* directory; a new one goes to an empty directory, the chosen one or a child.
Resolved(d, registered) ==
  IF registered # None
  THEN IF registered \in {d, IF d \in occupied THEN Child[d] ELSE d} THEN registered ELSE None
  ELSE IF d \notin occupied THEN d
  ELSE IF Child[d] \notin occupied THEN Child[d] ELSE None

-----------------------------------------------------------------------------
(* The window *)

\* reviewInstallOptions
Review(d) ==
  /\ page' = "options"
  /\ chosen' = IF known' # None THEN known' ELSE IF selected # None THEN selected ELSE d
  /\ UNCHANGED <<selected, worker>>

\* beginInstall: an installation registered elsewhere meanwhile is shown first.
Begin(d) ==
  IF registry # None /\ d # registry THEN Review(d)
  ELSE IF Resolved(d, registry) = None
  THEN chosen' = d /\ UNCHANGED <<page, selected, worker>>
  ELSE /\ selected' = d
       /\ chosen' = Resolved(d, registry)
       /\ page' = "installing"
       /\ worker' = "validate"

\* IdContinue, IdBack, the edits of the options page, IdInstall, IdRetry,
\* IdReviewOptions, and IDCANCEL or WM_CLOSE, refused while installing.
User ==
  /\ ~ box /\ Count
  /\ \/ /\ page = "welcome"
        /\ page' = "options" /\ known' = registry
        /\ chosen' = IF registry # None THEN registry ELSE chosen
        /\ UNCHANGED <<selected, worker, wanted>>
     \/ /\ page = "options"
        /\ \/ page' = "welcome" /\ UNCHANGED <<known, chosen, selected, worker, wanted>>
           \/ /\ chosen' \in IF known = None THEN Dirs ELSE {chosen}
              /\ wanted' \in BOOLEAN
              /\ UNCHANGED <<page, known, selected, worker>>
           \/ known' = registry /\ Begin(chosen) /\ UNCHANGED wanted
     \/ /\ page = "recovery"
        /\ known' \in {known, registry}
        /\ UNCHANGED wanted
        /\ \/ known' = known /\ Review(chosen)
           \/ LET d == IF registry = None /\ selected # None THEN selected ELSE chosen
              IN  /\ known' = registry
                  /\ IF Resolved(d, registry) = None THEN Review(d) ELSE Begin(d)
     \/ /\ page \in {"welcome", "options", "recovery", "complete"}
        /\ page' = "closed"
        /\ UNCHANGED <<known, chosen, selected, worker, wanted>>
  /\ UNCHANGED <<disk, succeeded, link, seen, same, drawing>>

\* handleInstallFinished: without a display the result is told in a message
\* box and the window is destroyed.
Finished ==
  /\ worker = "posted"
  /\ worker' = "idle"
  /\ known' = registry
  /\ page' = IF unavailable THEN "closed" ELSE IF succeeded THEN "complete" ELSE "recovery"
  /\ box' = (box /\ page' # "closed")
  /\ UNCHANGED <<chosen, selected, disk, succeeded, shortcut, failed, queued, attempts,
                 unavailable, events>>

-----------------------------------------------------------------------------
(* The drawing *)

\* requestRenderRecovery
DrawFails ==
  /\ page # "closed" /\ Count
  /\ failed' = TRUE
  /\ queued' = (queued \/ ~ unavailable)
  /\ UNCHANGED <<wizard, disk, worker, succeeded, shortcut, attempts, unavailable, box>>

\* WM_SIZE of a minimized window: a queued recovery stays queued.
Minimized ==
  /\ failed /\ page # "closed"
  /\ failed' = FALSE /\ attempts' = 0
  /\ UNCHANGED <<wizard, disk, worker, succeeded, shortcut, queued, unavailable, box, events>>

\* kRenderRecoveryMessage: three failures in a row end the window, or leave it
\* undrawn until the installation is over.  The box runs a message loop.
Recovery ==
  /\ queued /\ page # "closed"
  /\ \/ failed' = FALSE /\ queued' = FALSE /\ attempts' = 0 /\ UNCHANGED <<unavailable, box>>
     \/ /\ failed
        /\ IF attempts + 1 < 3
           THEN /\ failed' = TRUE /\ queued' = TRUE /\ attempts' = attempts + 1
                /\ UNCHANGED <<unavailable, box>>
           ELSE /\ failed' = TRUE /\ queued' = FALSE /\ attempts' = 3
                /\ unavailable' = TRUE /\ box' = TRUE
  /\ UNCHANGED <<wizard, disk, worker, succeeded, shortcut, events>>
CloseBox ==
  /\ box
  /\ box' = FALSE
  /\ page' = IF page = "installing" THEN page ELSE "closed"
  /\ UNCHANGED <<known, chosen, selected, disk, worker, succeeded, shortcut, failed, queued,
                 attempts, unavailable, events>>

-----------------------------------------------------------------------------
(* The thread *)

Ends(success) == worker' = "posted" /\ succeeded' = success

\* performInstall reads the registration again, whatever the window knew.
Validate ==
  /\ worker = "validate"
  /\ IF IF registry # None THEN chosen = registry ELSE chosen \notin occupied
     THEN worker' = "prepare" /\ UNCHANGED succeeded
     ELSE Ends(FALSE)
  /\ UNCHANGED <<wizard, disk, shortcut, drawing, events>>

\* The write probe, the private directory and the verified payload.
Prepare ==
  /\ worker = "prepare"
  /\ \/ worker' = "backend" /\ UNCHANGED succeeded
     \/ Ends(FALSE)
  /\ UNCHANGED <<wizard, disk, shortcut, drawing, events>>

\* runBackend: it registers the installation, or fails with some files written.
Backend ==
  /\ worker = "backend"
  /\ occupied' \in {occupied, occupied \cup {chosen}}
  /\ \/ /\ chosen \in occupied' /\ registry' = chosen
        /\ worker' = "inspect" /\ UNCHANGED succeeded
     \/ UNCHANGED registry /\ Ends(FALSE)
  /\ UNCHANGED <<wizard, shortcut, drawing, events>>

\* inspectShortcut: the file cannot change while it is held.
Inspect ==
  /\ worker = "inspect"
  /\ worker' = "link"
  /\ seen' = link /\ same' = TRUE
  /\ UNCHANGED <<wizard, disk, succeeded, wanted, link, drawing, events>>

\* Slip: the file that is there is not compared with the one inspected.
UnchangedSlip == TRUE

\* removeOwned checks identity and bytes of the file it reopens; a new shortcut
\* never replaces a file; a selected one replaces the file that was found.
Unchanged == same
Updated ==
  IF wanted
  THEN IF seen = "none" THEN IF link = "none" THEN "own" ELSE link
       ELSE IF link = "none" THEN link ELSE "own"
  ELSE IF seen = "own" /\ Unchanged THEN "none" ELSE link
Link ==
  /\ worker = "link"
  /\ link' \in {link, Updated}
  /\ Ends(TRUE)
  /\ UNCHANGED <<wizard, disk, wanted, seen, same, drawing, events>>

-----------------------------------------------------------------------------
(* Other programs *)

Others ==
  /\ Count
  /\ \/ \E d \in Dirs : /\ registry' = d /\ occupied' = occupied \cup {d}
                        /\ UNCHANGED <<link, same>>
     \/ registry' = None /\ UNCHANGED <<occupied, link, same>>
     \/ /\ link' \in {"none", "own", "foreign"}
        /\ same' = FALSE
        /\ UNCHANGED disk
  /\ UNCHANGED <<wizard, worker, succeeded, wanted, seen, drawing>>

Init ==
  /\ page = "welcome"
  /\ registry \in Dirs \cup {None}
  /\ known = registry
  /\ chosen \in IF registry # None THEN {registry} ELSE Dirs
  /\ selected = None
  /\ occupied \in SUBSET Dirs /\ (registry # None => registry \in occupied)
  /\ worker = "idle" /\ succeeded = FALSE
  /\ wanted = FALSE
  /\ link \in {"none", "own", "foreign"}
  /\ seen = "none" /\ same = FALSE
  /\ failed = FALSE /\ queued = FALSE /\ attempts = 0 /\ unavailable = FALSE /\ box = FALSE
  /\ events = 0

Next ==
  \/ User \/ Finished \/ DrawFails \/ Minimized \/ Recovery \/ CloseBox
  \/ Validate \/ Prepare \/ Backend \/ Inspect \/ Link
  \/ Others

Spec == Init /\ [][Next]_installerVars

-----------------------------------------------------------------------------

\* The installation takes away a file that is not its own only where the user
\* selected the shortcut and a file was found there: one put in its place after
\* the inspection is kept, whichever moment that was.
ForeignShortcutKept ==
  [][Link /\ link = "foreign" /\ link' # "foreign" => wanted /\ seen # "none"]_installerVars
=============================================================================
