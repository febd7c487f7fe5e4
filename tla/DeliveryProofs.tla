---------------------------- MODULE DeliveryProofs ----------------------------
(***************************************************************************)
(* The safety of the five parts of the delivery, for all values of the     *)
(* constants: any number of launches, asset sets, responses, directories,  *)
(* changes and failures.  Each part has an inductive invariant of its own; *)
(* the other parts leave its variables alone.                              *)
(***************************************************************************)
EXTENDS MCDelivery, FiniteSetTheorems, TLAPS

\* A step of the whole is a step of each part, or leaves the part as it is.
LEMMA PartSteps ==
  ASSUME [Next]_vars
  PROVE  /\ [Images!Next]_imageVars
         /\ [Update!Next]_updateVars
         /\ [Boot!Next]_bootVars
         /\ [Assets!Next]_assetVars
         /\ [Install!Next]_installerVars
<1>1. CASE UNCHANGED vars
  BY <1>1 DEF vars
<1>2. CASE ImagesAlone /\ Images!Next
  BY <1>2 DEF ImagesAlone
<1>3. CASE UpdateAlone /\ Update!Next
  BY <1>3 DEF UpdateAlone
<1>4. CASE BootAlone /\ Boot!Next
  BY <1>4 DEF BootAlone
<1>5. CASE AssetsAlone /\ Assets!Next
  BY <1>5 DEF AssetsAlone
<1>6. CASE InstallAlone /\ Install!Next
  BY <1>6 DEF InstallAlone
<1> QED
  BY <1>1, <1>2, <1>3, <1>4, <1>5, <1>6 DEF Next

-----------------------------------------------------------------------------
\* Bootstrap.
BootPlaces == {"new", "launching", "waiting", "looked", "fading", "handed", "done"}
BootCodes == {"hook", "existing", "failed", "cancelled", "child", "success", "invalid", "timeout"}
BootHandles == [of : Launches, as : {"launcher", "desktop"}]

BootShape ==
  /\ at \in [Launches -> BootPlaces] /\ lock \subseteq BootHandles
  /\ desktop \in [Launches -> {"none", "running", "closing", "gone"}]
BootSignals ==
  /\ result \in [Launches -> BootCodes \cup {"none"}]
  /\ published \in [Launches -> {"no", "file", "event", "failed"}]

Alive(l) == desktop[l] \in {"running", "closing"}
Works(l) == at[l] \in {"launching", "waiting", "looked", "fading", "handed"}

\* Whoever works or runs holds a handle, and all handles are of one launch:
\* a launcher enters only when there is none, and hands on only its own.
BootLock ==
  /\ \A l \in Launches : Alive(l) => Boot!Desktop(l) \in lock
  /\ \A l \in Launches : Works(l) => Boot!Launcher(l) \in lock
  /\ \A x, y \in lock : x.of = y.of

\* A launcher that lets the splash fade has seen the signal, and one that was
\* done with "success" starts no desktop any more, so the signal stays.
BootShown ==
  \A l \in Launches :
    /\ at[l] = "fading" => published[l] # "no"
    /\ result[l] = "success" => at[l] = "done" /\ published[l] # "no"

\* Whoever watches a desktop has started one.
BootStarted ==
  \A l \in Launches :
    at[l] \in {"waiting", "looked", "fading", "handed"} => desktop[l] # "none"

BootInv == BootShape /\ BootSignals /\ BootLock /\ BootShown /\ BootStarted

-----------------------------------------------------------------------------
\* Handles tell their launch and their holder.
LEMMA HandleFacts ==
  ASSUME NEW l \in Launches
  PROVE  /\ Boot!Launcher(l) \in BootHandles /\ Boot!Desktop(l) \in BootHandles
         /\ Boot!Launcher(l).of = l /\ Boot!Desktop(l).of = l
         /\ \A k \in Launches : Boot!Launcher(l) # Boot!Desktop(k)
         /\ \A k \in Launches : Boot!Launcher(l) = Boot!Launcher(k) => l = k
         /\ \A k \in Launches : Boot!Desktop(l) = Boot!Desktop(k) => l = k
  BY DEF Boot!Launcher, Boot!Desktop, BootHandles

\* The invariant gives the property.
LEMMA OneHolder == BootInv => Boot!OneDesktop
<1> SUFFICES ASSUME BootInv PROVE Boot!OneDesktop
  OBVIOUS
<1>1. ASSUME NEW k \in Launches, NEW l \in Launches,
             {desktop[k], desktop[l]} \subseteq {"running", "closing"}
      PROVE  k = l
  <2>1. Boot!Desktop(k) \in lock /\ Boot!Desktop(l) \in lock
    BY <1>1 DEF BootInv, BootLock, Alive
  <2> QED
    BY <2>1, HandleFacts DEF BootInv, BootLock
<1>2. \A l \in Launches : result[l] = "success" => published[l] # "no"
  BY DEF BootInv, BootShown
<1> QED
  BY <1>1, <1>2 DEF Boot!OneDesktop

LEMMA BootInit == Boot!Init => BootInv
<1> SUFFICES ASSUME Boot!Init PROVE BootInv
  OBVIOUS
<1>1. BootShape /\ BootSignals
  BY DEF Boot!Init, BootShape, BootSignals, BootPlaces, BootHandles, BootCodes
<1>2. BootLock
  BY DEF Boot!Init, BootLock, Alive, Works
<1>3. BootShown /\ BootStarted
  BY DEF Boot!Init, BootShown, BootStarted
<1> QED
  BY <1>1, <1>2, <1>3 DEF BootInv

\* A launcher that leaves: only its own handles go, and those of its desktop
\* only if the desktop is killed.
LEMMA LeaveKeeps ==
  ASSUME BootInv, NEW l \in Launches, NEW killed \in BOOLEAN, NEW code \in BootCodes,
         Boot!Leave(l, code, killed), published' = published,
         code = "success" => published[l] # "no"
  PROVE  BootInv'
<1> USE DEF Boot!Leave
<1>1. BootShape' /\ BootSignals'
  BY DEF BootInv, BootShape, BootSignals, BootPlaces, BootCodes
<1>2. \A k \in Launches : Alive(k)' => Boot!Desktop(k)' \in lock'
  <2> SUFFICES ASSUME NEW k \in Launches, Alive(k)'
               PROVE  Boot!Desktop(k) \in lock'
    BY DEF Boot!Desktop
  <2>1. Alive(k) /\ (killed => k # l)
    BY DEF Alive, BootInv, BootShape
  <2>2. Boot!Desktop(k) \in lock /\ Boot!Desktop(k) # Boot!Launcher(l)
    BY <2>1, HandleFacts DEF BootInv, BootLock
  <2>3. killed => Boot!Desktop(k) # Boot!Desktop(l)
    BY <2>1, HandleFacts
  <2> QED
    BY <2>2, <2>3
<1>3. \A k \in Launches : Works(k)' => Boot!Launcher(k)' \in lock'
  <2> SUFFICES ASSUME NEW k \in Launches, Works(k)'
               PROVE  Boot!Launcher(k) \in lock'
    BY DEF Boot!Launcher
  <2>1. Works(k) /\ k # l
    BY DEF Works, BootInv, BootShape
  <2>2. Boot!Launcher(k) \in lock /\ Boot!Launcher(k) # Boot!Launcher(l) /\ Boot!Launcher(k) # Boot!Desktop(l)
    BY <2>1, HandleFacts DEF BootInv, BootLock
  <2> QED
    BY <2>2
<1>4. \A x, y \in lock' : x.of = y.of
  BY DEF BootInv, BootLock
<1>5. BootShown' /\ BootStarted'
  BY DEF BootInv, BootShown, BootStarted, BootShape, BootSignals
<1> QED
  BY <1>1, <1>2, <1>3, <1>4, <1>5 DEF BootInv, BootLock

\* A step of a launcher that stays at work.
LEMMA GotoKeeps ==
  ASSUME BootInv, NEW l \in Launches, NEW where \in BootPlaces \ {"new", "done"},
         Works(l), Boot!Goto(l, where), published' = published,
         where = "fading" => published[l] # "no",
         where # "launching" => desktop[l] # "none"
  PROVE  BootInv'
<1> USE DEF Boot!Goto
<1>1. BootShape' /\ BootSignals'
  BY DEF BootInv, BootShape, BootSignals, BootPlaces, BootCodes
<1>2. BootLock'
  BY DEF BootInv, BootShape, BootLock, Works, Alive, Boot!Launcher, Boot!Desktop, BootPlaces
<1>3. BootShown' /\ BootStarted'
  BY DEF BootInv, BootShown, BootStarted, BootShape, BootSignals, Works
<1> QED
  BY <1>1, <1>2, <1>3 DEF BootInv

LEMMA HandOffKeeps ==
  ASSUME BootInv, NEW l \in Launches, Works(l), Boot!HandOff(l), published' = published,
         published[l] # "no", desktop[l] # "none"
  PROVE  BootInv'
<1>1. CASE exited[l]
  <2>1. Boot!Leave(l, "child", FALSE)
    BY <1>1 DEF Boot!HandOff
  <2> QED
    BY <2>1, LeaveKeeps DEF Boot!Leave, BootCodes
<1>2. CASE ~exited[l] /\ waits
  BY <1>2, GotoKeeps DEF Boot!HandOff, BootPlaces
<1>3. CASE ~exited[l] /\ ~waits
  <2>1. Boot!Leave(l, "success", FALSE)
    BY <1>3 DEF Boot!HandOff
  <2> QED
    BY <2>1, LeaveKeeps DEF Boot!Leave, BootCodes
<1> QED
  BY <1>1, <1>2, <1>3

\* Nothing of what the invariant speaks of changes.
LEMMA StandsStill ==
  ASSUME BootInv, UNCHANGED <<lock, at, result, desktop, published>>
  PROVE  BootInv'
  BY DEF BootInv, BootShape, BootSignals, BootLock, BootShown, BootStarted, Alive, Works, Boot!Launcher, Boot!Desktop

-----------------------------------------------------------------------------
\* One lemma for each step that is not one of the above.
LEMMA EnterKeeps ==
  ASSUME BootInv, NEW l \in Launches, Boot!Enter(l)
  PROVE  BootInv'
<1>1. CASE Boot!Leave(l, "hook", FALSE)
  BY <1>1, LeaveKeeps DEF Boot!Leave, BootCodes, Boot!Enter
<1>2. CASE Boot!Leave(l, "existing", FALSE)
  BY <1>2, LeaveKeeps DEF Boot!Leave, BootCodes, Boot!Enter
<1>3. CASE lock = {} /\ lock' = {Boot!Launcher(l)} /\ at' = [at EXCEPT ![l] = "launching"]
           /\ UNCHANGED <<result, desktop>>
  <2>1. UNCHANGED <<result, desktop, published>> /\ at[l] = "new"
    BY <1>3 DEF Boot!Enter
  <2>2. BootShape' /\ BootSignals'
    BY <1>3, <2>1, HandleFacts DEF BootInv, BootShape, BootSignals, BootPlaces, BootCodes
  <2>3. \A k \in Launches : ~Alive(k) /\ ~Works(k)
    BY <1>3 DEF BootInv, BootLock
  <2>4. BootLock'
    BY <1>3, <2>1, <2>3 DEF BootLock, Alive, Works, BootInv, BootShape, Boot!Launcher
  <2>5. BootShown' /\ BootStarted'
    BY <1>3, <2>1 DEF BootInv, BootShown, BootStarted, BootShape
  <2> QED
    BY <2>2, <2>4, <2>5 DEF BootInv
<1> QED
  BY <1>1, <1>2, <1>3 DEF Boot!Enter

LEMMA LaunchKeeps ==
  ASSUME BootInv, NEW l \in Launches, Boot!Launch(l)
  PROVE  BootInv'
<1> USE DEF Boot!Launch
<1>1. BootShape' /\ BootSignals'
  BY HandleFacts DEF BootInv, BootShape, BootSignals, BootPlaces, Boot!Inherited
<1>2. Boot!Launcher(l) \in lock
  BY DEF BootInv, BootLock, Works
<1>3. \A k \in Launches : Alive(k)' => Boot!Desktop(k)' \in lock'
  BY DEF BootInv, BootLock, BootShape, Alive, Boot!Desktop, Boot!Inherited
<1>4. \A k \in Launches : Works(k)' => Boot!Launcher(k)' \in lock'
  BY DEF BootInv, BootLock, BootShape, Works, Boot!Launcher, Boot!Inherited
<1>5. \A x, y \in lock' : x.of = y.of
  BY <1>2, HandleFacts DEF BootInv, BootLock, Boot!Inherited
<1>6. BootShown' /\ BootStarted'
  BY DEF BootInv, BootShown, BootStarted, BootShape, BootSignals
<1> QED
  BY <1>1, <1>3, <1>4, <1>5, <1>6 DEF BootInv, BootLock

\* A desktop that is asked to close by a launcher that leaves.
LEMMA ClosingKeeps ==
  ASSUME BootInv, NEW l \in Launches, NEW code \in BootCodes, code # "success",
         at' = [at EXCEPT ![l] = "done"], result' = [result EXCEPT ![l] = code],
         lock' = lock \ {Boot!Launcher(l)}, published' = published,
         desktop' = [desktop EXCEPT ![l] = IF Alive(l) THEN "closing" ELSE @]
  PROVE  BootInv'
<1>1. BootShape' /\ BootSignals'
  BY DEF BootInv, BootShape, BootSignals, BootPlaces, BootCodes
<1>2. \A k \in Launches : Alive(k)' => Boot!Desktop(k)' \in lock'
  BY HandleFacts DEF BootInv, BootLock, BootShape, Alive, Boot!Desktop
<1>3. \A k \in Launches : Works(k)' => Boot!Launcher(k)' \in lock'
  BY HandleFacts DEF BootInv, BootLock, BootShape, Works, Boot!Launcher
<1>4. \A x, y \in lock' : x.of = y.of
  BY DEF BootInv, BootLock
<1>5. BootShown' /\ BootStarted'
  BY DEF BootInv, BootShown, BootStarted, BootShape, BootSignals
<1> QED
  BY <1>1, <1>2, <1>3, <1>4, <1>5 DEF BootInv, BootLock

LEMMA LauncherKeeps ==
  ASSUME BootInv, NEW l \in Launches,
         Boot!LaunchFails(l) \/ Boot!Cancelled(l) \/ Boot!RejectReady(l) \/ Boot!Timeout(l)
  PROVE  BootInv'
<1>1. CASE Boot!LaunchFails(l)
  <2>1. Works(l) /\ published' = published
    BY <1>1 DEF Boot!LaunchFails, Works
  <2>2. CASE Boot!Goto(l, "launching")
    BY <2>1, <2>2, GotoKeeps DEF BootPlaces
  <2>3. CASE Boot!Leave(l, "failed", FALSE)
    BY <2>1, <2>3, LeaveKeeps DEF Boot!Leave, BootCodes
  <2> QED
    BY <1>1, <2>2, <2>3 DEF Boot!LaunchFails
<1>2. CASE Boot!Cancelled(l)
  <2>1. published' = published
    BY <1>2 DEF Boot!Cancelled
  <2>2. CASE Boot!Leave(l, "cancelled", TRUE)
    BY <2>1, <2>2, LeaveKeeps DEF Boot!Leave, BootCodes
  <2>3. CASE UNCHANGED <<at, result, lock, desktop>>
    BY <2>1, <2>3, StandsStill
  <2> QED
    BY <1>2, <2>2, <2>3 DEF Boot!Cancelled
<1>3. CASE Boot!RejectReady(l)
  <2>1. CASE desktop[l] = "closing" \/ desktop[l] = "running"
    <3>1. desktop' = [desktop EXCEPT ![l] = IF Alive(l) THEN "closing" ELSE @]
      BY <1>3, <2>1 DEF Boot!RejectReady, Alive, BootInv, BootShape
    <3> QED
      BY <1>3, <3>1, ClosingKeeps DEF BootCodes, Boot!RejectReady
  <2>2. CASE ~(desktop[l] = "closing" \/ desktop[l] = "running")
    <3>1. desktop' = [desktop EXCEPT ![l] = IF Alive(l) THEN "closing" ELSE @]
      BY <1>3, <2>2 DEF Boot!RejectReady, Alive, BootInv, BootShape
    <3> QED
      BY <1>3, <3>1, ClosingKeeps DEF BootCodes, Boot!RejectReady
  <2> QED
    BY <2>1, <2>2
<1>4. CASE Boot!Timeout(l)
  <2>1. CASE Boot!Leave(l, "timeout", TRUE)
    BY <1>4, <2>1, LeaveKeeps DEF Boot!Leave, BootCodes, Boot!Timeout
  <2>2. CASE Boot!Goto(l, "waiting")
    BY <1>4, <2>2, GotoKeeps DEF Boot!Timeout, Works, BootPlaces, BootInv, BootStarted
  <2>3. CASE /\ at' = [at EXCEPT ![l] = "done"] /\ result' = [result EXCEPT ![l] = "timeout"]
             /\ lock' = lock \ {Boot!Launcher(l)}
             /\ desktop' = [desktop EXCEPT ![l] = "closing"]
    <3>1. CASE Alive(l)
      BY <1>4, <2>3, <3>1, ClosingKeeps DEF BootCodes, Boot!Timeout
    <3>2. CASE ~Alive(l)
      BY <1>4, <3>2 DEF Boot!Timeout, Alive, BootInv, BootShape, BootStarted
    <3> QED
      BY <3>1, <3>2
  <2> QED
    BY <1>4, <2>1, <2>2, <2>3 DEF Boot!Timeout
<1> QED
  BY <1>1, <1>2, <1>3, <1>4

LEMMA WatcherKeeps ==
  ASSUME BootInv, NEW l \in Launches,
         Boot!LookForReady(l) \/ Boot!FadeCompletes(l) \/ Boot!LookForExit(l) \/ Boot!RequestCancel(l)
  PROVE  BootInv'
<1>1. CASE Boot!LookForReady(l)
  <2>1. Works(l) /\ published' = published /\ desktop[l] # "none"
    BY <1>1 DEF Boot!LookForReady, Works, BootInv, BootStarted
  <2>2. CASE ~Boot!Signalled(l)
    BY <1>1, <2>1, <2>2, GotoKeeps DEF Boot!LookForReady, BootPlaces
  <2>3. CASE Boot!Signalled(l)
    <3>1. published[l] # "no"
      BY <2>3 DEF Boot!Signalled
    <3>2. CASE windows
      BY <1>1, <2>1, <2>3, <3>1, <3>2, GotoKeeps DEF Boot!LookForReady, BootPlaces
    <3>3. CASE ~windows
      BY <1>1, <2>1, <2>3, <3>1, <3>3, HandOffKeeps DEF Boot!LookForReady
    <3> QED
      BY <3>2, <3>3
  <2> QED
    BY <2>2, <2>3
<1>2. CASE Boot!FadeCompletes(l)
  BY <1>2, HandOffKeeps DEF Boot!FadeCompletes, Works, BootInv, BootShown, BootStarted
<1>3. CASE Boot!LookForExit(l)
  <2>1. Works(l) /\ published' = published
    BY <1>3 DEF Boot!LookForExit, Works
  <2>2. CASE Boot!Goto(l, "waiting") /\ desktop[l] # "gone"
    BY <1>3, <2>1, <2>2, GotoKeeps DEF Boot!LookForExit, BootPlaces, BootInv, BootStarted
  <2>3. CASE Boot!Leave(l, "child", FALSE)
    BY <2>1, <2>3, LeaveKeeps DEF Boot!Leave, BootCodes
  <2>4. CASE Boot!Leave(l, "failed", FALSE)
    BY <2>1, <2>4, LeaveKeeps DEF Boot!Leave, BootCodes
  <2>5. CASE Boot!Goto(l, "launching")
    BY <2>1, <2>5, GotoKeeps DEF BootPlaces
  <2>6. CASE UNCHANGED <<at, result, lock, desktop>>
    BY <2>1, <2>6, StandsStill
  <2> QED
    BY <1>3, <2>2, <2>3, <2>4, <2>5, <2>6 DEF Boot!LookForExit
<1>4. CASE Boot!RequestCancel(l)
  BY <1>4, StandsStill DEF Boot!RequestCancel
<1> QED
  BY <1>1, <1>2, <1>3, <1>4

LEMMA DesktopKeeps ==
  ASSUME BootInv, NEW l \in Launches, Boot!Publish(l) \/ Boot!Exit(l)
  PROVE  BootInv'
<1>1. CASE Boot!Publish(l)
  <2>1. published' \in {[published EXCEPT ![l] = IF @ = "no" THEN "file" ELSE "event"],
                        [published EXCEPT ![l] = "failed"]}
        /\ UNCHANGED <<lock, at, result, desktop>>
    BY <1>1 DEF Boot!Publish
  <2>2. BootShape' /\ BootSignals' /\ BootLock' /\ BootStarted'
    BY <2>1 DEF BootInv, BootShape, BootSignals, BootLock, BootStarted, Alive, Works, Boot!Launcher, Boot!Desktop
  <2>3. BootShown'
    BY <2>1 DEF BootInv, BootShown, BootSignals
  <2> QED
    BY <2>2, <2>3 DEF BootInv
<1>2. CASE Boot!Exit(l)
  <2>1. /\ desktop' = [desktop EXCEPT ![l] = "gone"] /\ lock' = lock \ {Boot!Desktop(l)}
        /\ UNCHANGED <<at, result, published>>
    BY <1>2 DEF Boot!Exit
  <2>2. BootShape' /\ BootSignals' /\ BootStarted' /\ BootShown'
    BY <2>1 DEF BootInv, BootShape, BootSignals, BootStarted, BootShown
  <2>3. \A k \in Launches : Alive(k)' => Boot!Desktop(k)' \in lock'
    BY <2>1, HandleFacts DEF BootInv, BootLock, BootShape, Alive, Boot!Desktop
  <2>4. \A k \in Launches : Works(k)' => Boot!Launcher(k)' \in lock'
    BY <2>1, HandleFacts DEF BootInv, BootLock, Works, Boot!Launcher
  <2>5. \A x, y \in lock' : x.of = y.of
    BY <2>1 DEF BootInv, BootLock
  <2> QED
    BY <2>2, <2>3, <2>4, <2>5 DEF BootInv, BootLock
<1> QED
  BY <1>1, <1>2

LEMMA BootKeeps == BootInv /\ [Boot!Next]_bootVars => BootInv'
<1> SUFFICES ASSUME BootInv, [Boot!Next]_bootVars PROVE BootInv'
  OBVIOUS
<1>1. CASE UNCHANGED bootVars
  BY <1>1, StandsStill DEF bootVars
<1>2. ASSUME NEW l \in Launches,
             Boot!Launch(l) \/ Boot!Enter(l) \/ Boot!LaunchFails(l) \/ Boot!Cancelled(l) \/ Boot!RejectReady(l)
               \/ Boot!Timeout(l) \/ Boot!LookForReady(l) \/ Boot!FadeCompletes(l) \/ Boot!LookForExit(l)
               \/ Boot!RequestCancel(l) \/ Boot!Publish(l) \/ Boot!Exit(l)
      PROVE  BootInv'
  BY <1>2, EnterKeeps, LaunchKeeps, LauncherKeeps, WatcherKeeps, DesktopKeeps
<1> QED
  BY <1>1, <1>2 DEF Boot!Next, Boot!Monitor, Boot!Start

\* However many times the program is started, and however the launches end:
\* two desktops never run at once, and "success" is told of a shown one only.
THEOREM OneDesktopAlways == Spec => []OneDesktop
<1>1. Init => BootInv
  BY BootInit DEF Init
<1>2. BootInv /\ [Next]_vars => BootInv'
  BY BootKeeps, PartSteps
<1>3. BootInv => OneDesktop
  BY OneHolder DEF OneDesktop
<1> QED
  BY <1>1, <1>2, <1>3, PTL DEF Spec

-----------------------------------------------------------------------------
\* UpscalingAssets.
AssetPhases == {"unseen", "checking", "queued", "downloading", "verifying", "ready",
           "missing", "failed"}
AssetChecks == [download : BOOLEAN, read : BOOLEAN, missing : SUBSET Assets!Files, bad : BOOLEAN]

AssetType ==
  /\ disk \in [Assets!Files -> {"absent", "bad", "good"}]
  /\ phase \in [Sets -> AssetPhases]
  /\ check \in [Sets -> AssetChecks \cup {None}]

\* What a verification has read stays so until it is heard: a good file is
\* never replaced by another.
AssetRead ==
  \A s \in Sets : check[s] # None /\ check[s].read =>
    \A f \in Needs[s] : f \notin check[s].missing => disk[f] = "good"

AssetInv == AssetType /\ AssetRead /\ Assets!ReadyIsInstalled

-----------------------------------------------------------------------------
LEMMA FilesOf == \A s \in Sets : Needs[s] \subseteq Assets!Files
  BY DEF Assets!Files

LEMMA AssetInit == Assets!Init => AssetInv
  BY DEF Assets!Init, AssetInv, AssetType, AssetRead, Assets!ReadyIsInstalled, AssetPhases

\* A step that makes no set ready, reads nothing and spoils no file.
LEMMA AssetQuiet ==
  ASSUME AssetInv, AssetType',
         \A f \in Assets!Files : disk[f] = "good" => disk'[f] = "good",
         \A s \in Sets : phase'[s] = "ready" => phase[s] = "ready",
         \A s \in Sets : check'[s] \in {check[s], None} \/ check'[s].read = FALSE
  PROVE  AssetInv'
<1>1. AssetRead'
  BY FilesOf DEF AssetInv, AssetRead
<1>2. Assets!ReadyIsInstalled'
  BY FilesOf DEF AssetInv, Assets!ReadyIsInstalled
<1> QED
  BY <1>1, <1>2 DEF AssetInv

\* startNextDownload makes no set ready.
LEMMA StartNextPhases ==
  ASSUME NEW q, NEW ph \in [Sets -> AssetPhases], Assets!StartNext(q, ph)
  PROVE  /\ phase' \in [Sets -> AssetPhases]
         /\ \A s \in Sets : phase'[s] = "ready" => ph[s] = "ready"
<1>1. PICK s : phase' = ph \/ phase' = [ph EXCEPT ![s] = "failed"]
                 \/ phase' = [ph EXCEPT ![s] = "downloading"]
  BY DEF Assets!StartNext
<1> QED
  BY <1>1 DEF AssetPhases

LEMMA BeganFacts ==
  ASSUME NEW d \in BOOLEAN
  PROVE  Assets!Began(d) \in AssetChecks /\ Assets!Began(d).read = FALSE
  BY DEF Assets!Began, AssetChecks

-----------------------------------------------------------------------------
LEMMA PageKeeps ==
  ASSUME AssetInv, NEW s \in Sets, Assets!Select(s) \/ Assets!Download(s) \/ Assets!Cancel(s)
  PROVE  AssetInv'
<1>1. CASE Assets!Select(s) \/ Assets!Download(s)
  <2>1. PICK d \in BOOLEAN : Assets!Begin({s}, d, "checking") /\ disk' = disk
    BY <1>1 DEF Assets!Select, Assets!Download
  <2>2. phase' = [t \in Sets |-> IF t \in {s} THEN "checking" ELSE phase[t]]
        /\ check' = [t \in Sets |-> IF t \in {s} THEN Assets!Began(d) ELSE check[t]]
    BY <2>1 DEF Assets!Begin
  <2>3. AssetType'
    BY <2>1, <2>2, BeganFacts DEF AssetInv, AssetType, AssetPhases
  <2> QED
    BY <2>1, <2>2, <2>3, BeganFacts, AssetQuiet
<1>2. CASE Assets!Cancel(s)
  <2> DEFINE ph == [phase EXCEPT ![s] = "missing"]
  <2>1. ph \in [Sets -> AssetPhases] /\ \A t \in Sets : ph[t] = "ready" => phase[t] = "ready"
    BY DEF AssetInv, AssetType, AssetPhases
  <2>2. check' = [check EXCEPT ![s] = None] /\ disk' = disk
    BY <1>2 DEF Assets!Cancel
  <2>3. phase' \in [Sets -> AssetPhases] /\ \A t \in Sets : phase'[t] = "ready" => ph[t] = "ready"
    <3>1. (\E q : Assets!StartNext(q, ph)) \/ phase' = ph
      BY <1>2 DEF Assets!Cancel
    <3> QED
      BY <3>1, <2>1, StartNextPhases
  <2>4. AssetType'
    BY <2>2, <2>3 DEF AssetInv, AssetType
  <2> HIDE DEF ph
  <2> QED
    BY <2>1, <2>2, <2>3, <2>4, AssetQuiet DEF AssetInv, AssetType
<1> QED
  BY <1>1, <1>2

LEMMA ReadKeeps ==
  ASSUME AssetInv, NEW s \in Sets, Assets!Read(s)
  PROVE  AssetInv'
<1>1. /\ check' = [check EXCEPT ![s] = [@ EXCEPT !.read = TRUE, !.missing = Assets!Missing(s),
                                            !.bad = \E f \in Needs[s] : disk[f] = "bad"]]
      /\ UNCHANGED <<disk, phase>> /\ check[s] \in AssetChecks
  BY DEF Assets!Read, AssetInv, AssetType
<1>2. Assets!Missing(s) \in SUBSET Assets!Files /\ (\E f \in Needs[s] : disk[f] = "bad") \in BOOLEAN
  BY FilesOf DEF Assets!Missing
<1>3. AssetType'
  BY <1>1, <1>2 DEF AssetInv, AssetType, AssetChecks
<1>4. check'[s].missing = Assets!Missing(s) /\ \A t \in Sets : t # s => check'[t] = check[t]
  BY <1>1 DEF AssetChecks, AssetInv, AssetType
<1>5. AssetRead'
  BY <1>1, <1>4, FilesOf DEF AssetInv, AssetRead, Assets!Missing
<1>6. Assets!ReadyIsInstalled'
  BY <1>1 DEF AssetInv, Assets!ReadyIsInstalled
<1> QED
  BY <1>3, <1>5, <1>6 DEF AssetInv

LEMMA HeardKeeps ==
  ASSUME AssetInv, NEW s \in Sets, Assets!Heard(s)
  PROVE  AssetInv'
<1>0. disk' = disk /\ check[s] # None /\ check[s] \in AssetChecks /\ check[s].read
  BY DEF Assets!Heard, AssetInv, AssetType
<1>1. CASE check[s].missing = {}
  <2>1. /\ phase' = [t \in Sets |-> IF t = s THEN "ready"
                                    ELSE IF t \in Assets!Sharing(s) THEN "checking" ELSE phase[t]]
        /\ check' = [t \in Sets |-> IF t = s THEN None
                                    ELSE IF t \in Assets!Sharing(s) THEN Assets!Began(FALSE) ELSE check[t]]
    BY <1>1 DEF Assets!Heard
  <2>2. AssetType'
    BY <1>0, <2>1, BeganFacts DEF AssetInv, AssetType, AssetPhases
  <2>3. AssetRead'
    BY <1>0, <2>1, BeganFacts DEF AssetInv, AssetRead
  <2>4. \A f \in Needs[s] : disk[f] = "good"
    BY <1>0, <1>1 DEF AssetInv, AssetRead
  <2>5. Assets!ReadyIsInstalled'
    BY <1>0, <2>1, <2>4 DEF AssetInv, Assets!ReadyIsInstalled
  <2> QED
    BY <2>2, <2>3, <2>5 DEF AssetInv
<1>2. CASE check[s].missing # {} /\ ~check[s].download
  <2>1. /\ phase' = [phase EXCEPT ![s] = IF check[s].bad THEN "failed" ELSE "missing"]
        /\ check' = [check EXCEPT ![s] = None]
    BY <1>2 DEF Assets!Heard
  <2>2. AssetType'
    BY <1>0, <2>1 DEF AssetInv, AssetType, AssetPhases
  <2> QED
    BY <1>0, <2>1, <2>2, AssetQuiet DEF AssetInv, AssetType
<1>3. CASE check[s].missing # {} /\ check[s].download
  <2> DEFINE ph == [phase EXCEPT ![s] = "queued"]
  <2>1. ph \in [Sets -> AssetPhases] /\ \A t \in Sets : ph[t] = "ready" => phase[t] = "ready"
    BY DEF AssetInv, AssetType, AssetPhases
  <2>2. check' = check /\ ((\E q : Assets!StartNext(q, ph)) \/ phase' = ph)
    BY <1>3 DEF Assets!Heard
  <2>3. phase' \in [Sets -> AssetPhases] /\ \A t \in Sets : phase'[t] = "ready" => ph[t] = "ready"
    BY <2>1, <2>2, StartNextPhases
  <2>4. AssetType'
    BY <1>0, <2>2, <2>3 DEF AssetInv, AssetType
  <2> HIDE DEF ph
  <2> QED
    BY <1>0, <2>1, <2>2, <2>3, <2>4, AssetQuiet
<1> QED
  BY <1>1, <1>2, <1>3, <1>0 DEF AssetChecks

\* An installed file becomes good; the set is verified before it is ready.
LEMMA InstallKeeps ==
  ASSUME AssetInv, Assets!Install
  PROVE  AssetInv'
<1>1. PICK f : disk' = [disk EXCEPT ![f] = "good"]
      /\ \/ UNCHANGED <<phase, check>>
         \/ /\ Assets!StartNext(queue, [phase EXCEPT ![task.set] = "verifying"])
            /\ check' = [check EXCEPT ![task.set] = Assets!Began(FALSE)]
  BY DEF Assets!Install
<1>2. disk' \in [Assets!Files -> {"absent", "bad", "good"}]
      /\ \A g \in Assets!Files : disk[g] = "good" => disk'[g] = "good"
  BY <1>1 DEF AssetInv, AssetType
<1>3. CASE UNCHANGED <<phase, check>>
  BY <1>2, <1>3, AssetQuiet DEF AssetInv, AssetType
<1>4. CASE /\ Assets!StartNext(queue, [phase EXCEPT ![task.set] = "verifying"])
           /\ check' = [check EXCEPT ![task.set] = Assets!Began(FALSE)]
  <2> DEFINE ph == [phase EXCEPT ![task.set] = "verifying"]
  <2>1. ph \in [Sets -> AssetPhases] /\ \A t \in Sets : ph[t] = "ready" => phase[t] = "ready"
    BY DEF AssetInv, AssetType, AssetPhases
  <2>2. phase' \in [Sets -> AssetPhases] /\ \A t \in Sets : phase'[t] = "ready" => ph[t] = "ready"
    BY <1>4, <2>1, StartNextPhases
  <2>3. \A t \in Sets : check'[t] = check[t] \/ check'[t] = Assets!Began(FALSE)
    BY <1>4 DEF AssetInv, AssetType
  <2>4. AssetType'
    BY <1>2, <1>4, <2>2, BeganFacts DEF AssetInv, AssetType
  <2> HIDE DEF ph
  <2> QED
    BY <1>2, <2>1, <2>2, <2>3, <2>4, BeganFacts, AssetQuiet
<1> QED
  BY <1>1, <1>3, <1>4

LEMMA FailKeeps ==
  ASSUME AssetInv, Assets!Fail
  PROVE  AssetInv'
<1> DEFINE ph == [phase EXCEPT ![task.set] = "failed"]
<1>1. ph \in [Sets -> AssetPhases] /\ \A t \in Sets : ph[t] = "ready" => phase[t] = "ready"
  BY DEF AssetInv, AssetType, AssetPhases
<1>2. Assets!StartNext(queue, ph) /\ check' = [check EXCEPT ![task.set] = None] /\ disk' = disk
  BY DEF Assets!Fail
<1>3. phase' \in [Sets -> AssetPhases] /\ \A t \in Sets : phase'[t] = "ready" => ph[t] = "ready"
  BY <1>1, <1>2, StartNextPhases
<1>4. AssetType' /\ \A t \in Sets : check'[t] \in {check[t], None}
  BY <1>2, <1>3 DEF AssetInv, AssetType
<1> HIDE DEF ph
<1> QED
  BY <1>1, <1>2, <1>3, <1>4, AssetQuiet

LEMMA RetryKeeps ==
  ASSUME AssetInv, Assets!Retry
  PROVE  AssetInv'
<1>1. UNCHANGED <<disk, check>> /\
      \E s : phase' \in {phase, [phase EXCEPT ![s] = "downloading"],
                         [phase EXCEPT ![s] = "failed"]}
  BY DEF Assets!Retry
<1>2. AssetType' /\ \A t \in Sets : phase'[t] = "ready" => phase[t] = "ready"
  BY <1>1 DEF AssetInv, AssetType, AssetPhases
<1> QED
  BY <1>1, <1>2, AssetQuiet

LEMMA AssetKeeps == AssetInv /\ [Assets!Next]_assetVars => AssetInv'
<1> SUFFICES ASSUME AssetInv, [Assets!Next]_assetVars PROVE AssetInv'
  OBVIOUS
<1>1. CASE UNCHANGED assetVars
  BY <1>1 DEF assetVars, AssetInv, AssetType, AssetRead, Assets!ReadyIsInstalled
<1> QED
  BY <1>1, PageKeeps, ReadKeeps, HeardKeeps, InstallKeeps, FailKeeps, RetryKeeps
     DEF Assets!Next, Assets!Progress

\* Whatever is canceled, fails or is downloaded for another set meanwhile, a
\* set that is given to the player has every one of its files.
THEOREM ReadyAlwaysInstalled == Spec => []ReadyIsInstalled
<1>1. Init => AssetInv
  BY AssetInit DEF Init
<1>2. AssetInv /\ [Next]_vars => AssetInv'
  BY AssetKeeps, PartSteps
<1>3. AssetInv => ReadyIsInstalled
  BY DEF AssetInv, ReadyIsInstalled
<1> QED
  BY <1>1, <1>2, <1>3, PTL DEF Spec

-----------------------------------------------------------------------------
\* UpdateChecker.

UpdateLines ==
  {"none", "current", "newer", "pending", "progress", "ready", "handed_off", "error"}
Flags ==
  [checking : BOOLEAN, downloading : BOOLEAN, applying : BOOLEAN, checked : BOOLEAN,
   supported : BOOLEAN, available : BOOLEAN, ready : BOOLEAN, error : BOOLEAN]

\* A line that tells of a release that waits is written only when one does,
\* and what waits stays, also while the line has not been read.
UpdateInv ==
  /\ release \in {"none", "current", "newer"}
  /\ ui \in Flags
  /\ op \in {"none", "check", "download", "apply"}
  /\ lines \in Seq(UpdateLines)
  /\ \A i \in DOMAIN lines : lines[i] \in {"pending", "ready"} => pending
  /\ ui.ready => pending

LEMMA UpdateInit == Update!Init => UpdateInv
  BY DEF Update!Init, Update!Idle, UpdateInv, Flags

\* Steps that write no line.
LEMMA NoLineKeeps ==
  ASSUME UpdateInv, release' \in {"none", "current", "newer"}, pending' = pending,
         op' \in {"none", "check", "download", "apply"}, lines' \in {lines, <<>>}, ui' \in Flags, ui'.ready => ui.ready
  PROVE  UpdateInv'
<1>1. CASE lines' = lines
  BY <1>1 DEF UpdateInv
<1>2. CASE lines' = <<>>
  BY <1>2 DEF UpdateInv
<1> QED
  BY <1>1, <1>2

LEMMA SayKeeps ==
  ASSUME UpdateInv, NEW line \in UpdateLines, NEW exits, Update!Say(line, exits),
         release' = release, pending => pending', line \in {"pending", "ready"} => pending'
  PROVE  UpdateInv'
<1>1. lines' = Append(lines, line) /\ ui' = ui /\ op' = op
  BY DEF Update!Say
<1>2. lines' \in Seq(UpdateLines)
  BY <1>1 DEF UpdateInv
<1>3. \A i \in DOMAIN lines' : lines'[i] \in {"pending", "ready"} => pending'
  <2> SUFFICES ASSUME NEW i \in DOMAIN lines', lines'[i] \in {"pending", "ready"}
               PROVE  pending'
    OBVIOUS
  <2>1. CASE i = Len(lines) + 1
    BY <1>1, <2>1 DEF UpdateInv
  <2>2. CASE i # Len(lines) + 1
    <3>1. i \in DOMAIN lines /\ lines'[i] = lines[i]
      BY <1>1, <2>2 DEF UpdateInv
    <3> QED
      BY <3>1 DEF UpdateInv
  <2> QED
    BY <2>1, <2>2
<1> QED
  BY <1>1, <1>2, <1>3 DEF UpdateInv

LEMMA PageUpdates ==
  ASSUME UpdateInv,
         Update!Check \/ Update!Download \/ Update!CancelDownload \/ Update!Apply
           \/ Update!Released
  PROVE  UpdateInv'
<1> USE DEF UpdateInv, Update!world
<1>1. CASE Update!Check
  BY <1>1, NoLineKeeps DEF Update!Check, Update!Start, Update!Idle, Update!process, Flags
<1>2. CASE Update!Download
  BY <1>2, NoLineKeeps DEF Update!Download, Update!Start, Flags
<1>3. CASE Update!CancelDownload
  BY <1>3, NoLineKeeps DEF Update!CancelDownload
<1>4. CASE Update!Apply
  BY <1>4, NoLineKeeps DEF Update!Apply, Update!Start, Flags
<1>5. CASE Update!Released
  BY <1>5, NoLineKeeps DEF Update!Released, Update!process
<1> QED
  BY <1>1, <1>2, <1>3, <1>4, <1>5

LEMMA HelperSays ==
  ASSUME UpdateInv,
         Update!Fails \/ Update!RunCheck \/ Update!RunDownload \/ Update!RunApply
  PROVE  UpdateInv'
<1> USE DEF Update!world
<1>1. CASE Update!Fails
  BY <1>1, SayKeeps DEF Update!Fails, UpdateLines
<1>2. CASE Update!RunCheck
  BY <1>2, SayKeeps DEF Update!RunCheck, UpdateLines, UpdateInv
<1>3. CASE Update!RunDownload
  <2>1. CASE release # "newer" /\ Update!Say(release, "said") /\ UNCHANGED <<release, pending>>
    BY <2>1, SayKeeps DEF UpdateLines, UpdateInv
  <2>2. CASE Update!Say("progress", "half") /\ UNCHANGED <<release, pending>>
    BY <2>2, SayKeeps DEF UpdateLines
  <2>3. CASE Update!Say("ready", "said") /\ pending' = TRUE /\ UNCHANGED release
    BY <2>3, SayKeeps DEF UpdateLines
  <2> QED
    BY <1>3, <2>1, <2>2, <2>3 DEF Update!RunDownload
<1>4. CASE Update!RunApply
  <2>1. CASE Update!Say("handed_off", "said")
    BY <1>4, <2>1, SayKeeps DEF Update!RunApply, UpdateLines
  <2>2. CASE Update!Say("error", "bad")
    BY <1>4, <2>2, SayKeeps DEF Update!RunApply, UpdateLines
  <2> QED
    BY <1>4, <2>1, <2>2 DEF Update!RunApply
<1> QED
  BY <1>1, <1>2, <1>3, <1>4

\* The page takes a release for ready on the two lines that say so.
LEMMA ToldFacts ==
  ASSUME UpdateInv, NEW line \in UpdateLines
  PROVE  /\ Update!Told(line) \in Flags
         /\ Update!Told(line).ready => ui.ready \/ line \in {"pending", "ready"}
<1>1. ui \in Flags
  BY DEF UpdateInv
<1>2. CASE line \in {"pending", "newer"}
  <2>1. Update!Told(line) = [ui EXCEPT !.supported = TRUE, !.checked = TRUE, !.error = FALSE,
                                       !.available = TRUE, !.ready = (line = "pending")]
    BY <1>2 DEF Update!Told, Update!Completes
  <2> QED
    BY <1>1, <1>2, <2>1 DEF Flags
<1>3. CASE line \in {"current", "none"}
  <2>1. Update!Told(line) = [ui EXCEPT !.supported = TRUE, !.checked = TRUE, !.error = FALSE,
                                       !.available = FALSE]
    BY <1>3 DEF Update!Told, Update!Completes
  <2> QED
    BY <1>1, <2>1 DEF Flags
<1>4. CASE line = "ready"
  <2>1. Update!Told(line) = [ui EXCEPT !.ready = TRUE, !.error = FALSE]
    BY <1>4 DEF Update!Told, Update!Completes
  <2> QED
    BY <1>1, <1>4, <2>1 DEF Flags
<1>5. CASE line = "handed_off"
  <2>1. Update!Told(line) = [ui EXCEPT !.applying = FALSE]
    BY <1>5 DEF Update!Told, Update!Completes
  <2> QED
    BY <1>1, <2>1 DEF Flags
<1>6. CASE line = "error"
  <2>1. Update!Told(line) = [ui EXCEPT !.error = ui.error \/ op # "check"]
    BY <1>6 DEF Update!Told, Update!Completes
  <2> QED
    BY <1>1, <2>1 DEF Flags
<1>7. CASE line = "progress"
  <2>1. Update!Told(line) = ui
    BY <1>7 DEF Update!Told, Update!Completes
  <2> QED
    BY <1>1, <2>1
<1> QED
  BY <1>2, <1>3, <1>4, <1>5, <1>6, <1>7 DEF UpdateLines

LEMMA CheckerHears ==
  ASSUME UpdateInv, Update!HandleLine
  PROVE  UpdateInv'
<1>1. lines # <<>> /\ lines' = Tail(lines) /\ UNCHANGED <<release, pending, op>>
  BY DEF Update!HandleLine, Update!world
<1>2. lines' \in Seq(UpdateLines) /\ Head(lines) = lines[1] /\ 1 \in DOMAIN lines
      /\ lines[1] \in UpdateLines
      /\ \A i \in DOMAIN lines' : i + 1 \in DOMAIN lines /\ lines'[i] = lines[i + 1]
  BY <1>1 DEF UpdateInv
<1>3. CASE ui' = ui
  BY <1>1, <1>2, <1>3 DEF UpdateInv
<1>4. CASE ui' = Update!Told(Head(lines))
  BY <1>1, <1>2, <1>4, ToldFacts DEF UpdateInv
<1> QED
  BY <1>3, <1>4 DEF Update!HandleLine

LEMMA CheckerEnds ==
  ASSUME UpdateInv,
         Update!Exits \/ Update!Dies \/ Update!FinishHelper \/ Update!FinishRequest
  PROVE  UpdateInv'
<1> USE DEF UpdateInv, Update!world
<1>1. CASE Update!Exits \/ Update!Dies
  BY <1>1, NoLineKeeps DEF Update!Exits, Update!Dies
<1>2. CASE Update!FinishHelper
  <2>1. /\ UNCHANGED <<release, pending, lines>> /\ op' = "none"
        /\ \/ ui' = [ui EXCEPT !.supported = FALSE]
           \/ ui' = [ui EXCEPT !.checking = FALSE]
           \/ ui' = [ui EXCEPT !.downloading = FALSE, !.ready = @ /\ ~cancelled,
                               !.error = ~cancelled
                                           /\ (@ \/ (~ui.ready /\ Update!FallsBack))]
           \/ ui' = [ui EXCEPT !.applying = FALSE, !.error = TRUE]
           \/ ui' = ui
    BY <1>2 DEF Update!FinishHelper
  <2>2. ui' \in Flags /\ (ui'.ready => ui.ready)
    BY <2>1 DEF Flags
  <2> QED
    BY <2>1, <2>2, NoLineKeeps
<1>3. CASE Update!FinishRequest
  <2>1. PICK f \in BOOLEAN :
          /\ UNCHANGED <<release, pending, lines, op>>
          /\ ui' = [ui EXCEPT !.checking = FALSE, !.checked = TRUE, !.error = f,
                              !.available = ~f /\ release = "newer"]
    BY <1>3 DEF Update!FinishRequest, Update!process
  <2>2. ui' \in Flags /\ (ui'.ready => ui.ready)
    BY <2>1 DEF Flags
  <2> QED
    BY <2>1, <2>2, NoLineKeeps
<1> QED
  BY <1>1, <1>2, <1>3

LEMMA UpdateKeeps == UpdateInv /\ [Update!Next]_updateVars => UpdateInv'
<1> SUFFICES ASSUME UpdateInv, [Update!Next]_updateVars PROVE UpdateInv'
  OBVIOUS
<1>1. CASE UNCHANGED updateVars
  BY <1>1 DEF updateVars, UpdateInv
<1>2. CASE Update!Next
  BY <1>2, PageUpdates, HelperSays, CheckerHears, CheckerEnds
     DEF Update!Next, Update!Progress
<1> QED
  BY <1>1, <1>2

\* However the updater dies, and however its lines cross a cancelation: what
\* the page offers to apply was downloaded to its end.
THEOREM ReadyAlwaysPending == Spec => []ReadyIsPending
<1>1. Init => UpdateInv
  BY UpdateInit DEF Init
<1>2. UpdateInv /\ [Next]_vars => UpdateInv'
  BY UpdateKeeps, PartSteps
<1>3. UpdateInv => ReadyIsPending
  BY DEF UpdateInv, ReadyIsPending, Update!ReadyIsPending
<1> QED
  BY <1>1, <1>2, <1>3, PTL DEF Spec

-----------------------------------------------------------------------------
\* Installer.

\* Until the link is handled, the file that is still the same is the one that
\* the inspection found.
InstallInv == worker = "link" /\ same => seen = link

LEMMA InstallInit == Install!Init => InstallInv
  BY DEF Install!Init, InstallInv

LEMMA InstallKeepsInv == InstallInv /\ [Install!Next]_installerVars => InstallInv'
<1> SUFFICES ASSUME InstallInv, [Install!Next]_installerVars PROVE InstallInv'
  OBVIOUS
<1> USE DEF InstallInv, Install!wizard, Install!disk, Install!shortcut, Install!drawing
<1>1. CASE UNCHANGED installerVars
  BY <1>1 DEF installerVars
<1>2. CASE Install!User
  <2>1. UNCHANGED <<link, seen, same>>
    BY <1>2 DEF Install!User
  <2>2. worker' \in {worker, "validate"}
    BY <1>2 DEF Install!User, Install!Begin, Install!Review
  <2> QED
    BY <2>1, <2>2
<1>3. CASE Install!Finished \/ Install!DrawFails \/ Install!Minimized \/ Install!Recovery
           \/ Install!CloseBox
  BY <1>3 DEF Install!Finished, Install!DrawFails, Install!Minimized, Install!Recovery,
              Install!CloseBox
<1>4. CASE Install!Validate \/ Install!Prepare \/ Install!Backend
  BY <1>4 DEF Install!Validate, Install!Prepare, Install!Backend, Install!Ends
<1>5. CASE Install!Inspect \/ Install!Link
  BY <1>5 DEF Install!Inspect, Install!Link, Install!Ends
<1>6. CASE Install!Others
  BY <1>6 DEF Install!Others
<1> QED
  BY <1>1, <1>2, <1>3, <1>4, <1>5, <1>6 DEF Install!Next

\* A file another program has put in place of the shortcut is taken away only
\* where the user wants the shortcut and the inspection found a file there.
LEMMA LinkSpares ==
  ASSUME InstallInv, Install!Link, link = "foreign", link' # "foreign"
  PROVE  wanted /\ seen # "none"
<1>1. worker = "link" /\ link' = Install!Updated
  BY DEF Install!Link
<1>2. CASE wanted
  BY <1>1, <1>2 DEF Install!Updated
<1>3. CASE ~wanted
  BY <1>1, <1>3 DEF Install!Updated, Install!Unchanged, InstallInv
<1> QED
  BY <1>2, <1>3

\* The same of every step of every behaviour.
THEOREM ForeignShortcutAlwaysKept == Spec => ForeignShortcutKept
<1>1. Init => InstallInv
  BY InstallInit DEF Init
<1>2. InstallInv /\ [Next]_vars => InstallInv'
  BY InstallKeepsInv, PartSteps
<1>3. InstallInv /\ [Next]_vars =>
        [Install!Link /\ link = "foreign" /\ link' # "foreign"
           => wanted /\ seen # "none"]_(Install!installerVars)
  BY LinkSpares
<1> QED
  BY <1>1, <1>2, <1>3, PTL DEF Spec, ForeignShortcutKept, Install!ForeignShortcutKept

-----------------------------------------------------------------------------
\* ImageLoads.

Bytes == 0 .. MaxChanges
LoadRecords ==
  [name : Bytes, consumers : Nat, at : {"none", "waiting", "found", "done"},
   result : Bytes \cup {None, Empty, Failed}]
ResponseRecords ==
  [load : Responses \cup {None}, owed : Bytes,
   at : {"none", "open", "cancelled", "finished"}, held : BOOLEAN,
   got : Bytes \cup {None, Empty, Failed}]

\* The generation of the name counts the changes that were reported done, and
\* a page that holds a name is owed the change of that generation.
NameInv ==
  /\ gen \in Nat /\ acked = gen /\ server \in Bytes
  /\ \/ changing = "no" /\ server = gen
     \/ changing \in {"changed", "cancelled"} /\ server = gen + 1
  /\ \A p \in planned : p.name \in 0 .. gen /\ p.owed = p.name

\* Only names that were given are downloaded, so the bytes that are found or
\* cached under a name are never older than it.
ByteInv ==
  /\ file \in [Bytes -> Bytes \cup {None}]
  /\ fetch \in [Bytes -> Bytes \cup {None, Asked}]
  /\ \A n \in Bytes : fetch[n] = Asked => n <= server
  /\ \A n \in Bytes : fetch[n] \in Bytes => fetch[n] >= n
  /\ \A n \in Bytes : file[n] \in Bytes => file[n] >= n

\* The responses that are counted among the consumers of a load.
Holders(l) == {r \in Responses : response[r].held /\ response[r].load = l}
CountInv ==
  \A l \in Responses :
    IsFiniteSet(Holders(l)) /\ loads[l].consumers = Cardinality(Holders(l))

\* A response that is open is counted, and belongs to a load that has begun,
\* of the name it is owed.
ShareInv ==
  /\ joined \in [Bytes -> Responses \cup {None}]
  /\ loads \in [Responses -> LoadRecords]
  /\ response \in [Responses -> ResponseRecords]
  /\ \A n \in Bytes : joined[n] # None =>
       response[joined[n]].at # "none" /\ loads[joined[n]].name = n
  /\ \A r \in Responses : response[r].held <=> response[r].at = "open"
  /\ \A r \in Responses : response[r].at # "none" =>
       /\ response[r].load \in Responses
       /\ response[response[r].load].at # "none"
       /\ loads[response[r].load].name = response[r].owed

\* A load that was given up unread has no consumer, unless the program ends.
ResultInv ==
  /\ down \in BOOLEAN
  /\ \A l \in Responses : loads[l].result = Empty => down \/ loads[l].consumers = 0
  /\ \A l \in Responses : loads[l].result \in Bytes => loads[l].result >= loads[l].name

ServedInv ==
  \A r \in Responses : response[r].at = "finished" =>
    /\ response[r].got = Empty => down
    /\ response[r].got \in Bytes => response[r].got >= response[r].owed

ImageInv == NameInv /\ ByteInv /\ CountInv /\ ShareInv /\ ResultInv /\ ServedInv

LEMMA ImageConstants ==
  /\ MaxChanges \in Nat /\ Images!Names = Bytes /\ Bytes \subseteq Nat /\ 0 \in Bytes
  /\ {None, Asked, Empty, Failed} \cap Bytes = {}
  /\ None \notin Responses /\ None # Asked /\ Empty \notin {None, Failed}
<1>1. Images!ImageAssumption
  BY ServicesAssumption
<1> QED
  BY <1>1 DEF Images!ImageAssumption, Images!Names, Bytes

LEMMA ImageInit == Images!Init => ImageInv
<1> SUFFICES ASSUME Images!Init PROVE ImageInv
  OBVIOUS
<1> USE ImageConstants DEF Images!Init
<1>1. NameInv /\ ByteInv
  BY DEF NameInv, ByteInv
<1>2. \A l \in Responses : Holders(l) = {}
  BY DEF Holders
<1>3. CountInv
  BY <1>2, FS_EmptySet DEF CountInv
<1>4. ShareInv
  BY DEF ShareInv, LoadRecords, ResponseRecords
<1>5. ResultInv /\ ServedInv
  BY DEF ResultInv, ServedInv
<1> QED
  BY <1>1, <1>3, <1>4, <1>5 DEF ImageInv

\* What the application does, the provider standing still.
LEMMA NamesAlone ==
  ASSUME ImageInv, NameInv', ByteInv', UNCHANGED <<joined, loads, response>>,
         down' \in {down, TRUE}
  PROVE  ImageInv'
<1>1. CountInv' /\ ShareInv'
  BY DEF ImageInv, CountInv, ShareInv, Holders
<1>2. ResultInv' /\ ServedInv'
  BY DEF ImageInv, ResultInv, ServedInv
<1> QED
  BY <1>1, <1>2 DEF ImageInv

LEMMA ChangeKeeps ==
  ASSUME ImageInv,
         Images!Change \/ Images!CancelTasks \/ Images!Acknowledge \/ Images!Plan
           \/ Images!CancelBackgroundTasks \/ Images!Destroy
  PROVE  ImageInv'
<1> USE ImageConstants DEF Images!change, Images!page
<1>1. CASE Images!Change
  <2>1. NameInv' /\ ByteInv'
    BY <1>1 DEF Images!Change, ImageInv, NameInv, ByteInv, Bytes
  <2> QED
    BY <1>1, <2>1, NamesAlone DEF Images!Change
<1>2. CASE Images!CancelTasks
  <2>1. NameInv' /\ ByteInv'
    BY <1>2 DEF Images!CancelTasks, ImageInv, NameInv, ByteInv
  <2> QED
    BY <1>2, <2>1, NamesAlone DEF Images!CancelTasks
<1>3. CASE Images!Acknowledge
  <2>1. NameInv'
    BY <1>3 DEF Images!Acknowledge, ImageInv, NameInv
  <2>2. ByteInv'
    BY <1>3 DEF Images!Acknowledge, ImageInv, ByteInv
  <2> QED
    BY <1>3, <2>1, <2>2, NamesAlone DEF Images!Acknowledge
<1>4. CASE Images!Plan
  <2>1. NameInv' /\ ByteInv'
    BY <1>4 DEF Images!Plan, ImageInv, NameInv, ByteInv
  <2> QED
    BY <1>4, <2>1, NamesAlone DEF Images!Plan
<1>5. CASE Images!CancelBackgroundTasks
  <2>1. NameInv' /\ ByteInv'
    BY <1>5 DEF Images!CancelBackgroundTasks, ImageInv, NameInv, ByteInv
  <2> QED
    BY <1>5, <2>1, NamesAlone DEF Images!CancelBackgroundTasks
<1>6. CASE Images!Destroy
  <2>1. NameInv' /\ ByteInv'
    BY <1>6 DEF Images!Destroy, ImageInv, NameInv, ByteInv
  <2> QED
    BY <1>6, <2>1, NamesAlone DEF Images!Destroy
<1> QED
  BY <1>1, <1>2, <1>3, <1>4, <1>5, <1>6

\* A download of a name begins after the name was given, so the version the
\* server then has, and all later ones, are new enough.
LEMMA CacheKeeps ==
  ASSUME ImageInv, NEW n \in Bytes,
         Images!Schedule(n) \/ Images!Fetched(n) \/ Images!Write(n) \/ Images!Prune(n)
  PROVE  ImageInv'
<1> USE ImageConstants DEF Images!change, Images!page
<1>0. n <= gen => n <= server
  BY DEF ImageInv, NameInv, Bytes
<1>1. CASE Images!Schedule(n)
  <2>1. n <= server
    BY <1>0, <1>1 DEF Images!Schedule, ImageInv, NameInv
  <2>2. NameInv'
    BY <1>1 DEF Images!Schedule, ImageInv, NameInv
  <2>3. ByteInv'
    BY <1>1, <2>1 DEF Images!Schedule, ImageInv, ByteInv
  <2> QED
    BY <1>1, <2>2, <2>3, NamesAlone DEF Images!Schedule
<1>2. CASE Images!Fetched(n)
  <2>1. NameInv'
    BY <1>2 DEF Images!Fetched, ImageInv, NameInv
  <2>2. PICK got \in {None, server} : fetch' = [fetch EXCEPT ![n] = got]
    BY <1>2 DEF Images!Fetched
  <2>3. n <= server /\ server \in Bytes /\ UNCHANGED <<file, server>>
    BY <1>2 DEF Images!Fetched, ImageInv, ByteInv, NameInv
  <2>4. ByteInv'
    BY <2>2, <2>3 DEF ImageInv, ByteInv, Bytes
  <2> QED
    BY <1>2, <2>1, <2>4, NamesAlone DEF Images!Fetched
<1>3. CASE Images!Write(n)
  <2>1. NameInv'
    BY <1>3 DEF Images!Write, ImageInv, NameInv
  <2>2. fetch[n] \in Bytes /\ fetch[n] >= n
    BY <1>3 DEF Images!Write, ImageInv, ByteInv
  <2>3. ByteInv'
    BY <1>3, <2>2 DEF Images!Write, ImageInv, ByteInv
  <2> QED
    BY <1>3, <2>1, <2>3, NamesAlone DEF Images!Write
<1>4. CASE Images!Prune(n)
  <2>1. NameInv' /\ ByteInv'
    BY <1>4 DEF Images!Prune, ImageInv, NameInv, ByteInv
  <2> QED
    BY <1>4, <2>1, NamesAlone DEF Images!Prune
<1> QED
  BY <1>1, <1>2, <1>3, <1>4

\* What the provider does, the application standing still.
LEMMA ProviderAlone ==
  ASSUME ImageInv, UNCHANGED <<server, changing, acked, gen, planned, file, fetch, down>>,
         CountInv', ShareInv', ResultInv', ServedInv'
  PROVE  ImageInv'
<1>1. NameInv' /\ ByteInv'
  BY DEF ImageInv, NameInv, ByteInv
<1> QED
  BY <1>1 DEF ImageInv

LEMMA AcquireKeeps ==
  ASSUME ImageInv, NEW r \in Responses, NEW p \in planned, Images!Acquire(r, p)
  PROVE  ImageInv'
<1> USE ImageConstants DEF Images!change
<1> DEFINE n == p.name
           l == IF Images!Joinable(joined[n]) THEN joined[n] ELSE r
<1>1. n \in Bytes /\ p.owed = n
  BY DEF ImageInv, NameInv, Bytes
<1>2. /\ response[r].at = "none" /\ ~down
      /\ response' = [response EXCEPT ![r] =
           [load |-> l, owed |-> n, at |-> "open", held |-> TRUE, got |-> None]]
      /\ joined' = [joined EXCEPT ![n] = l]
      /\ loads' = IF l = r
                  THEN [loads EXCEPT ![r] =
                          [name |-> n, consumers |-> 1, at |-> "waiting", result |-> None]]
                  ELSE [loads EXCEPT ![l].consumers = @ + 1]
      /\ UNCHANGED <<server, changing, acked, gen, planned, file, fetch, down>>
  BY <1>1 DEF Images!Acquire
<1>3. Images!Joinable(joined[n]) =>
        joined[n] \in Responses /\ response[joined[n]].at # "none"
          /\ loads[joined[n]].name = n /\ loads[joined[n]].consumers > 0
  <2> SUFFICES ASSUME Images!Joinable(joined[n])
               PROVE  joined[n] \in Responses /\ response[joined[n]].at # "none"
                        /\ loads[joined[n]].name = n /\ loads[joined[n]].consumers > 0
    OBVIOUS
  <2>1. joined[n] # None /\ loads[joined[n]].consumers > 0
    BY DEF Images!Joinable
  <2> HIDE DEF n
  <2> QED
    BY <1>1, <2>1 DEF ImageInv, ShareInv
<1>4. l \in Responses
      /\ (l # r => response[l].at # "none" /\ loads[l].name = n /\ loads[l].consumers > 0)
  BY <1>2, <1>3
<1>5. Holders(r) = {} /\ \A k \in Responses : r \notin Holders(k)
  BY <1>2 DEF Holders, ImageInv, ShareInv
<1>6. \A x \in Responses :
        x # r => (response[x].at # "none" => response[x].load # r)
  BY <1>2 DEF ImageInv, ShareInv
<1> HIDE DEF n, l
<1>30. loads[l] \in LoadRecords /\ loads \in [Responses -> LoadRecords]
  BY <1>4 DEF ImageInv, ShareInv
<1>31. loads'[l] = (IF l = r THEN [name |-> n, consumers |-> 1, at |-> "waiting", result |-> None]
                   ELSE [loads[l] EXCEPT !.consumers = @ + 1])
      /\ \A k \in Responses : k # l => loads'[k] = loads[k]
  <2>1. CASE l = r
    <3>1. loads' = [loads EXCEPT ![l] =
                      [name |-> n, consumers |-> 1, at |-> "waiting", result |-> None]]
      BY <1>2, <2>1
    <3> QED
      BY <1>4, <1>30, <2>1, <3>1
  <2>2. CASE l # r
    <3>1. loads' = [loads EXCEPT ![l].consumers = @ + 1]
      BY <1>2, <2>2
    <3> QED
      BY <1>4, <1>30, <2>2, <3>1
  <2> QED
    BY <2>1, <2>2
<1>32. loads'[l] \in LoadRecords /\ loads'[l].name = (IF l = r THEN n ELSE loads[l].name)
      /\ loads'[l].consumers = (IF l = r THEN 1 ELSE loads[l].consumers + 1)
      /\ loads'[l].result = (IF l = r THEN None ELSE loads[l].result)
  <2>1. CASE l = r
    BY <1>1, <1>31, <2>1 DEF LoadRecords
  <2>2. CASE l # r
    BY <1>31, <1>30, <2>2 DEF LoadRecords
  <2> QED
    BY <2>1, <2>2
<1>7. \A k \in Responses : Holders(k)' = IF k = l THEN Holders(k) \cup {r} ELSE Holders(k)
  BY <1>2, <1>4, <1>5 DEF Holders, ImageInv, ShareInv
<1>8. \A k \in Responses :
        loads'[k].consumers = IF k = l THEN (IF l = r THEN 1 ELSE loads[k].consumers + 1)
                              ELSE loads[k].consumers
  BY <1>31, <1>32
<1>9. CountInv'
  <2> SUFFICES ASSUME NEW k \in Responses
               PROVE  IsFiniteSet(Holders(k)') /\ loads'[k].consumers = Cardinality(Holders(k)')
    BY DEF CountInv
  <2>1. IsFiniteSet(Holders(k)) /\ loads[k].consumers = Cardinality(Holders(k))
    BY DEF ImageInv, CountInv
  <2>2. CASE k # l
    BY <1>7, <1>8, <2>1, <2>2
  <2>3. CASE k = l /\ l = r
    BY <1>5, <1>7, <1>8, <2>1, <2>3, FS_EmptySet, FS_AddElement
  <2>4. CASE k = l /\ l # r
    BY <1>5, <1>7, <1>8, <2>1, <2>4, FS_AddElement
  <2> QED
    BY <2>2, <2>3, <2>4
<1>10. loads' \in [Responses -> LoadRecords]
  BY <1>2, <1>31, <1>30, <1>32
<1>11. \A k \in Responses : loads'[k].name = IF k = l THEN n ELSE loads[k].name
  BY <1>4, <1>31, <1>32
<1>12. response' \in [Responses -> ResponseRecords]
  BY <1>1, <1>2, <1>4 DEF ImageInv, ShareInv, ResponseRecords
<1>13. \A k \in Responses : k # r => response'[k] = response[k]
  BY <1>2 DEF ImageInv, ShareInv
<1>14. response'[r] = [load |-> l, owed |-> n, at |-> "open", held |-> TRUE, got |-> None]
  BY <1>2 DEF ImageInv, ShareInv
<1>15. \A k \in Bytes : joined'[k] # None =>
         response'[joined'[k]].at # "none" /\ loads'[joined'[k]].name = k
  <2> SUFFICES ASSUME NEW k \in Bytes, joined'[k] # None
               PROVE  response'[joined'[k]].at # "none" /\ loads'[joined'[k]].name = k
    OBVIOUS
  <2>1. CASE k = n
    <3>1. joined'[k] = l
      BY <1>2, <2>1 DEF ImageInv, ShareInv
    <3> QED
      BY <1>4, <1>11, <1>13, <1>14, <2>1, <3>1
  <2>2. CASE k # n
    <3>1. joined'[k] = joined[k] /\ joined[k] \in Responses
          /\ response[joined[k]].at # "none" /\ loads[joined[k]].name = k
      BY <1>2, <2>2 DEF ImageInv, ShareInv
    <3>2. joined[k] # l
      BY <1>2, <1>4, <2>2, <3>1
    <3> QED
      BY <1>11, <1>13, <1>14, <3>1, <3>2
  <2> QED
    BY <2>1, <2>2
<1>16. joined' \in [Bytes -> Responses \cup {None}]
  BY <1>2, <1>4 DEF ImageInv, ShareInv
<1>17. \A x \in Responses : response'[x].at # "none" =>
         /\ response'[x].load \in Responses
         /\ response'[response'[x].load].at # "none"
         /\ loads'[response'[x].load].name = response'[x].owed
  <2> SUFFICES ASSUME NEW x \in Responses, response'[x].at # "none"
               PROVE  /\ response'[x].load \in Responses
                      /\ response'[response'[x].load].at # "none"
                      /\ loads'[response'[x].load].name = response'[x].owed
    OBVIOUS
  <2>1. CASE x = r
    BY <1>4, <1>11, <1>13, <1>14, <2>1
  <2>2. CASE x # r
    <3>1. response[x].load \in Responses /\ response[response[x].load].at # "none"
          /\ loads[response[x].load].name = response[x].owed /\ response[x].load # r
      BY <1>6, <1>13, <2>2 DEF ImageInv, ShareInv
    <3>2. response[x].load = l => response[x].owed = n
      BY <1>4, <3>1
    <3> QED
      BY <1>11, <1>13, <2>2, <3>1, <3>2
  <2> QED
    BY <2>1, <2>2
<1>18. ShareInv'
  BY <1>10, <1>12, <1>13, <1>14, <1>15, <1>16, <1>17 DEF ImageInv, ShareInv
<1>19. ResultInv'
  <2>1. l # r => loads[l].result # Empty
    BY <1>2, <1>4 DEF ImageInv, ResultInv
  <2> QED
    BY <1>2, <1>4, <1>31, <1>32, <2>1 DEF ImageInv, ResultInv
<1>20. ServedInv'
  BY <1>2, <1>13, <1>14 DEF ImageInv, ServedInv
<1> QED
  BY <1>2, <1>9, <1>18, <1>19, <1>20, ProviderAlone

\* A response that is answered or canceled is counted out once.
LEMMA ReleaseKeeps ==
  ASSUME ImageInv, NEW r \in Responses, response[r].at # "none",
         response' \in [Responses -> ResponseRecords], loads' = Images!Released(r),
         UNCHANGED <<server, changing, acked, gen, planned, file, fetch, joined, down>>,
         \A x \in Responses : x # r => response'[x] = response[x],
         response'[r].at \in {"cancelled", "finished"}, response'[r].held = FALSE,
         response'[r].load = response[r].load, response'[r].owed = response[r].owed,
         response'[r].at = "finished" =>
           /\ response'[r].got = Empty => down
           /\ response'[r].got \in Bytes => response'[r].got >= response'[r].owed
  PROVE  ImageInv'
<1> USE ImageConstants
<1> DEFINE l == response[r].load
<1>1. l \in Responses
  BY DEF ImageInv, ShareInv
<1>2. CASE response[r].held
  <2>1. loads' = [loads EXCEPT ![l].consumers = @ - 1]
    BY <1>2 DEF Images!Released
  <2>2. \A k \in Responses : Holders(k)' = IF k = l THEN Holders(k) \ {r} ELSE Holders(k)
    BY DEF Holders
  <2>3. r \in Holders(l) /\ IsFiniteSet(Holders(l)) /\ loads[l].consumers = Cardinality(Holders(l))
    BY <1>1, <1>2 DEF Holders, ImageInv, CountInv
  <2>4. loads[l].consumers \in Nat /\ loads[l].consumers # 0
    BY <1>1, <2>3, FS_EmptySet DEF ImageInv, ShareInv, LoadRecords
  <2>5. \A k \in Responses : k # l => loads'[k] = loads[k]
    BY <2>1 DEF ImageInv, ShareInv
  <2>6. loads'[l] = [loads[l] EXCEPT !.consumers = @ - 1] /\ loads[l] \in LoadRecords
    BY <1>1, <2>1 DEF ImageInv, ShareInv
  <2>7. loads'[l] \in LoadRecords /\ loads'[l].consumers = loads[l].consumers - 1
        /\ loads'[l].name = loads[l].name /\ loads'[l].result = loads[l].result
    BY <2>4, <2>6 DEF LoadRecords
  <2>8. loads' \in [Responses -> LoadRecords]
    BY <2>1, <2>5, <2>7 DEF ImageInv, ShareInv
  <2> HIDE DEF l
  <2>9. CountInv'
    BY <2>2, <2>3, <2>5, <2>7, FS_RemoveElement DEF ImageInv, CountInv
  <2>10. ShareInv'
    <3>1. \A x \in Responses : response'[x].held <=> response'[x].at = "open"
      BY DEF ImageInv, ShareInv
    <3>2. \A k \in Responses : loads'[k].name = loads[k].name
                              /\ (response'[k].at # "none" <=> response[k].at # "none")
      BY <2>5, <2>7
    <3>3. \A x \in Responses : response'[x].load = response[x].load
                              /\ response'[x].owed = response[x].owed
      OBVIOUS
    <3>4. \A n \in Bytes : joined'[n] # None =>
             response'[joined'[n]].at # "none" /\ loads'[joined'[n]].name = n
      BY <3>2 DEF ImageInv, ShareInv
    <3>5. \A x \in Responses : response'[x].at # "none" =>
            /\ response'[x].load \in Responses
            /\ response'[response'[x].load].at # "none"
            /\ loads'[response'[x].load].name = response'[x].owed
      BY <3>2, <3>3 DEF ImageInv, ShareInv
    <3>6. joined' \in [Bytes -> Responses \cup {None}]
      BY DEF ImageInv, ShareInv
    <3> QED
      BY <2>8, <3>1, <3>4, <3>5, <3>6 DEF ShareInv
  <2>11. ResultInv'
    <3>1. loads[l].result = Empty => down
      BY <1>1, <2>4 DEF ImageInv, ResultInv
    <3> QED
      BY <2>5, <2>7, <3>1 DEF ImageInv, ResultInv
  <2>12. ServedInv'
    BY DEF ImageInv, ServedInv
  <2> QED
    BY <2>9, <2>10, <2>11, <2>12, ProviderAlone
<1>3. CASE ~response[r].held
  <2>1. loads' = loads
    BY <1>3 DEF Images!Released
  <2>2. \A k \in Responses : Holders(k)' = Holders(k)
    BY <1>3 DEF Holders
  <2>3. CountInv'
    BY <2>1, <2>2 DEF ImageInv, CountInv
  <2>4. ShareInv'
    <3>1. \A x \in Responses : response'[x].held <=> response'[x].at = "open"
      BY DEF ImageInv, ShareInv
    <3>2. \A k \in Responses : response'[k].at # "none" <=> response[k].at # "none"
      OBVIOUS
    <3> QED
      BY <2>1, <3>1, <3>2 DEF ImageInv, ShareInv
  <2>5. ResultInv' /\ ServedInv'
    BY <2>1 DEF ImageInv, ResultInv, ServedInv
  <2> QED
    BY <2>3, <2>4, <2>5, ProviderAlone
<1> QED
  BY <1>2, <1>3

LEMMA CancelKeeps ==
  ASSUME ImageInv, NEW r \in Responses, Images!Cancel(r)
  PROVE  ImageInv'
<1>1. response' = [response EXCEPT ![r] = [@ EXCEPT !.at = "cancelled", !.held = FALSE]]
  BY DEF Images!Cancel, ImageInv, ShareInv, ResponseRecords
<1>2. response[r] \in ResponseRecords
  BY DEF ImageInv, ShareInv
<1>3. response'[r] = [response[r] EXCEPT !.at = "cancelled", !.held = FALSE]
  BY <1>1 DEF ImageInv, ShareInv
<1>4. response'[r] \in ResponseRecords /\ response'[r].at = "cancelled"
      /\ response'[r].held = FALSE
      /\ response'[r].load = response[r].load /\ response'[r].owed = response[r].owed
  BY <1>2, <1>3 DEF ResponseRecords
<1>5. response' \in [Responses -> ResponseRecords]
      /\ \A x \in Responses : x # r => response'[x] = response[x]
  BY <1>1, <1>3, <1>4 DEF ImageInv, ShareInv
<1> QED
  BY <1>4, <1>5, ReleaseKeeps DEF Images!Cancel, Images!change

LEMMA FinishedKeeps ==
  ASSUME ImageInv, NEW r \in Responses, Images!Finished(r)
  PROVE  ImageInv'
<1> USE ImageConstants
<1> DEFINE l == response[r].load
           got == IF response[r].at = "open" THEN loads[l].result ELSE None
<1>1. response[r].at \in {"open", "cancelled"} /\ response[r] \in ResponseRecords
  BY DEF Images!Finished, Images!Awaiting, ImageInv, ShareInv
<1>2. l \in Responses /\ loads[l] \in LoadRecords /\ loads[l].name = response[r].owed
  BY <1>1 DEF ImageInv, ShareInv
<1>3. response' = [response EXCEPT ![r] = [@ EXCEPT !.at = "finished", !.held = FALSE, !.got = got]]
  BY DEF Images!Finished
<1>4. got \in Bytes \cup {None, Empty, Failed}
  BY <1>2 DEF LoadRecords
<1>5. got = Empty => down
  <2> SUFFICES ASSUME response[r].at = "open", loads[l].result = Empty
               PROVE  down
    OBVIOUS
  <2>1. r \in Holders(l)
    BY DEF Holders, ImageInv, ShareInv
  <2>2. loads[l].consumers # 0
    BY <1>2, <2>1, FS_EmptySet DEF ImageInv, CountInv
  <2> QED
    BY <1>2, <2>2 DEF ImageInv, ResultInv
<1>6. got \in Bytes => got >= response[r].owed
  BY <1>2 DEF ImageInv, ResultInv
<1> HIDE DEF l, got
<1>7. response'[r] = [response[r] EXCEPT !.at = "finished", !.held = FALSE, !.got = got]
  BY <1>3 DEF ImageInv, ShareInv
<1>8. response'[r] \in ResponseRecords /\ response'[r].at = "finished"
      /\ response'[r].held = FALSE /\ response'[r].got = got
      /\ response'[r].load = response[r].load /\ response'[r].owed = response[r].owed
  BY <1>1, <1>4, <1>7 DEF ResponseRecords
<1>9. response' \in [Responses -> ResponseRecords]
      /\ \A x \in Responses : x # r => response'[x] = response[x]
  BY <1>3, <1>8 DEF ImageInv, ShareInv
<1> QED
  BY <1>1, <1>5, <1>6, <1>8, <1>9, ReleaseKeeps DEF Images!Finished, Images!change

\* A worker gives a load up only when nobody waits for it, and what it reads
\* is the cached file of the name.
LEMMA WorkerKeeps ==
  ASSUME ImageInv, NEW l \in Responses, Images!Poll(l) \/ Images!Read(l)
  PROVE  ImageInv'
<1> USE ImageConstants
<1>1. UNCHANGED <<server, changing, acked, gen, planned, file, fetch, joined, response, down>>
  BY DEF Images!Poll, Images!Read, Images!change
<1>2. PICK at1 \in {"found", "done"}, res \in Bytes \cup {None, Empty, Failed} :
        /\ loads' = [loads EXCEPT ![l].at = at1, ![l].result = res]
        /\ res = Empty => down \/ loads[l].consumers = 0 \/ loads[l].result = Empty
        /\ res \in Bytes => res >= loads[l].name
  <2>1. loads[l] \in LoadRecords
    BY DEF ImageInv, ShareInv
  <2>2. CASE Images!Abandoned(l)
    BY <2>2 DEF Images!Poll, Images!Read, Images!Done, Images!Abandoned
  <2>3. CASE ~Images!Abandoned(l) /\ Images!Poll(l)
    <3>1. loads' = [loads EXCEPT ![l].at = "found"]
            \/ loads' = [loads EXCEPT ![l].at = "done", ![l].result = Failed]
      BY <2>3 DEF Images!Poll, Images!Done
    <3>2. CASE loads' = [loads EXCEPT ![l].at = "found"]
      <4>1. loads' = [loads EXCEPT ![l].at = "found", ![l].result = loads[l].result]
        BY <2>1, <3>2 DEF LoadRecords, ImageInv, ShareInv
      <4> QED
        BY <2>1, <4>1 DEF LoadRecords, ImageInv, ResultInv
    <3> QED
      BY <3>1, <3>2
  <2>4. CASE ~Images!Abandoned(l) /\ Images!Read(l)
    <3>1. loads' = [loads EXCEPT ![l].at = "done",
                      ![l].result = IF file[loads[l].name] = None THEN Failed
                                    ELSE file[loads[l].name]]
      BY <2>4 DEF Images!Read, Images!Done
    <3>2. file[loads[l].name] \in Bytes \cup {None}
          /\ (file[loads[l].name] \in Bytes => file[loads[l].name] >= loads[l].name)
      BY <2>1 DEF LoadRecords, ImageInv, ByteInv
    <3> QED
      BY <3>1, <3>2
  <2> QED
    BY <2>2, <2>3, <2>4
<1>3. \A k \in Responses : k # l => loads'[k] = loads[k]
  BY <1>2 DEF ImageInv, ShareInv
<1>4. loads'[l] \in LoadRecords /\ loads'[l].name = loads[l].name
      /\ loads'[l].consumers = loads[l].consumers /\ loads'[l].result = res
  <2>1. loads[l] \in LoadRecords
    BY DEF ImageInv, ShareInv
  <2>2. loads'[l] = [loads[l] EXCEPT !.at = at1, !.result = res]
    BY <1>2, <2>1 DEF ImageInv, ShareInv, LoadRecords
  <2> QED
    BY <2>1, <2>2 DEF LoadRecords
<1>5. loads' \in [Responses -> LoadRecords]
  BY <1>2, <1>3, <1>4 DEF ImageInv, ShareInv
<1>6. CountInv'
  BY <1>1, <1>3, <1>4 DEF ImageInv, CountInv, Holders
<1>7. ShareInv'
  <2>1. \A k \in Responses : loads'[k].name = loads[k].name
    BY <1>3, <1>4
  <2> QED
    BY <1>1, <1>5, <2>1 DEF ImageInv, ShareInv
<1>8. ResultInv' /\ ServedInv'
  BY <1>1, <1>2, <1>3, <1>4 DEF ImageInv, ResultInv, ServedInv
<1> QED
  BY <1>1, <1>6, <1>7, <1>8, ProviderAlone

LEMMA ImageKeeps == ImageInv /\ [Images!Next]_imageVars => ImageInv'
<1> SUFFICES ASSUME ImageInv, [Images!Next]_imageVars PROVE ImageInv'
  OBVIOUS
<1>1. CASE UNCHANGED imageVars
  <2> USE <1>1 DEF imageVars
  <2>1. NameInv'
    BY DEF ImageInv, NameInv
  <2>2. ByteInv'
    BY DEF ImageInv, ByteInv
  <2>3. CountInv'
    <3>1. \A l \in Responses : Holders(l)' = Holders(l)
      BY DEF Holders
    <3> QED
      BY <3>1 DEF ImageInv, CountInv
  <2>4. ShareInv'
    BY DEF ImageInv, ShareInv
  <2>5. ResultInv' /\ ServedInv'
    BY DEF ImageInv, ResultInv, ServedInv
  <2> QED
    BY <2>1, <2>2, <2>3, <2>4, <2>5 DEF ImageInv
<1>2. CASE Images!Next
  BY <1>2, ImageConstants, ChangeKeeps, CacheKeeps, AcquireKeeps, CancelKeeps,
     FinishedKeeps, WorkerKeeps DEF Images!Next, Images!Progress
<1> QED
  BY <1>1, <1>2

\* However the responses that share a load come and go, and however changes,
\* downloads and the cache cross: no response is given the emptiness of a load
\* that was given up for others, nor bytes older than it was promised.
THEOREM ResponsesAlwaysServed == Spec => []ResponsesAreServed
<1>1. Init => ImageInv
  BY ImageInit DEF Init
<1>2. ImageInv /\ [Next]_vars => ImageInv'
  BY ImageKeeps, PartSteps
<1>3. ImageInv => ResponsesAreServed
  BY DEF ImageInv, ServedInv, ShareInv, ResponseRecords, ResponsesAreServed,
         Images!ResponsesAreServed
<1> QED
  BY <1>1, <1>2, <1>3, PTL DEF Spec

=============================================================================
