-------------------------------- MODULE MCDelivery --------------------------
(***************************************************************************)
(* What brings the program to the user and keeps it there, in one run:     *)
(* components that share no state, of which a behaviour picks one at the   *)
(* start.  What is explored is the sum of their states, not the product.   *)
(***************************************************************************)
EXTENDS Naturals, Sequences, FiniteSets, TLC

CONSTANTS
  Responses, MaxChanges, None, Asked, Empty, Failed, MaxClicks, Launches,
  MaxChoices, Sets, Needs, MaxEvents, Dirs, Child, f1, f2, d1, d2, s1, s2

MCNeeds  == (s1 :> {f1}) @@ (s2 :> {f1, f2})
MCChild  == (d1 :> d2) @@ (d2 :> d2)

VARIABLES
  service,  \* the component of this behaviour
  \* ImageLoads
  server, changing, acked, gen, planned, file, fetch, joined, loads,
  response, down,
  \* UpdateChecker
  release, pending, ui, op, helper, lines, heard, cancelled, reply, quit,
  clicks,
  \* Bootstrap
  windows, waits, lock, at, result, desktop, published, cancel, exited,
  choices,
  \* UpscalingAssets
  disk, phase, check, queue, task, retry, assetEvents,
  \* Installer
  page, registry, known, chosen, selected, occupied, worker, succeeded,
  wanted, link, seen, same, failed, queued, attempts, unavailable, box,
  installEvents

Images  == INSTANCE ImageLoads
Update  == INSTANCE UpdateChecker
Boot    == INSTANCE Bootstrap
Assets  == INSTANCE UpscalingAssets
             WITH events <- assetEvents
Install == INSTANCE Installer
             WITH events <- installEvents

\* What each component assumes of its constants.
ASSUME ServicesAssumption ==
  /\ Images!ImageAssumption
  /\ Update!UpdateAssumption
  /\ Boot!BootstrapAssumption
  /\ Assets!UpscalingAssumption
  /\ Install!InstallerAssumption

imageVars ==
  <<server, changing, acked, gen, planned, file, fetch, joined, loads,
    response, down>>
updateVars ==
  <<release, pending, ui, op, helper, lines, heard, cancelled, reply, quit,
    clicks>>
bootVars ==
  <<windows, waits, lock, at, result, desktop, published, cancel, exited,
    choices>>
assetVars ==
  <<disk, phase, check, queue, task, retry, assetEvents>>
installerVars ==
  <<page, registry, known, chosen, selected, occupied, worker, succeeded,
    wanted, link, seen, same, failed, queued, attempts, unavailable, box,
    installEvents>>

vars == <<service, imageVars, updateVars, bootVars, assetVars, installerVars>>

\* A component that was not picked keeps one initial state.
Init ==
  /\ service \in {"images", "update", "boot", "assets", "install"}
  /\ Images!Init
  /\ Update!Init
  /\ Boot!Init
  /\ Assets!Init
  /\ Install!Init
  /\ service # "update" => release = "none" /\ ~ pending
  /\ service # "boot" => ~ windows /\ ~ waits
  /\ service # "assets" => \A f \in DOMAIN disk : disk[f] = "absent"
  /\ service # "install" =>
       registry = None /\ occupied = {} /\ link = "none" /\ chosen = d1

\* A step of one component leaves the others as they are.
ImagesAlone == service = "images" /\ UNCHANGED <<service, updateVars, bootVars, assetVars, installerVars>>
UpdateAlone == service = "update" /\ UNCHANGED <<service, imageVars, bootVars, assetVars, installerVars>>
BootAlone == service = "boot" /\ UNCHANGED <<service, imageVars, updateVars, assetVars, installerVars>>
AssetsAlone == service = "assets" /\ UNCHANGED <<service, imageVars, updateVars, bootVars, installerVars>>
InstallAlone == service = "install" /\ UNCHANGED <<service, imageVars, updateVars, bootVars, assetVars>>

Next ==
  \/ ImagesAlone /\ Images!Next
  \/ UpdateAlone /\ Update!Next
  \/ BootAlone /\ Boot!Next
  \/ AssetsAlone /\ Assets!Next
  \/ InstallAlone /\ Install!Next

\* The fairness of each component; the ones that stand still have nothing
\* their fairness asks for.
Fairness ==
  /\ Images!Fairness
  /\ Update!Fairness
  /\ Boot!Fairness
  /\ Assets!Fairness

Spec == Init /\ [][Next]_vars /\ Fairness

\* The properties, stated where the components are.
ResponsesAreServed  == Images!ResponsesAreServed
ResponsesEnd        == Images!ResponsesEnd
ReadyIsPending      == Update!ReadyIsPending
UpdateSettles       == Update!UpdateSettles
OneDesktop          == Boot!OneDesktop
LaunchesEnd         == Boot!LaunchesEnd
ReadyIsInstalled    == Assets!ReadyIsInstalled
AssetsSettle        == Assets!AssetsSettle
ForeignShortcutKept == Install!ForeignShortcutKept

\* Whatever was begun comes to its end: an image response, the check for an
\* update, the launch of an instance and the work on the assets.
DeliveryEnds ==
  /\ ResponsesEnd
  /\ UpdateSettles
  /\ LaunchesEnd
  /\ AssetsSettle
=============================================================================
