# Yanami: models and proofs

Yanami is a desktop client for an Emby media server: a Qt/C++ application whose
coordinators live on the UI event loop, and a Rust library that owns the
account, the local catalog and the network, called from worker threads through a
bridge. What can go wrong in it is mostly a matter of order: a result that comes
after the request it answers was superseded, a callback that re-enters the
function that emitted it, a worker still using an account that has been
replaced. This directory holds TLA+ modules of those parts, the TLC
configurations that check them, and theorems about them proved with TLAPS.

Paths below are relative to the repository; `native/` is
`apps/desktop/native/`, `application/` is `crates/yanami-application/src/`.

## 1. The system

### 1.1 How the parts hang together

```
 QML pages -> ApplicationViewModel (Session-, Playback-, ... ViewModel)
                    |  port calls and signals, one UI thread
   +----------------+------------------ DesktopBackendServices ---------------+
   | SessionCoordinator   PlaybackCoordinator   MediaCoordinator  Catalog-    |
   | PlaybackReporter     PlaybackReportQueue   (Keyed-           Coordinator |
   | RequestCoordinator   SearchCoordinator     MutationScheduler,MediaStore  |
   |                      DanmakuCoordinator    refresh tracking)             |
   +----------------+---------------------------------------------------------+
                    |  QtConcurrent jobs on worker pools, QFutureWatcher::finished
              RustBridgeRuntime / yanami-desktop-bridge
                    |  worker threads
   Application (session.rs): active_session, active_client_cache,
   refresh_monitor, background_tasks, media_catalog, active_playback
        |                      |                      |
   yanami-emby (HTTP,    yanami-storage (SQLite,   yanami-danmaku
   WebSocket)            posting index, vault)
```

Three kinds of interaction matter:

* **turns of the event loop.** Port calls, delivered `finished` events and fired
  timers run one after the other on the UI thread. A zero timer posts work to a
  later turn. Between the end of a worker's job and the delivery of its
  `finished` event any number of other turns may run.
* **direct signals.** A signal is a function call: its handlers run before the
  statement after the `emit`, and may call back into the emitter.
* **threads.** Workers of the bridge run Rust calls truly in parallel; each
  Rust critical section is one lock of one mutex.

### 1.2 Inventory

| Component | State it keeps | Operations | What is hard | What makes it correct |
|---|---|---|---|---|
| `native/KeyedMutationScheduler.hpp` | per-key queues, active requests, ready list | `enqueue`, `takeReady`, `complete`, `takeQueued`, `takeQueuedIf` | the ready list is maintained by four functions and rotated while it is scanned | one FIFO line per key; legal active set; nothing startable is left; no key starves for good |
| `native/PlaybackCoordinator.cpp`, `PlaybackReportQueue.cpp` | preparation lane (active, queued, token), deferred switch, report lane | `prepare`, `switchTo`, `cancelPreparation`, `report`, fence/abort/commit, shutdown | a late worker result, a zero timer that was superseded, a switch that waits for one report, coalescing | newest call survives and is answered once; nothing crosses a session change; Started/Stopped keep their order |
| `native/PlaybackReporter.cpp` | open report session, generation, three timers, pending seek | player signals, `beginSession`, `stopSession`, `attachPlayer`, `abandonSessionForTransition` | six sources of "stop", three of "start", timers that outlive the session they captured | Started first, Stopped last, once each |
| `native/SessionCoordinator.cpp`, `DesktopBackendServices.cpp`, `SessionViewModel` | operation, generation, connected; `transitionRequestId`; fence of every feature | `login`, `logout`, `finishOperation`, fence/commit/abort of features, shutdown | handlers run in the middle of the turn that changes the account | features are fenced while the account changes; a late result never shows under another account; every request answered |
| `application/session.rs` | active session, client cache, vault, stored rows, monitor, task registry, cached catalog, active playback | `login_emby`, `logout_emby`, `refresh_progress`, `catalog_search`, `prepare_playback`, `report_playback`, start-up | calls in flight while the account is replaced step by step; failures and crashes between the steps | no task or datum of a signed-out account survives; a restart finds a working session |
| `native/RequestCoordinator.hpp` | current token and generation per key, scope, lane | `begin`, `finish`, `cancel`, `invalidate*` | generations of keys that were never seen | a token is current for exactly as long as nothing superseded it |
| `native/MediaCoordinatorMutations.cpp` | scheduler, two mutation lanes, optimistic journal, speculative sets | `submitMutation`, `dispatchMutations`, `startMutation`, `finishMutation`, reset | `beginOptimisticStateMutation` re-enters; `finished` during settling | every request answered once; a rollback for every optimistic change that failed |
| `native/MediaCoordinatorInteractive.cpp` | five latest-wins read lanes | `submitInteractive`, `finishInteractive`, `pumpInteractiveReads`, `fenceInteractiveReads` | a read waits for the mutations it conflicts with | a read never shows a state older than an accepted mutation; a waiting read is pumped |
| `native/MediaCoordinatorRefresh.cpp` | tracked scans and refreshes, buffered progress | `applyRefreshProgress`, fallback poll, reconcile | messages before the request returns, lost messages | tracking ends; protection is released |
| `native/SearchCoordinator.cpp` | query lane, revision poll, hydration timers | `search`, `loadMore`, status poll, hydration | a poll restarts the query it was asked for | shown page belongs to the query shown |
| `native/DanmakuCoordinator.cpp` | search lane, mutation queue, waiting search | `search`, `match`, `save`, invalidation | a search waits for a mutation of its item | each call told once |
| `native/CatalogCoordinator*.cpp` | navigation lanes, activity and favorites refresh, presentation cache | navigation, refreshes, cache updates | promotion of a running equal query | what is shown is the newest navigation |
| `native/MediaStore.cpp` | entities, optimistic overlays, protection | `ingest`, `begin/commit/rollbackMutation` | commits and rollbacks in any order | row = server state with pending changes on top |
| `AsyncResourceState.hpp`, `AsyncOperationState.hpp`, `ApplicationViewModel.cpp` | request and busy state of each view model | begin, succeed, fail, invalidate | session change in the middle | no result of a superseded request |
| `application/catalog_search.rs`, `lib.rs`, `yanami-storage/media_catalog.rs` | supervisor, notification buffer, persisted changes and sync state | full, incremental and membership synchronization, gap repair | crashes in the middle of a full sync, notifications lost in a gap | catalog converges; nothing drained is lost |
| `application/images.rs`, `native/AsyncImageProvider.cpp` | running downloads; shared loads with a consumer count | plan, finish, abandon | the last consumer leaves as another arrives | one download per image, forgotten when it ends |
| `yanami-storage/posting_index.rs` | on-disk postings | merge, lookup, rank | algorithmic | same result as a scan |
| `native/UpdateChecker.cpp`, `UpdateHelperProcess.cpp`, `updater/` | operation, lines heard, request of the release page, flags of the page | check, download, cancel, apply, fallback | the updater dies or is timed out after it said half of its lines | only a download that ended is offered; every operation ends |
| `bootstrap/`, `native/main.cpp` | single-instance lock and its inheritance, ready signal, splash, deadline | launch, monitor, cancel, retry, hand off | the ready signal, the exit, the deadline and the user race | one desktop at a time; the launcher ends |
| `native/UpscalingAssetManager.cpp` | verifications, download queue, current task | select, verify, download, cancel | two sets share a file; the queue is cancelled under a running task | a set called ready is installed |
| `installer/` | wizard page, worker, inspected shortcut | choose, install, repair, write shortcut | other programs change what was inspected | another program's file is not taken away |
| `native/MpvVideoItem.cpp` | the file that waits, the transaction of option writes, what a configuration touched | `openMedia`, `configureUpscaling`, `stopPlayback`, replies of libmpv, `dispatchPendingLoad` | writes answered one by one while files and configurations are replaced; a write that fails half way | libmpv runs with a whole option set; the newest open wins |
| `PlaybackStallWatchdog.hpp`, `PlaybackCompletionGate.hpp` | watch state, clocks, flags of pause, seek and end | events of libmpv, seek, pause, `pollPlaybackStall` | reports that arrive after the call that made them stale; sleep | a stall is shown while it lasts, and reported |
| `native/ImageEditorViewModel.cpp` | cards, one journal record per card, mutations to be confirmed | `open`, `apply`, `upload`, `remove`, answers | a rollback, a reconciling load and a newer edit of the same card | a settled card shows the server's image |
| `native/ControllerNavigation.cpp`, `InputModalityController.cpp` | slots, neutral gate, pressed and captured controls | device scan, poll, focus, input test | devices, focus and the test change between two polls | a control held elsewhere does not act; nothing stays captured |
| danmaku rendering, bridge, clients, repositories, QML, packaging scripts | | | | I/O, drawing or stateless: not modelled |

`PROJECT.json` lists all of them with their files and status, and under
`hazards` everything in this code that a test hardly reaches, each at its line.
A hazard with an empty property list has a note that says why no
property covers it.

## 2. The modules

| Module | Models | Checked by | Proved in |
|---|---|---|---|
| `KeyedFifo` | the promise of the scheduler: one FIFO line per key | refined by the next | |
| `KeyedMutationScheduler` | `native/KeyedMutationScheduler.hpp` | `scheduler` | `MutationProofs` |
| `PlaybackCoordinator` | `native/PlaybackCoordinator.cpp`, `PlaybackReportQueue.cpp` | `playback`, `playback_blocked` | `PlaybackCoordinatorProofs` |
| `PlaybackReportProtocol` | the promise of the reporter to the playback port | refined by the next | |
| `PlaybackReporter` | `native/PlaybackReporter.cpp` | `reporter` | `PlaybackReporterProofs` |
| `PlaybackReporting` | `PlayerPage.qml`, `PlaybackHost.qml`, `PlaybackViewModel`, `PlaybackCoordinator`, `active_playback` of `application/playback.rs`, over `PlaybackReportProtocol` | `session` | `PlaybackCoordinatorProofs` |
| `EmbySession` | `application/session.rs` and what hangs on the session in `catalog_search.rs`, `playback.rs` | `session` | `SessionProofs` |
| `SessionLifecycle` | `SessionCoordinator.cpp`, `DesktopBackendServices.cpp`, `SessionViewModel` | `application` | `ApplicationProofs` |
| `MediaCoordinator` | `native/MediaCoordinator.cpp`, `...Mutations.cpp`, `...Interactive.cpp`, over `KeyedFifo` | `media` | `MutationProofs` |
| `MediaCatalog` | `yanami-storage/src/media_catalog.rs`: the SQLite projection and its search snapshot | extended by the next | |
| `CatalogSync` | `application/catalog_search.rs`, the buffer of `lib.rs`, the monitor of `session.rs` | `catalog`, `catalog_tombstones` | `CatalogSyncProofs` |
| `CatalogCoordinator` | `native/CatalogCoordinator*.cpp`, `RequestCoordinator.hpp`, what of `MediaStore.cpp` their answers meet | `navigation` | `SessionProofs` |
| `SearchCoordinator` | `native/SearchCoordinator.cpp` | `desktop` | `DesktopProofs` |
| `DanmakuCoordinator` | `native/DanmakuCoordinator.cpp` | `desktop` | `DesktopProofs` |
| `MediaStore` | `native/MediaStore.cpp`: entities, query rows, search model | `desktop` | `DesktopProofs` |
| `RefreshTracking` | `native/MediaCoordinatorRefresh.cpp` | `desktop` | `DesktopProofs` |
| `ImageEditor` | `native/ImageEditorViewModel.cpp`, `AsyncResourceState.cpp` | `desktop` | `DesktopProofs` |
| `ControllerInput` | `native/ControllerNavigation.cpp`, the input test of `InputModalityController.cpp` | `desktop` | `DesktopProofs` |
| `MpvVideoItem` | `native/MpvVideoItem.cpp`: opening a file under an upscaling configuration | `application` | `ApplicationProofs` |
| `PlaybackStall` | `PlaybackStallWatchdog.hpp`, `PlaybackCompletionGate.hpp`, their handlers in `MpvVideoItem.cpp` | `application` | `ApplicationProofs` |
| `ImageLoads` | `application/images.rs`, `image_actions.rs`, `native/AsyncImageProvider.cpp` | `delivery` | `DeliveryProofs` |
| `UpdateChecker` | `native/UpdateChecker.cpp`, `UpdateHelperProcess.cpp`, `VelopackUpdater.cpp` | `delivery` | `DeliveryProofs` |
| `Bootstrap` | `bootstrap/`, the desktop's side in `native/main.cpp` | `delivery` | `DeliveryProofs` |
| `UpscalingAssets` | `native/UpscalingAssetManager.cpp`, `UpscalingViewModel.cpp` | `delivery` | `DeliveryProofs` |
| `Installer` | `installer/InstallerMain.cpp`, `InstallerShortcuts.cpp` | `delivery` | `DeliveryProofs` |

The `MC*` modules give the constants their small sets. Definitions introduced
by a comment "Slip: ..." are deliberately wrong variants of the definition that
follows them; each property has one slip (`mutants` in `PROJECT.json`) that
breaks it, which shows that the property depends on the code.

### 2.1 KeyedMutationScheduler

`queues`, `active`, `ready` are `m_queues`, `m_active`, `m_readyKeys`. `Enqueue`,
`Complete` and `TakeQueued` are one step each. `TakeReady` and `TakeQueuedIf`
loop over keys in the code, so they are split: `TakeReady; ScanKey*;
ScanReturn`, and `TakeQueuedIf; FilterNextReady / FilterRequest / FilterStore
...; FilterReturn`. `pc` names the call that is running and no other call starts
meanwhile (the scheduler has one owner on one thread). `Compatible` stands for
the injected `m_compatibility`; the test is made in both directions, as in
lines 69-70. Payloads are abstracted to what the compatibility test tells apart,
keys to model values (the empty key is refused before anything happens).

The mapping to `KeyedFifo` shows the queue under the cursor as `retained \o
queues[k]`, the value the queue would have if `takeQueuedIf` stopped there.
A scan, a rotation or a store is a stutter of `KeyedFifo`.

### 2.2 PlaybackCoordinator

One action per turn: `Prepare`, `SwitchTo`, `CancelPreparation`, `Report`, the
two `finished` handlers, the zero timer of `scheduleAfterStop`, the three fence
calls and `Shutdown`; and one per worker for the end of its job, so that a turn
can fall between the end and the delivery. `submitPrepare`, `pumpPrepare`,
`startNextReport` and `enqueueReport` are operators that those actions use, as
they are functions in the code.

Abstractions. A preparation call is named by its number; a token, a serial or a
generation that the code compares with the newest is modelled by the request that
holds the newest (`latest`, `afterStopSerial`), because only equality with the
newest is ever asked. `ready` and `failed` are one counter per request
(`outcome`), since no property tells them apart. The context and the descriptor
are data. `m_runtime.ready()` is constant between initialisation and shutdown.
A call made with an invalid item, or while unavailable, is an input.

The two loops of `PlaybackReportQueue.cpp` that erase reports (coalescing Progress,
dropping what a commit made foreign) keep the others where they are in the line:
`Without(queue, gone)` moves each one that stays to its rank among them.

### 2.3 PlaybackReporter and PlaybackReporting

One action per player signal, call and timer. `generation` is
`m_sessionGeneration`; the zero timers of `queueProgress` are the set of the
generations they captured. `wire` holds what the turn has handed to the port; it
is drained by `PortTakes` before the next turn (`Turn`). A position is abstracted
to the file it was sampled from, which is what the position properties are
about. A re-load resets the position and emits `seekableChanged` and
`tracksChanged`, both inside the turn (`LoadFile`).

`PlaybackReporting` puts a playback together: the page shows what a preparation has
brought, the reporter speaks about it, the coordinator sends what it says, and
`report_playback` compares each report with `active_playback`, which `prepare_playback`
replaces as soon as the worker has a new play session, long before the page hears of it.
It extends `PlaybackCoordinator`, whose variables and actions are used as they are, and
takes the reporter by its promise (`Reporter == INSTANCE PlaybackReportProtocol`, which
`PlaybackReporter` is shown to implement) instead of its timers.

* `shown` is `reportSessionId` of the page while its `mediaUrl` is set; `playback` is
  `active_playback`; `result` what the running preparation has brought and not delivered;
  `taken` what the running report found when it read `active_playback`. `issued`,
  `undisturbed` and `stopped` are history variables. The server gives out a new play
  session for each preparation (`Publish`).
* A call of the view model that makes two calls is two steps with nothing of the event loop
  between them: `StopsFirst` is `stopSession`, `PortTakes` takes its reports one by one,
  `PageSwitches` (or `ServicesShutDown`) calls the port. The other turns need
  `Turn`: no report on the wire and no call half made. The workers' steps `Publish`,
  `PrepareReturns`, `ReportTakenUp`, `ReportReturns` and `Forget` (a logout clears
  `active_playback`) fall anywhere.
* A superset where the page's own conditions are data: `StopsFirst` does not ask for
  `switchingEpisode`, a queue refresh (`PagePrepares` that shows nothing, or
  `PreparationEnds` that leaves `shown` alone) may happen at any time.
* `ReportingIsCoordinated` shows that this is a composition: every behaviour of it is one of
  `PlaybackCoordinator`.

### 2.4 EmbySession

The Rust side of an account change. One control thread runs `login_emby` and
`logout_emby`; workers run the session-bound calls. Each action is one critical
section or one storage step of one thread, in the order of the source; `op.pc`
and `job[t].pc` are the program counters. The monitor's mutex is held from the
look at `active_session` until the task is stored (`LockMonitor`,
`SpawnMonitor`), as in `start_refresh_monitor`. Aborted tasks end in an action of
their own (`MonitorEnds`, `SupervisorEnds`), and a monitor that is still ending
can still deliver a message (`Receive`). `Restart` may happen anywhere and keeps
only the vault and the stored rows. A session is named by its device id, which
`login_emby` draws afresh; the stored row used at start-up is the latest one,
which the code selects by `updated_at`.

A call starts only between operations and while signed in (`Call`): that is what
the fences of `DesktopBackendServices` establish, and `SessionLifecycle` proves
(`FencedWhileAccountChanges`). Calls already in flight run on.

### 2.5 SessionLifecycle

The desktop side of the same change. A turn is a sequence of small steps
(`FenceFeature` one feature at a time, `Launch`, `CommitFeature`, `AbortFeature`,
`Answer`, `EndTurn`), because every step emits signals whose handlers may act
before the next: they may start calls of the features that are open (`Request`)
and ask for another account change (`Ask`). `outer` is the turn a nested request
was called from; one level is enough, since a nested request starts an operation
and a second one is refused while it is under way. An account is named by the
request that installed it, `accountOf` records which account a generation stands
for. The control thread is a single step that succeeds or fails (`Work`);
`EmbySession` has its inside. A feature is its fence, the generation it has
committed, and one call whose worker reads the account at some moment.

### 2.6 MediaCoordinator

The scheduler inside is an instance of `KeyedFifo`, which
`MutationProofs` shows to be what it promises; `takeReady` takes the
heads of a maximal set of items that may run together. Signals of the coordinator
and of the catalog sink are direct calls, so a turn is cut where it emits:
`turn` is the stack of places reached, and at the `Emitting` places a handler may
submit a read or a mutation (a nested turn) or start a session transition. This is
what `stillCurrent`, `m_dispatchingMutations` and `m_settledMutationSequences`
guard against. `posted` holds the zero timers in the order they were started;
`slots` is `m_mutationLanes`, with the place `startMutation` has reached; `settling`
is `m_settlingMutation`.

Abstractions. A request is its sequence number, item, operation and generation;
lane tokens are the number of the newest request of the lane (`latest`, 0 when
invalidated). Catalog overlays are the set of requests that have one (`journal`),
`ids` those whose `optimisticMutationId` is set. Refresh tracking is the set of
items under way, which the server ends at any time. `doubtful` is history: what was
canceled by a fence after it had been sent. Abort, commit and shutdown come from the
event loop. Three things are left out: the branch `no_free_lane`
(`FreeLane`, a part of `RequestsAccountedFor`, says it cannot be taken), the deferral of `finishMutation` while another
result is applied (it needs an event loop inside a signal handler), and an abort
with no connection, which changes nothing.

### 2.7 MediaCatalog and CatalogSync

`MediaCatalog` has the SQLite projection: the cached rows, the tombstones, the
pending changes, the row of `catalog_scope`, and beside it the published posting
index (`base`) with the in-memory snapshot a query reads (`live`: base documents
that are overridden, and a delta). Each operation is one transaction and
publishes its effect to the snapshot as the code does after the commit. Run
numbers are reduced to what is asked of them: "seen by the active run", "changed
after the published generation", "the revision moved since it was read".

`CatalogSync` puts the supervisor on top: the buffer is
drained and stored (`Drain`, `Persist`), then `Decide` takes the first work that is
due: a run a crash left behind, a full traversal, pending ids, membership, the timestamp
delta. Each `await` between two transactions is a boundary between actions. A full
traversal reads stage by stage into rows marked as seen, reads the ids again to verify
(`Verify`), and only then sweeps what was not seen.
Around it: a remote library that changes at any time, a socket that breaks and is
noticed later, notifications in transit, items deleted through the application,
failures of a store or a request, `Stop` and `Crash` with the restart, which after a
crash opens the database and the index again.

Assumed of the server: a deleted id is not given to another item, and a delta asked
from the watermark minus the overlap shows every change since. The second is a real
limit: the watermark after a full pass is its completion time, so a change made in
a gap of the socket longer ago than the overlap of five minutes is not seen by the
delta, only by the next full pass. `Overlap` is therefore at least the number of
changes in the convergence run. `remove_item_and_mark_dirty` and
`mark_notification_gap` are not used by the program and left out.

### 2.8 CatalogCoordinator

The navigation lanes with coalescing and promotion, the library and collection
requests, the activity refresh with its heartbeat and its queued repetition, the
favorites row, zero timers (`todo`), optimistic state changes whose answers meet the
answers of refreshes, session transitions that commit or abort, and a restart from
the presentation cache. The store of entities and rows is shared by all of them,
which is the point: every answer goes through it. `RequestCoordinator` has no module
of its own; its tokens are compared with a generation for equality only, so a request
carries whether its token is still current, and `known` is the set of keys the hash
holds, because `invalidateAll` raises only those.

### 2.9 SearchCoordinator

One call runs and one waits behind it; a generation is again a mark on the request.
The worker's end and the delivery of its result are separate, so a new query can fall
in between. The status poll remembers which query it was asked for; the catalog's
revision moves at any time. Hydration (the delayed request for the images of the rows)
is the second lane, with its timer.

### 2.10 DanmakuCoordinator

A latest-wins search lane, the serialized changes behind a bound
(`maximumPendingMutations`, 32 in the code, 2 in the run), the search that waits for
the changes of its item, posted pumps, and the lane of the credentials. A request is
answered through `Told`, which counts answers without hiding a second one of another
request. A search submitted by the handler of `operationFailed` inside
`fenceSearchForMutation` is dropped by `m_queuedSearch.reset()` after it was told; such
a handler does not exist in the program and is left out.

### 2.11 MediaStore

All calls come on the UI thread and the signals between table, query model and search
model are direct, so a call is one action: the entity changes, the query model tells
which rows changed, the search model updates its gram index and its result. A title is
the set of its grams. What is kept of the index is what the incremental path could get
wrong: postings that may be stale or out of order, and a rebuild that sorts only when
they may be. The journal has one open change per entity, as `m_mutations` has; several
can be committed and rolled back in any order. A sequence that is filtered, removed from
or taken over in order is described by what it holds and that it is in order
(`InOrder`, `Picked`, `Increasing`), which is what the proofs need of it.

### 2.12 RefreshTracking

Requested library scans and metadata refreshes, the answers of the server, the
completions Rust hands over once, to whichever poll asks, and the protection of the
item in `MediaStore` from answers read before the refresh. Clocks are marks: a scan is
`stale`, a refresh `aged`, a release `due` once its time is over, which may happen
at any moment. Which catalog reads a completion schedules is left out.

### 2.13 ImageLoads

One picture of one item from its change on the server to the pixels: the generations
in the cached name, the downloads that `images.rs` deduplicates, the cache files, and
the loads that the responses of `AsyncImageProvider` share while they come and go.
A version stands for the bytes. The twelve download slots and the two attempts are
abstracted to a download that may fail; a cached file may be pruned at any time.

### 2.14 UpdateChecker

The checker's flags, the worker that owns the updater process and hands its lines over
in order, and the updater itself (`release` and `pending` are what it finds and
leaves on disk). The process may die or be timed out after any line; then the checker
asks the release page. A download writes one progress line.

### 2.15 Bootstrap

Two launches of the program on either platform. A launch takes the instance lock,
starts the desktop and lets it inherit a handle, watches for the ready signal, the
exit of the child, the deadline and the user, in the order the loop looks at them, and
hands the lock over, stops the desktop or offers a retry. `looked` is the place between
the look at the ready signal and the look at the exit.

### 2.16 UpscalingAssets

Sets that share files. Verification by a worker, file by file against what is on disk
at that moment; the download queue and the one current task with the lock of its set;
cancelation, which forgets a verification instead of stopping it; retry by a posted
`startNextDownload`. Another process is seen only as a lock that is taken.

### 2.17 Installer

The wizard's pages, `performInstall` on its worker (validate, prepare, install by
Velopack, inspect the shortcut, write or remove it), other programs that register an
installation, fill a directory or replace the shortcut between any two of these
steps, and the loss of the display with its recovery attempts and message box. The two
shortcuts are handled alike one after the other; one is kept, named by whose file is
at its path. Writing and verifying the payload is one outcome.

### 2.18 MpvVideoItem

How a file is opened. An upscaling configuration is a transaction of property writes, one
at a time: first every option goes back to its baseline, then those of the profile are
written; a write that libmpv refuses, at once or in its reply, rolls it back. Meanwhile a
new file is `deferred`, a new configuration `queued`, and the file of the open that began
it is the `target`, which also waits for the render context. Handlers of the GUI
thread call each other in a turn; they are operators from a record of the item's fields to
the set of records the turn may end with. `props` is what libmpv has applied. What the
properties do not ask of libmpv (tracks, volume, subtitles, drawing) is left out.

### 2.19 PlaybackStall

The watchdog and the completion gate, driven by the handlers of `MpvVideoItem.cpp`. What
libmpv reports waits in an `inbox`, in order, while the user opens, stops, seeks and pauses;
that is how a report can be about what was replaced. Time without progress has three
levels, below and above the two thresholds (`Fresh`, `Silent`, `Hopeless`); the
clock may move a level between any two steps, and a sleep of the machine
is the gap that begins a new grace period.

### 2.20 ImageEditor

The images of one item, a card each, edited optimistically: a card changes at once, a
failure brings back its former image, a success is confirmed by another load. The
coordinator below is taken at its promise (order per item, one lane of loads, a mutation
fences older loads), which `MediaCoordinator` has in detail; what it tells the editor from
inside one of the editor's calls is `posted`. `unsure` is history: cards whose server
state the editor cannot know, because the answer of a mutation that was applied is lost or
because one was refused.

### 2.21 ControllerInput

Gamepads between two polls and at a poll: what users hold, what the source has found, the
neutral gate that keeps a control from acting until the pad was once at rest, and the input
test of the settings, which captures what it hears until the release. `old` is history: what
was held before the application came to the front or the device was found.

### 2.22 Components that share a run

`MCApplication` puts SessionLifecycle, MpvVideoItem and PlaybackStall in one run,
`MCDesktop` SearchCoordinator, DanmakuCoordinator, MediaStore, RefreshTracking, ImageEditor
and ControllerInput, `MCDelivery` the five modules of sections 2.13-2.17, `MCSession` EmbySession and
PlaybackReporting. These components share no state with each other. A behaviour picks one at the start
(`part`, `service`) and takes only its steps, so what is explored is the sum of the state
spaces, not the product. A component that was not picked keeps one fixed initial state
in which its fair actions are disabled, so its fairness asks for nothing; where that is
not so (the player waits for its renderer from the start) the fairness is stated for the
behaviours of that component. `MCMutations` (MediaCoordinator and its scheduler) has a run
for each of its two components, and `MCSession` a second one for CatalogCoordinator. Each property is defined in the component's module and named again in the MC
module; properties that are checked together are joined there, with the parts named. What a
component assumes of its constants is an operator of its module which the MC module
assumes, so that TLC evaluates it.

## 3. What the runs check

All runs finish within the limits of an ordinary machine (the largest in about two
minutes). `CHECK_DEADLOCK FALSE` is set where every call is optional, or the
bounds or a shutdown leave nothing more to do; the scheduler is checked for
deadlock.

| Run | Instance | Shows |
|---|---|---|
| `scheduler` | 3 keys, 2 slots, optimistic requests exclude each other; queue of 2 for one key, 1 for the others | implements `KeyedFifo` (`ImplementsFifo`); `EveryKeyServed` |
| `playback` | 3 preparation calls, 2 report sessions, 1 committed transition, report queue of 2 | `AnsweredOnce`, `NeverStartsSuperseded`, `TerminalReportsKeepOrder`, `NewestAnswered` |
| `playback_blocked` | 2 calls, 1 report session | finding 1 (`SwitchNotBlocked`) |
| `reporter` | 2 sessions, 3 files, 6 generations | implements `PlaybackReportProtocol` (`FollowsProtocol`); `SessionStarts` |
| `session` | account: 2 devices, 2 workers, 1 restart, workers are symmetric; reports: 3 preparation calls, 2 play sessions, 1 committed transition, report queue of 3 | `LogoutSilencesMonitor`, `SessionSurvivesRestart`; `StoppedFindsPlayback` |
| `application` | account: 3 features, 3 requests; player: 2 files, 2 profiles, 2 options, 3 events; watch: 5 events, 2 reports under way | `OpenFeatureIsCurrent`, `ResultIsOfItsAccount`, `RequestIsAnswered`; `OptionsAreWhole`, `NewestOpenWins`; `StallIsShown`; `PlayerSettles` |
| `media` | 2 items, 2 lanes, 3 requests out of metadata reads, a metadata refresh and played state; 2 pending; 1 committed transition; handlers nested 2 deep; 2 timers left when a transition starts | `RequestsAccountedFor`, `DoubtIsReconciled`, `WaitersAreServed` |
| `catalog` | a series and its episode, 2 contents, 2 stages, threshold 2, overlap 2; 2 changes of the library, 1 fault | `SearchFollowsRows`, `SweepDeletesOnlyGone`, `CatalogConverges` |
| `catalog_tombstones` | both items there at the start; 1 change, 1 fault | finding 2 (`RemovalsSurviveReopen`) |
| `navigation` | 1 item, 1 collection, 2 accounts, the activity row; 2 events | `ShownIsOfSession`, `CatalogSettles` |
| `desktop` | search: 2 queries and the blank one, 4 events; danmaku: 2 items, 3 requests, 1 transition, 2 pending; store: 2 entities, 2 grams, 3 titles, 4 events; tracking: 2 items, 4 events; editor: 2 items, 2 cards, 3 edits; input: 2 devices, 2 controls, 8 events | `PublishedIsAsked`; `SearchesAvoidChanges`; `ServerAnswersStand`, `ResultsMatchFilter`; `TrackingIsExact`; `ShownIsServers`; `PressesAreMeant`; `ServicesSettle` |
| `delivery` | images: 2 responses, 1 change; updates: 4 clicks; bootstrap: 2 launches, 3 choices; assets: 2 sets sharing a file, 4 events; installer: 2 directories, 4 events | `ResponsesAreServed`; `ReadyIsPending`; `OneDesktop`; `ReadyIsInstalled`; `ForeignShortcutKept`; `DeliveryEnds` |

Liveness properties that are checked together have one name in the MC module:
`WaitersAreServed` is `MutationIsAnswered` and `ReadIsServed`; `CatalogSettles` is
`ActivityConverges` and `NavigationSettles`; `PlayerSettles` is `OpensEnd` and
`SilenceIsReported`; `ServicesSettle` is `SearchConverges`, `DanmakuAnswered`,
`ProtectionEnds` and `CardsSettle`; `DeliveryEnds` is `ResponsesEnd`, `UpdateSettles`,
`LaunchesEnd` and `AssetsSettle`.

What the properties say, those of the player and of its reports first, then from `catalog`
on:

* `StoppedFindsPlayback`: when a Stopped report is taken up at the backend, the playback it
  is about is still the active one, so it reaches the server; provided the session was
  shown and since then playbacks were replaced only by switches. It is what the
  deferred switch is for, and takes all four parts: the reporter must stop before the
  switch, the switch must find its report in line, the newest one and the one being sent
  included, and nothing else may enter the lane.
* `OptionsAreWhole`: the profile shown as active is applied in full, and options the item
  does not remember having touched have their baseline; libmpv never runs with a mixture
  that is taken for a whole. `NewestOpenWins`: what libmpv was told last is what the user
  asked for last, unless that open still waits. `OpensEnd`: a file that was asked for is
  loaded or no longer wanted.
* `StallIsShown`: while a file plays, a stall is shown exactly when the watchdog is in
  one, and a timeout that was reported is one that progress will end.
  `SilenceIsReported`: a file that is watched moves, pauses, ends or is reported.

* `SearchFollowsRows`: a query matches every committed row by its current terms and,
  until a restart, nothing else, at every moment of a traversal, a failed one too.
  `SweepDeletesOnlyGone`: the sweep of a full traversal deletes a row only if its item
  was missing on the server at some moment of that traversal. `CatalogConverges`: once
  the library and the faults are quiet, the rows are the library's items, except rows
  whose series is gone (section 6).
* `ShownIsOfSession`: what is shown was read from the committed account.
  `ActivityConverges`: in the end Continue Watching is what the server would list,
  whatever order invalidations, answers and optimistic changes came in.
  `NavigationSettles`: a collection that is asked for is shown, or its error is, unless
  another is asked for or a transition begins.
* `PublishedIsAsked`: rows that appear answer the query asked last, of the committed
  account, and are never older than those they replace for the same query.
  `SearchConverges`: in the end the rows are the catalog's answer to the last query.
* `SearchesAvoidChanges`: a danmaku search completes only when no change of its item is
  under way. `DanmakuAnswered`: every request is answered exactly once.
* `ServerAnswersStand`: taking optimistic changes back never returns a row that a later
  answer left out. `ResultsMatchFilter`: the result of the incremental index is the
  filter of the rows, each once and in order.
* `ProtectionEnds`: the protection of a refreshed item is lifted, whatever is lost.
  `TrackingIsExact`: until then it is protected exactly while its refresh is tracked or a
  release waits, never both, so no release of an earlier refresh ends it too soon.
* `ShownIsServers`: a ready image editor shows the server's image on every card that no
  mutation is changing and none has left in doubt. `CardsSettle`: no card stays marked.
* `PressesAreMeant`: a control held since before the application came to the front, or
  its device was found, does not act before it is let go of (`HeldOverNeverActs`); what the
  input test captured is pressed, so no later press is swallowed (`CapturedIsPressed`).
* `ResponsesAreServed`: a response is never given the empty result of a load that was
  given up for somebody else, nor bytes older than the change its name was given for.
* `ReadyIsPending`: what is offered to be applied was downloaded to its end.
  `OneDesktop`: two desktops never run at once, and "success" had a first frame.
  `ReadyIsInstalled`: a set called ready has all its files. `ForeignShortcutKept`: a file
  put in place of the shortcut after the inspection is never taken away.

### Why the bounds are enough

* `scheduler`: with three keys and two slots a third key is ready and refused
  both for want of a slot and for incompatibility while the list rotates; a queue
  of two behind an active key exercises relisting and partial cancelation.
* `playback`: three calls are one running, one queued and one deferred or inside
  a timer, the most the component can hold; two report sessions let a Progress of
  one be coalesced around the Started of another; one transition has calls before,
  in and after it. Queue bounds are guards, so full queues are reached.
* `reporter`: a generation is spent by every begin, stop and abandon; six allow
  two whole sessions replaced by each other with timers of a former one pending.
* `session`: two devices are an old and a new account; two workers hold two calls
  at different steps; the restart can fall between any two storage steps. Of the reports,
  three calls show a playback, switch from it and switch again; two play
  sessions are the one that ends and the one that would replace it (three pass too, with
  9.6 million states). A reporter says at most two reports in a turn, so a queue of three has
  one of them wait behind another; it speaks only when both fit (`Room`), so that the
  bound never drops a Stopped report.
* `application`: three features are a first, a middle and a last one, so a handler
  runs with some open and some fenced; three requests are one done, one under way
  and one nested. Three events of the player are an open, one that is deferred behind its
  transaction and one more that replaces it; of two profiles the lower writes fewer
  options, so a mixture is possible. Five events of the watch are a load, a stall, a seek
  or pause, a recovery and a replacement, with two reports under way.
* `media`: three requests are one running, one behind it and one submitted by a
  handler; two items let two mutations run together or exclude each other (both
  optimistic), and a read of one item overtake a held read of the other. The
  committed transition falls before, in or after each; aborted ones are not
  bounded in number, but one starts only while at most two timers are left
  (`MaxPosted`), since each abort starts two more.

* `catalog`: a change during the traversal, one in a socket gap, and one fault at any
  step of either; a series with an episode is what the type stages and the removal of a
  subtree need; with one fault, threshold 2 is the retry of a failed incremental step; the run with
  threshold 1, where the failure makes the projection dirty, passes too (1.6 million
  states).
* `navigation`: two events are a request superseded by another, a state change beside a
  refresh, or a transition beside either; two accounts tell stale answers apart.
* `desktop`: the limit of the danmaku queue is reached by three requests; a store
  row can be removed, answered again and rolled back within four calls. Three edits are
  two of one card and one of another, or one across a change of the item; eight events of
  the input plug in two pads, hold a control of each and change focus or test twice.
* `delivery`: two launches are a first and a second instance, three choices a
  cancelation, a retry and a timeout; four clicks are a check, a download, its
  cancelation and another download.

The theorems of section 5 remove these bounds for every safety property of the runs.

### Fairness

* `scheduler`: a call returns (`WF` on its loop steps). `Complete` and
  `TakeReady` are `SF`: the owner completes what runs, and calls `takeReady`
  after every enqueue and completion, but other calls may come in between.
  `EveryKeyServed` is only for requests compatible with all others: keys whose
  requests exclude one another can starve a third by taking turns, and the code
  promises nothing else.
* `playback`: workers return (the bridge has time-outs and cancels), the event
  loop delivers `finished` events and zero timers, a transition that began ends.
  No user call is fair.
* `reporter`: the port is called inside the turn (`WF PortTakes`); a timer that has
  run out is served between other turns (`SF`, because a stop and a new start of
  the session may disable and re-arm it).
* `application`: a turn runs to its end, the control thread returns, its
  `finished` is delivered. libmpv answers every write it accepted, the scene graph renders
  again after an update was requested, and the posted load runs. Time passes, the timer
  fires and reports that arrived are taken; that libmpv loads a file or moves is not
  fair, which is what the watchdog is for.
* `media`: a turn runs to its end, timers are served, the bridge answers every call.
  Handlers, transitions and the end of refreshes are not fair. `ReadIsServed`
  excepts reads of an item under a tracked refresh; section 6 says why.
* `catalog`: the supervisor takes its next step, an eviction goes on, the monitor connects
  or notices a broken socket, and routes what arrived (`WF` each). Neither changes of
  the library nor faults are fair, and both are finite in number.
* `navigation`: one `WF` on whatever is due: a posted call, the heartbeat, the backend
  serving or answering a request, the end of a transition. The heartbeat is due only when
  nothing else is, so it cannot starve an answer.
* `desktop`: the search's worker, delivery and timers (`WF`), and apart from them the
  hydration; the danmaku workers, deliveries and pumps; the fallback timer of the
  refreshes, the passing of its limits, and the end of a transition. Messages of the
  server are not fair: `ProtectionEnds` holds although all of them may be lost. Each call of
  the image editor returns, its posted failures are heard, and a held load is pumped.
* `delivery`: the page polls its loads and they finish; the updater exits or is timed out
  and its lines are read; the launcher's loop runs and the desktop comes to its second
  frame or is stopped; a verification, a download and a retry go on. `AssetsSettle` is a
  leads-to because the user may select and cancel for ever.
* `session`, `MediaStore`, `ControllerInput` and `Installer` are checked for safety only. No call of a
  user is fair anywhere.

## 4. Findings

Each is a violation run with a short counterexample; the quoted lines are in
`PROJECT.json`.

1. `playback_blocked`: `switchTo` waits for the newest Stopped report whatever
   session it belongs to, but only a report of the current session releases the
   wait (`PlaybackCoordinator.cpp:226-231` against `755-768`). A Stopped report
   in flight across a committed transition strands a switch made after it.
2. `catalog_tombstones`: `complete_sync` deletes all tombstones (`media_catalog.rs:1321`)
   also when it found that no new index is needed. An item removed incrementally since
   the last publication is then neither in the rows nor masked, and after the next
   start the old base finds it again, although the tombstones are meant to mask it until
   a full publication has folded the removal in (`media_catalog.rs:690-692`).

## 5. What is proved

Every safety property of the passing runs, invariant or action property, is a theorem: the
run shows it on a small instance, the proof for all values of the constants. TLAPS checks
every leaf, and the assumptions are those of the modules: `SchedulerAssumption` (as
`LinesAssumption`), `MediaAssumption`, `PlaybackAssumption`, `ReporterAssumption`,
`NoneAssumption`, `ControlAssumption`, `RestartsAssumption`, `ThreadAssumption`,
`FeaturesAssumption`, `RequestsAssumption`, `SyncAssumption`, `NavigationAssumption`,
`PartsAssumption`, `ReportsAssumption` and the two `ServicesAssumption`. They say that bounds are naturals, that
the empty value is not an element, that the stages of a traversal cover the items, that
the baseline names every option. TLC evaluates each on every run of its module.

| Theorem | Says |
|---|---|
| `MutationProofs`: `TypeCorrect`, `ReadyListCorrect`, `ActiveSetCorrect`, `TakeReadyCorrect` | the ready list is exact between calls, the active set legal, and nothing startable is left; for any keys, requests, slots, compatibility |
| `SchedulerImplementsFifo` | the safety refinement of `KeyedFifo` (`ImplementsFifo`) |
| `MediaAccountsForRequests`, `MediaReconcilesDoubt` | `RequestsAccountedFor`, `DoubtIsReconciled`; any menu, lanes, requests, transitions and depth of handlers |
| `PlaybackCoordinatorProofs`: `TypeCorrect`, `CallsAnsweredOnce`, `NewestCallKept`, `ResultsMatchRequests`, `FenceIsTight`, `SupersededNeverStarts`, `TerminalReportsStayInOrder` | `AnsweredOnce`, `NewestNeverLost`, `ResultIsOfActive`, `NothingCrossesFence`, `NeverStartsSuperseded`, `TerminalReportsKeepOrder`; any number of calls, report sessions, transitions, any length of the report queue |
| `StoppedReportsArrive`, `ReportingIsCoordinated`, `ReportingTypes`; `SessionProofs`: `StoppedAlwaysArrives` | `StoppedFindsPlayback`; the composition implements `PlaybackCoordinator`; any calls, play sessions, reports, transitions |
| `PlaybackReporterProofs`: `TypeCorrect`, `TimersServe`, `QueuedTurnIsScheduled`, `ReporterFollowsProtocol` | `TimersServeTheSession`, `QueuedIsScheduled`, `FollowsProtocol`; any sessions, files, generations |
| `SessionProofs`: `TypeCorrect`, `LogoutSilences`, `RestartKeepsSession`, `CallerAgrees` | `LogoutSilencesMonitor`, `SessionSurvivesRestart`, `CallerKnowsSession`; any threads, devices, restarts |
| `ShownStaysOfSession` | `ShownIsOfSession`; any items, collections, accounts |
| `ApplicationProofs`: `TypeCorrect`, `Fenced`, `OpenIsCurrent`, `ResultsAreOfTheirAccount` | `FencedWhileAccountChanges`, `OpenFeatureIsCurrent`, `ResultIsOfItsAccount`; any number of features and requests |
| `OptionsAlwaysWhole`, `NewestOpenAlwaysWins` | `OptionsAreWhole`, `NewestOpenWins`; any files, profiles, options and orders of writes |
| `StallAlwaysShown` | `StallIsShown`; any number of events and of reports under way |
| `CatalogSyncProofs`: `SearchAlwaysFollowsRows`, `SweepIsSound` | `SearchFollowsRows`, `SweepDeletesOnlyGone`; any items, contents, stages, changes and faults |
| `DeliveryProofs`: `OneDesktopAlways`, `ReadyAlwaysInstalled`, `ReadyAlwaysPending`, `ForeignShortcutAlwaysKept`, `ResponsesAlwaysServed` | `OneDesktop`, `ReadyIsInstalled`, `ReadyIsPending`, `ForeignShortcutKept`, `ResponsesAreServed`; any launches, sets, files, clicks, directories, responses |
| `DesktopProofs`: `RowsAreAsked`, `SearchesAlwaysAvoidChanges`, `AnswersAlwaysStand`, `ResultsAlwaysMatch` | `PublishedIsAsked`, `SearchesAvoidChanges`, `ServerAnswersStand`, `ResultsMatchFilter`; any queries, media, entities, titles, grams |
| `TrackingAlwaysExact` | `TrackingIsExact`; any items, requests, messages and transitions |
| `ShownIsAlwaysServers`, `PressesAlwaysMeant` | `ShownIsServers`, `PressesAreMeant`; any items, cards, devices, controls |

Where components share a run (section 2.22), the theorem is about the specification of the
run, a step of another component leaving the invariant's variables as they are, or, in
`MCSession`, about that of the component. `StoppedAlwaysArrives` applies
`StoppedReportsArrive` to the variables of `MCSession`.

The inductive invariants, and why they are needed:

* **KeyedMutationScheduler** (`SchedulerInv`): `ReadyListExact` holds only between calls.
  Inside `takeReady` the list plus what was looked at must stay exact (`ScanInv`: the keys
  scanned and put back cannot start any more, because the active set only grows,
  which is what gives `TakeReadyLeavesNothing`); inside `takeQueuedIf` the list is
  split in `ready`, the cursor and `kept` (`ReadyInv`, `PhaseInv`). `SlotInv` counts slots.
* **MediaCoordinator** (`MediaInv`): `Accounts` says that the outcome of a request is 1
  exactly if it was called and is not open any more, open being queued, about to start, or
  in flight and not told; it is the form of "answered once" that every
  step keeps. A turn that handlers interrupt leaves requests half way, so `Nested`
  says which places the turn can be at together, and `Agreed` that what is half way
  (starting, refused, opening, settling) is so exactly because the turn is at the place
  that does it; without them a nested dispatch could start a request twice. `Places`
  gives each running request one place, `Overlays` the journal its one overlay, `Room` a
  free lane to each request taken. `Fence` and `Doubts` carry the requests over a
  transition: what is doubtful is still in flight and speculative, or its completion
  is noted, which is what `DoubtIsReconciled` needs of `fenced /\ completedSpeculative`.
  `ReadsInv` is the same for the read lanes.
* **PlaybackCoordinator** (`IInv`): `Settlement` joins `AnsweredOnce` and
  `NewestNeverLost` with what makes them inductive: whatever is held is unanswered
  (`HeldUnanswered`), calls to come are (`FutureUnanswered`), and no call is held
  in two places (`OnePlace`). `LaneIsNewest` says that what the lane holds is not
  older than anything else unanswered, which gives `NeverStartsSuperseded`;
  `FenceStaysClosed` that a shutdown never opens the fence again. For the order of the
  reports, `LaneInv` says that what waits is of the session that goes on, so a commit
  erases all or nothing; that erasing keeps an order comes from its definition by ranks
  (`WithoutKeepsOrder`: a kept report has a rank, two of them in the same order, and each
  place up to their number is the rank of one), which replaces an induction over the queue.
* **PlaybackReporting** (`ReportingInv`): the invariants of the coordinator and `LinkInv`.
  A session is `Live` if it is shown, reported on or has a Stopped report on the wire or in
  line that was not taken up; `LiveInv` says that the backend then plays it, that the lane
  is empty with no worker in it, and that a switch which waits, waits for its report
  (`Guarded`). That needs the report to be the last Stopped one in line (`NewestIs`), which is
  what `LatestStopped` looks for; `TurnInv`, that while a switch waits nothing is shown or
  said; and `NameInv`, that what a job has prepared was never shown or reported before, so
  the session that comes to life when a result is delivered is the one the backend plays.
  `LaneIsNewest` of the coordinator gives the step where a result is shown: a switch that
  waited would be newer than the result, which the view model would then not take.
* **PlaybackReporter** (`IInv`): the checked invariants plus `OpenSession` (a session
  is named exactly while one is open, and only an open one is started), without
  which a Stopped report could name no session and the step would not map to
  `PlaybackReportProtocol`.
* **EmbySession**: `AccountInv` states, for each program counter of the operation
  (`LoginShape`, `LogoutShape`), which of the stored row, the vault and the active
  session have been changed. `SilenceInv` says that whoever passed the session check
  holds the monitor's lock (`LockHeld`) and has a client (`HasClient`), and that once
  the session is cleared what is left of monitor, ending task and progress is gone as
  soon as the logout has passed the step that removes it (`Silent`).
* **CatalogCoordinator** (`CatalogInv`): the backend is in the committed account unless a
  transition is under way (`Home`); the entities are of that account (`OwnEntities`), and
  so is every answer to a request that has kept its session (`NavigationMine`,
  `ReadsMine`), so an answer of another account is one that is no longer accepted.
* **SessionLifecycle** (`IInv`): `TurnInv` (which stages can call which), `ControlInv`
  (the control thread works for the operation under way), `CountInv`, `FenceInv`
  (how far a fence, a commit or an abort has come) and `AccountInv` (what the
  account is while the thread has finished and the turn has not).
* **MpvVideoItem** (`PlayerInv`): `Whole` states for each place of a transaction what
  libmpv has: the options whose baseline was written, and those of the profile that
  follow it. It needs that one write is in flight exactly while a transaction is pending,
  so the check that a reply is that of the newest write never rejects anything.
  `Wanted` says where the newest open is. Within a turn both hold of the record as it is
  passed on (`Writing`, `Resting`).
* **PlaybackStall** (`StallInv`): `Watched` adds to `StallIsShown` that a file which plays
  has a watchdog that is not inactive, so that no call of the watchdog returns early
  there; the proof is about each handler, over a record of the item's fields.
* **CatalogSync** (`IInv`): `TypeInv`, and `GotInv` for the content a step has fetched and
  not yet stored. `FollowInv` is about the snapshot: rows marked as changed exist
  (`RowsOK`), the published index has the current terms of every row that is not marked
  (`BaseFollows`), and no row is tombstoned (`TombsGone`); without the last two a reopened
  snapshot could miss a row, so `SearchFollowsRows` would not survive a restart. `FullInv` is
  about a traversal: it owns the active run, `sup.gone` has every item missing on the
  server, and what the verified stages left unseen is among them, which makes the
  sweep sound.
* **Bootstrap** (`BootInv`): `BootLock` says that whoever works or runs has a handle of the lock
  and that all handles belong to one launch, which leaves room for one desktop; `BootShown`
  and `BootStarted` say that a launcher lets the splash fade only after the signal, that
  "success" ends it, and that it watches only a desktop it has started.
* **UpscalingAssets** (`AssetInv`): `AssetRead` says that a file a verification has found good
  is still good when the result arrives (a good file is only ever replaced by a good one), so
  what is called ready then is installed.
* **UpdateChecker** (`UpdateInv`): a line "pending" or "ready" is under way only when a
  release waits on disk, and what waits stays, so a "ready" that is heard late is still
  true.
* **Installer** (`InstallInv`): at the shortcut step, if nobody has replaced the shortcut since
  the inspection, what was seen is what is there.
* **ImageLoads** (`ImageInv`): the generation counts the changes that were done (`NameInv`),
  and only names that were given are downloaded, so the bytes found or cached under a name
  are never older than it (`ByteInv`); a load counts exactly the responses that hold it
  (`CountInv`, `ShareInv`), so one that was given up has none left (`ResultInv`).
* **SearchCoordinator** (`SearchInv`): what runs or waits was asked last or is no longer wanted
  (`WantsAsked`); the rows are of the committed account and not ahead of its catalog
  (`RowsFit`), and an answer still wanted is so too and at least as new as the rows
  (`AnswerFits`).
* **DanmakuCoordinator** (`DanmakuInv`): `LanesFit` ties the lanes to the requests, and
  `SearchIsAlone` says that a search that may still complete has no change of its item
  beside it, running or queued.
* **MediaStore** (`StoreInv`): `RowsStand` says that the rows are within the last answer, in
  its order, and still would be with a removal that can be taken back put in again;
  `IndexHolds` that every row is in the postings of its grams, which may hold others, and
  that a list not known to be unsorted is increasing.
* **RefreshTracking** (`TrackingInv`): a completion is kept as a recent one only when nobody
  tracks its item (`MarksFit`), so an answer that finds it starts a release and leaves no
  refresh tracked beside it; behind the fence no timer runs (`TrackingShape`).
* **ImageEditor** (`EditorInv`): a load that is wanted runs only while its item has no
  mutations (`LoadsWait`), identities differ (`IdentitiesDiffer`), and once the images were
  loaded a card that a mutation changes keeps what the server has for a failure
  (`ShowsFit`).
* **ControllerInput** (`InputInv`): `GateHolds` says that a device that acts holds nothing it
  held before it was found or the application came to the front.

A theorem about a property that no run lists (the `TypeCorrect` ones,
`ReadyListExact`, `ActiveSetLegal`, `TakeReadyLeavesNothing`, `NewestNeverLost`,
`NothingCrossesFence`, `ResultIsOfActive`, `TimersServeTheSession`, `QueuedIsScheduled`,
`CallerKnowsSession`, `FencedWhileAccountChanges`, `ReportingTypeOK`) needs no run: the proof covers the small instances too.

Only model-checked: all liveness, since fairness and ENABLED are beyond the prover; the
refutations. Where a
proof needs an induction over a sequence it is made by a least counterexample
(`NatLessThanWellFounded`, `WFMin`), since the induction theorems of the library are out of
the provers' reach.

## 6. What is not modelled, and known limits

Components with status `not_modelled` in `PROJECT.json`: the posting index, the timeline and
drawing of danmaku, the bridge's threads, the HTTP clients, the SQLite session repository
and the vault, and packaging. They are drawing, I/O, sequential algorithms with tests
of their own, or data that the models above take as inputs. Status `partly` means that the
control named in the note is modelled and the rest is of that kind: of `MpvVideoItem` the
tracks, subtitles and drawing are left out, of the input the remote keys and their
correlation with raw input, of the view models those that only pass data on, of QML all but the player page's calls.

The following definitions are stated in the modules and do not hold. No run lists them;
they name a behaviour the code has, with the place where it comes from.

* `StartedNotFromEarlierFile` (`PlaybackReporter`): a seek while no session is open stays
  in `m_pendingPosition` (`PlaybackReporter.cpp:75`) and becomes the Started position of the
  next file.
* `MonitorIsOfActiveSession` (`EmbySession`): `login_emby` stops the old monitor before it
  replaces the active session (`session.rs:306`, `311`), so a call in flight can start
  the old one again, and the new account gets no notifications.
* `SupervisorIsOfActiveSession` (`EmbySession`): `ensure_media_catalog_sync_for` checks its
  session before it takes the task registry and not again (`catalog_search.rs:262-264`).
* `ReportStaysWithItsSession` (`EmbySession`): `report_playback` reads the playback and then
  whatever client is active (`playback.rs:708-723`).
* `NoOrphanRows` (`CatalogSync`): an episode fetched by a step that began before its series
  was removed is stored after the removal, and nothing asks for it again before the next
  full or membership pass.
* `SettledStateStays` (`CatalogCoordinator`): after a state change is settled, the answer of a
  navigation request that was read before the change can put the old state back into an
  entity until the next refresh.

Seen while modelling, and not covered by a property:

* Playback: `PlaybackReporting` has the reporter's promise, not its timers, and no
  liveness; that a reopened page sends a direct `prepare` only after it was closed is not
  used. A direct `prepare` does not wait for the Stopped report of
  the item before, which `report_playback` may then refuse as stale (the reason for
  `undisturbed`); a login that fails has abandoned the open report session, which is
  never stopped on the server; after an abort a session begun behind the fence sends
  Progress without a Started that arrived; a superseded queued preparation may be dropped
  without `failed`.
* Session: a failed `logout_emby` has already cancelled the background tasks. The stored
  row is taken to be the last one written; two logins in the same second, or with the
  clock set back, are not distinguished.
* `MediaCoordinator`: a refresh that is refused because one of its item is going on
  completes its item and schedules `dispatchMutations`, but not
  `pumpInteractiveReads` (`MediaCoordinatorMutations.cpp:122-139`). A metadata read
  submitted by the handler of that refusal, or queued behind a second refused
  refresh, is held until something else pumps. Without its exception
  `ReadIsServed` fails on this. Such a refresh has also told the reads it
  conflicts with that they were superseded before it was refused itself. An idle lane may
  start a new read while an older one of the lane is still held; the older one is told at
  the next pump.
* `CatalogCoordinator`: an aborted transition drops queued and running navigation requests
  and nobody asks again (`CatalogCoordinatorNavigation.cpp:106`); `beginActivityRefresh`
  asserts that its watcher is not running, which a refresh between the worker's end and
  the delivery of its event can contradict.
* `MediaStore`: two optimistic removals in one query, of which the earlier is rolled back,
  do not bring its row back; `clearRows` returns early for an empty query, so its
  stale mark and fetch time stay those of the previous account (marks are abstracted);
  `MediaQueryProxyModel` is not modelled.
* `RefreshTracking`: a poll that replaces one whose `finished` event is still queued loses
  the completions that one took out of Rust; the fallback timer and the two-minute limit
  make up for them.
* `UpdateChecker`: after a "ready" line and a crash the network fallback leaves the ready
  flag set while `updateAvailable` may be false; an updater that handed off and then exits
  badly shows an error while the program quits. A version is taken to be well-formed.
* `ImageLoads`: generations live in memory only, so after a restart the name of a changed
  picture is its first one again, and a file cached under it may be shown.
* `UpscalingAssets`: canceling a set that is ready makes the page show it as missing; files
  changed from outside between a verification and the use are not modelled.
* `Installer`: a `PostMessageW` that fails would leave the window "installing" for ever; the
  silent installation, which runs the same steps without a window, is not modelled.
* `MpvVideoItem`: a configuration that begins while the load waits for the render context
  lets that load go out in the middle of its transaction; the options it starts with are
  then replaced while it plays, which is harmless.
* `PlaybackStall`: END_FILE does not say which load it is about, so a late one of the file that
  was replaced resets the watch over the new open (`MpvVideoItem.cpp:1722`).
* `ImageEditor`: the fence of a newer mutation fails the load that was to confirm an earlier
  one, whose card is then marked as an error although the mutation is done
  (`ImageEditorViewModel.cpp:703-714`); the rollback of a refused mutation may bring back an
  image older than a load answered in between, which is why `unsure` has refused cards.
  Cards are independent here; Emby moves the indices of backdrops when one is deleted.
* `ControllerInput`: a repeat or the release of a press that the application heard is captured
  when a test began meanwhile (`InputModalityController.cpp:741-768`), and the captured
  remote keys, which are not modelled, are not cleared when the application is deactivated
  (`810-872`).
* Failures of SQLite or the vault are failures of whole steps; each write is atomic.

## 7. Plan

Done, in this order: `KeyedMutationScheduler`, `PlaybackCoordinator`, `PlaybackReporter`,
`EmbySession`, `SessionLifecycle`, each with theorems; `MediaCoordinator`; the catalog,
`MediaCatalog` with `CatalogSync` and its theorems, and `CatalogCoordinator`, which has the
tokens of `RequestCoordinator` in it; `SearchCoordinator`, `DanmakuCoordinator`,
`MediaStore`, `RefreshTracking`; `ImageLoads`, `UpdateChecker`, `Bootstrap`,
`UpscalingAssets` and `Installer`; `MpvVideoItem`, `PlaybackStall`, `ImageEditor` and
`ControllerInput`; then the theorems of all safety properties that were only
model-checked; then `PlaybackReporting`, the composition of page, reporter, coordinator and
backend, with its theorems.

Left:

1. the composition of `SessionLifecycle` with `EmbySession` in place of its `Work` step;
2. the posting index as operators checked against a scan.
