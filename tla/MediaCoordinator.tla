--------------------------- MODULE MediaCoordinator ---------------------------
(***************************************************************************)
(* native/MediaCoordinator*.cpp: media mutations, two at a time over the     *)
(* keyed scheduler, the latest-wins reads that wait for them, and the fence  *)
(* of a session transition.  The scheduler is taken at its promise           *)
(* (KeyedFifo).                                                              *)
(*                                                                          *)
(* Signals are direct calls: a handler that runs while the coordinator emits *)
(* may submit again or start a transition.  A turn of the UI thread is cut   *)
(* at the places where it emits; turn lists the places reached.             *)
(***************************************************************************)
EXTENDS Naturals, Sequences, FiniteSets, SequencesExt

CONSTANTS Items,          \* item identifiers
          Menu,           \* pairs of item and operation callers may submit
          SlotCount,      \* m_mutationLanes and the scheduler's active keys
          MaxPending,     \* maximumPendingMutations
          MaxRequests,    \* bound on submissions
          MaxGeneration,  \* bound on committed transitions
          MaxDepth,       \* bound on turns nested in handlers
          MaxPosted,      \* bound on timers left when a transition starts
          None            \* no request

ReadOps == {"LoadMetadata", "LoadPlaylistTargets", "LoadImages",
            "LoadImageProviders", "SearchImages"}
ImageMutations == {"ApplyRemoteImage", "UploadImage", "RemoveImage"}
Optimistic == {"SetPlayed", "SetFavorite"}
\* RefreshMetadata, without and with replaceImages, and ScanLibraryFiles.
Refreshes == {"RefreshMetadata", "RefreshReplacingImages", "ScanLibraryFiles"}
MutationOps == Optimistic \cup Refreshes \cup ImageMutations
                 \cup {"UpdateMetadata", "AddToPlaylist", "RemoveFromPlaylist",
                       "DeleteItem"}
Requests == [seq : 1..MaxRequests, item : Items, op : ReadOps \cup MutationOps,
             generation : 0..MaxGeneration]
Slots == 1..SlotCount
Lanes == {p[2] : p \in Menu} \cap ReadOps

ASSUME MediaAssumption ==
  /\ Menu \subseteq Items \X (ReadOps \cup MutationOps)
  /\ SlotCount \in Nat \ {0} /\ MaxPending \in Nat
  /\ MaxRequests \in Nat /\ MaxGeneration \in Nat
  /\ MaxDepth \in Nat /\ MaxPosted \in Nat
  /\ None \notin Requests \cup [request : Requests, ok : BOOLEAN]

VARIABLES
  session,      \* what m_sessionStateProvider returns
  fenced,       \* m_sessionFenced
  shuttingDown, \* m_shuttingDown
  called,       \* m_nextSubmissionSequence
  outcome,      \* number of terminal signals per request
  turn,         \* places the running turn and those it is nested in reached
  posted,       \* zero timers, in the order they were started
  waiting,      \* m_mutations: queued requests per item
  running,      \* m_mutations: active request per item
  starting,     \* dispatchMutations: taken requests not in a lane yet
  slots,        \* m_mutationLanes: active, and how far its start has come
  settling,     \* m_settlingMutation, with the outcome of its call
  ids,          \* requests with an optimisticMutationId
  journal,      \* overlays begun in the catalog and not yet ended
  settled,      \* m_settledMutationSequences
  speculative,  \* m_speculativeMutationSequences
  completedSpeculative, \* m_completedSpeculativeMutationItems is not empty
  doubtful,     \* canceled by a fence while the server had them (history)
  tracked,      \* requested library scans and metadata refreshes
  reads,        \* interactive lanes: active, queued
  latest,       \* request whose token is the newest of its lane
  settledReads  \* m_settledInteractiveSequences
sessionVars == <<session, fenced, shuttingDown>>
turnVars == <<turn, posted>>
lines    == <<waiting, running>>
journals == <<ids, journal>>
fates    == <<settled, speculative, completedSpeculative, doubtful>>
mutationVars == <<lines, starting, slots, settling, journals, fates, tracked>>
readVars == <<reads, latest, settledReads>>
vars == <<sessionVars, called, outcome, turnVars, mutationVars, readVars>>

Scheduler == INSTANCE KeyedFifo
  WITH Keys <- Items, MaxActiveKeys <- SlotCount,
       Compatible <- {p \in Requests \X Requests :
                        p[1].op \notin Optimistic \/ p[2].op \notin Optimistic}

IdleLane == [active |-> None, at |-> "none", queued |-> None]
FreeSlot == [active |-> None, at |-> "free"]

Init ==
  /\ session \in [generation : {0}, connected : BOOLEAN]
  /\ fenced = ~session.connected /\ shuttingDown = FALSE
  /\ called = 0 /\ outcome = [s \in 1..MaxRequests |-> 0]
  /\ turn = <<>> /\ posted = <<>>
  /\ Scheduler!Init
  /\ starting = {} /\ slots = [i \in Slots |-> FreeSlot] /\ settling = None
  /\ ids = {} /\ journal = {}
  /\ settled = {} /\ speculative = {} /\ completedSpeculative = FALSE
  /\ doubtful = {} /\ tracked = {}
  /\ reads = [l \in Lanes |-> IdleLane]
  /\ latest = [l \in Lanes |-> 0] /\ settledReads = {}

ActiveSession == ~fenced /\ ~shuttingDown /\ session.connected
AcceptsSession(r) == ActiveSession /\ r.generation = session.generation
AcceptsLatest(r) == latest[r.op] = r.seq /\ r.generation = session.generation

Tell(S) == outcome' = [s \in 1..MaxRequests |->
                         IF s \in S THEN outcome[s] + 1 ELSE outcome[s]]
\* Slip: a timer is not started when one is running.
PostOnce(calls) == posted' = IF posted = <<>> THEN calls ELSE posted
Post(calls) == posted' = posted \o calls

\* The UI thread is between two turns, or has reached a place of a turn.
Quiet == turn = <<>>
At(place) == ~Quiet /\ Last(turn) = place
Call(place) == turn' = Append(turn, place)
Go(place) == turn' = Append(Front(turn), place)
Return == turn' = Front(turn)

\* Places where the coordinator emits, so that handlers may call it.
Emitting == {"told", "refused", "opening", "applying", "applied", "answering",
             "reading"}
Listening == Quiet \/ \E p \in Emitting : At(p)

Request(item, op) == [seq |-> called + 1, item |-> item, op |-> op,
                      generation |-> session.generation]
-----------------------------------------------------------------------------
(* Interactive reads.                                                       *)

Conflicts(read, m) ==
  \/ m.op = "DeleteItem" /\ m.item = read.item
  \/ /\ read.op \in {"LoadImages", "SearchImages"} /\ m.item = read.item
     /\ m.op \in ImageMutations \cup {"RefreshReplacingImages"}
  \/ /\ read.op = "LoadMetadata" /\ m.item = read.item
     /\ m.op \in Refreshes \cup {"UpdateMetadata"}
  \/ read.op = "LoadPlaylistTargets" /\ m.op = "AddToPlaylist"

ActiveItems == {k \in Items : running[k] # None}
Pending == {running[k] : k \in ActiveItems} \cup UNION {ToSet(waiting[k]) : k \in Items}
BlockedByMutation(read) == \E m \in Pending : Conflicts(read, m)

\* submitInteractive: the newest read of a lane runs at once, or takes the
\* one place behind the running read or the mutations it conflicts with.
SubmitRead(item, op) ==
  /\ Listening /\ op \in ReadOps /\ called < MaxRequests
  /\ called' = called + 1
  /\ LET r == Request(item, op) IN
     \/ /\ ~ActiveSession
        /\ Tell({r.seq})
        /\ UNCHANGED <<reads, latest>>
     \/ /\ ActiveSession
        /\ reads[op].active # None \/ BlockedByMutation(r)
        /\ latest' = [latest EXCEPT ![op] = r.seq]
        /\ Tell(IF reads[op].queued = None THEN {} ELSE {reads[op].queued.seq})
        /\ reads' = [reads EXCEPT ![op] = [@ EXCEPT !.queued = r]]
     \/ /\ ActiveSession
        /\ reads[op].active = None /\ ~BlockedByMutation(r)
        /\ latest' = [latest EXCEPT ![op] = r.seq]
        /\ reads' = [reads EXCEPT ![op] = [@ EXCEPT !.active = r, !.at = "bridge"]]
        /\ UNCHANGED outcome
  /\ UNCHANGED <<sessionVars, turnVars, mutationVars, settledReads>>

StillCurrentRead(r) ==
  r.seq \notin settledReads /\ AcceptsSession(r) /\ AcceptsLatest(r)

\* Slip: no pump is scheduled.
ReleaseSilently(l) ==
  /\ reads' = [reads EXCEPT ![l] = [@ EXCEPT !.active = None, !.at = "none"]]
  /\ settledReads' = settledReads \ {reads[l].active.seq}
  /\ Post(<<>>)

\* releaseLane
Release(l) ==
  /\ reads' = [reads EXCEPT ![l] = [@ EXCEPT !.active = None, !.at = "none"]]
  /\ settledReads' = settledReads \ {reads[l].active.seq}
  /\ Post(<<"pump">>)

\* finishInteractive, up to its first signal: the consumer was told already,
\* is told now that the read was superseded or failed, or a result begins to
\* be applied.
FinishRead(l) ==
  /\ Quiet /\ reads[l].at = "bridge"
  /\ LET r == reads[l].active IN
     \/ /\ r.seq \in settledReads
        /\ Release(l)
        /\ UNCHANGED <<outcome, turn>>
     \/ /\ r.seq \notin settledReads
        /\ Tell({r.seq})
        /\ settledReads' = settledReads \cup {r.seq}
        /\ reads' = [reads EXCEPT ![l] = [@ EXCEPT !.at = "told"]]
        /\ Call("reading")
        /\ UNCHANGED posted
     \/ /\ StillCurrentRead(r)
        /\ reads' = [reads EXCEPT ![l] = [@ EXCEPT !.at = "result"]]
        /\ Call("reading")
        /\ UNCHANGED <<outcome, settledReads, posted>>
  /\ UNCHANGED <<sessionVars, called, mutationVars, latest>>

\* The result itself, or superseded if a handler has overtaken it.
AnswerRead(l) ==
  /\ At("reading") /\ reads[l].at = "result"
  /\ LET r == reads[l].active IN
       /\ Tell({r.seq} \ settledReads)
       /\ settledReads' = settledReads \cup {r.seq}
       /\ reads' = [reads EXCEPT ![l] = [@ EXCEPT !.at = "told"]]
  /\ UNCHANGED <<sessionVars, called, turnVars, mutationVars, latest>>

EndRead(l) ==
  /\ At("reading") /\ reads[l].at = "told"
  /\ Release(l)
  /\ Return
  /\ UNCHANGED <<sessionVars, called, outcome, mutationVars, latest>>

\* pumpInteractiveReads: each queued read whose lane is free is told that it
\* was superseded, goes on waiting, or starts.
Idle(l) == reads[l].active = None /\ reads[l].queued # None
Stale(r) == ~(AcceptsSession(r) /\ AcceptsLatest(r))
Pumped(l) ==
  LET r == reads[l].queued IN
  CASE ~Idle(l) -> reads[l]
    [] Idle(l) /\ Stale(r) -> [reads[l] EXCEPT !.queued = None]
    [] Idle(l) /\ ~Stale(r) /\ BlockedByMutation(r) -> reads[l]
    [] OTHER -> [active |-> r, at |-> "bridge", queued |-> None]

Pump ==
  /\ Quiet /\ posted # <<>> /\ Head(posted) = "pump"
  /\ posted' = Tail(posted)
  /\ reads' = [l \in Lanes |-> Pumped(l)]
  /\ Tell({reads[l].queued.seq : l \in {k \in Lanes : Idle(k) /\ Stale(reads[k].queued)}})
  /\ UNCHANGED <<sessionVars, called, turn, mutationVars, latest,
                 settledReads>>
-----------------------------------------------------------------------------
(* Submission and start of mutations.                                       *)

\* fenceInteractiveReads: reads older than the mutation that it conflicts with.
FencesActive(l, m) ==
  LET a == reads[l].active IN
    a # None /\ a.seq < m.seq /\ Conflicts(a, m) /\ AcceptsLatest(a)
DropsQueued(l, m) ==
  LET q == reads[l].queued IN q # None /\ q.seq < m.seq /\ Conflicts(q, m)
Superseded(m) ==
  ({reads[l].active.seq : l \in {k \in Lanes : FencesActive(k, m)}} \ settledReads)
    \cup {reads[l].queued.seq : l \in {k \in Lanes : DropsQueued(k, m)}}

FenceReads(m) ==
  /\ latest' = [l \in Lanes |->
       IF FencesActive(l, m)
            \/ (DropsQueued(l, m) /\ AcceptsLatest(reads[l].queued))
       THEN 0 ELSE latest[l]]
  /\ reads' = [l \in Lanes |->
       IF DropsQueued(l, m) THEN [reads[l] EXCEPT !.queued = None] ELSE reads[l]]
  /\ settledReads' = settledReads
       \cup {reads[l].active.seq : l \in {k \in Lanes : FencesActive(k, m)}}

Dispatching == \E i \in 1..Len(turn) : turn[i] \in {"dispatch", "refused", "opening"}
CanDispatch == ActiveSession /\ settling = None /\ ~Dispatching

\* submitMutation: refused, or put in line; then reads older than it that it
\* conflicts with are told, and dispatchMutations is called.
SubmitMutation(item, op) ==
  /\ Listening /\ Len(turn) < MaxDepth
  /\ op \in MutationOps /\ called < MaxRequests
  /\ called' = called + 1
  /\ LET m == Request(item, op) IN
     \/ /\ ~ActiveSession \/ Cardinality(Pending) >= MaxPending
        /\ Tell({m.seq})
        /\ UNCHANGED <<turn, lines, readVars>>
     \/ /\ ActiveSession /\ Cardinality(Pending) < MaxPending
        /\ Scheduler!Submit(item, m)
        /\ FenceReads(m)
        /\ Tell(Superseded(m))
        /\ Call(IF Superseded(m) = {} THEN "submitted" ELSE "told")
  /\ UNCHANGED <<sessionVars, posted, starting, slots, settling, journals,
                 fates, tracked>>

\* takeReady: the oldest requests of as many idle items as may run together.
MayRun(S) ==
  /\ S \cap ActiveItems = {}
  /\ \A k \in S : waiting[k] # <<>>
  /\ Cardinality(S \cup ActiveItems) <= SlotCount
  /\ \A k \in S :
       /\ \A j \in S \ {k} : Scheduler!Agrees(Head(waiting[k]), Head(waiting[j]))
       /\ \A j \in ActiveItems : Scheduler!Agrees(Head(waiting[k]), running[j])
TakeReady ==
  \E S \in SUBSET Items :
    /\ MayRun(S) /\ \A k \in Items \ S : ~MayRun(S \cup {k})
    /\ starting' = {Head(waiting[k]) : k \in S}
    /\ running' = [k \in Items |-> IF k \in S THEN Head(waiting[k]) ELSE running[k]]
    /\ waiting' = [k \in Items |-> IF k \in S THEN Tail(waiting[k]) ELSE waiting[k]]

\* dispatchMutations, called by submitMutation or by its zero timer.
Dispatch ==
  /\ At("submitted") \/ At("told")
  /\ \/ CanDispatch /\ TakeReady /\ Go("dispatch")
     \/ ~CanDispatch /\ Return /\ UNCHANGED <<lines, starting>>
  /\ UNCHANGED <<sessionVars, called, outcome, posted, slots, settling, journals,
                 fates, tracked, readVars>>

DispatchLater ==
  /\ Quiet /\ posted # <<>> /\ Head(posted) = "dispatch"
  /\ posted' = Tail(posted)
  /\ \/ CanDispatch /\ TakeReady /\ Call("dispatch")
     \/ ~CanDispatch /\ UNCHANGED <<turn, lines, starting>>
  /\ UNCHANGED <<sessionVars, called, outcome, slots, settling, journals, fates,
                 tracked, readVars>>

EndDispatch ==
  /\ At("dispatch") /\ starting = {}
  /\ Return
  /\ UNCHANGED <<sessionVars, called, outcome, posted, mutationVars, readVars>>

FreeSlots == {i \in Slots : slots[i].active = None}
FirstFree == CHOOSE i \in FreeSlots : \A j \in FreeSlots : i <= j
Put(i, r, place) == slots' = [slots EXCEPT ![i] = [active |-> r, at |-> place]]
Clear(i) == slots' = [slots EXCEPT ![i] = FreeSlot]

\* A taken request is canceled by a transition that a handler began.
StartCanceled(r) ==
  /\ ~ActiveSession
  /\ Scheduler!Finish(r.item)
  /\ Tell({r.seq})
  /\ UNCHANGED <<turn, slots, journals, fates>>

\* startMutation: the refresh is refused, since one of its item is going on.
StartRefused(r) ==
  /\ ActiveSession /\ r.op \in Refreshes /\ r.item \in tracked
  /\ Put(FirstFree, r, "refused")
  /\ settled' = settled \cup {r.seq}
  /\ Tell({r.seq})
  /\ Go("refused")
  /\ UNCHANGED <<lines, journals, speculative, completedSpeculative, doubtful>>

\* startMutation: the overlay is begun, if the catalog knows the item.
StartOpening(r) ==
  /\ ActiveSession /\ r.op \in Optimistic
  /\ Put(FirstFree, r, "opening")
  /\ journal' \in {journal, journal \cup {r.seq}}
  /\ Go("opening")
  /\ UNCHANGED <<lines, outcome, ids, fates>>

\* startMutation: the call is handed to the pool.
StartRunning(r) ==
  /\ ActiveSession /\ r.op \notin Optimistic
  /\ ~(r.op \in Refreshes /\ r.item \in tracked)
  /\ Put(FirstFree, r, "running")
  /\ UNCHANGED <<lines, outcome, turn, journals, fates>>

StartNext(r) ==
  /\ At("dispatch") /\ r \in starting
  /\ starting' = starting \ {r}
  /\ StartCanceled(r) \/ StartRefused(r) \/ StartOpening(r) \/ StartRunning(r)
  /\ UNCHANGED <<sessionVars, called, posted, settling, tracked, readVars>>

\* startMutation after it refused a refresh: only a dispatch is scheduled.
RefusedDone(i) ==
  /\ At("refused") /\ slots[i].at = "refused"
  /\ LET r == slots[i].active IN
       /\ settled' = settled \ {r.seq}
       /\ Scheduler!Finish(r.item)
  /\ Clear(i)
  /\ Post(<<"dispatch">>) /\ Go("dispatch")
  /\ UNCHANGED <<sessionVars, called, outcome, starting, settling, journals,
                 speculative, completedSpeculative, doubtful, tracked, readVars>>

\* startMutation after the overlay was begun: a handler may have canceled the
\* request, whose overlay is then taken back.
Opened(i) ==
  /\ At("opening") /\ slots[i].at = "opening"
  /\ LET r == slots[i].active
         canceled == r.seq \in settled \/ ~AcceptsSession(r)
     IN \/ /\ canceled
           /\ journal' = journal \ {r.seq}
           /\ settled' = settled \ {r.seq}
           /\ speculative' = speculative \ {r.seq}
           /\ Scheduler!Finish(r.item)
           /\ Clear(i)
           /\ Post(<<"dispatch", "pump">>)
           /\ UNCHANGED ids
        \/ /\ ~canceled
           /\ ids' = ids \cup (journal \cap {r.seq})
           /\ Put(i, r, "running")
           /\ UNCHANGED <<lines, journal, settled, speculative, posted>>
  /\ Go("dispatch")
  /\ UNCHANGED <<sessionVars, called, outcome, starting, settling,
                 completedSpeculative, doubtful, tracked, readVars>>
-----------------------------------------------------------------------------
(* The end of a mutation.                                                   *)

StillCurrent(r) == r.seq \notin settled /\ AcceptsSession(r)
RollBack(seqs) == ids' = ids \ seqs /\ journal' = journal \ (ids \cap seqs)

\* finishMutation: the lane is free, the item is not; a failed or unwanted
\* call loses its overlay.
FinishMutation(i, ok) ==
  /\ Quiet /\ slots[i].at = "running"
  /\ LET r == slots[i].active IN
       /\ settling' = [request |-> r, ok |-> ok]
       /\ Call(IF StillCurrent(r) THEN "applying" ELSE "ending")
       /\ IF StillCurrent(r) /\ ok THEN UNCHANGED journals ELSE RollBack({r.seq})
  /\ Clear(i)
  /\ UNCHANGED <<sessionVars, called, outcome, posted, lines, starting, fates,
                 tracked, readVars>>

\* applyMutationResult, once the catalog has been told of what was
\* invalidated or rolled back.  The server may not have started the refresh.
ApplyResult ==
  /\ At("applying")
  /\ LET r == settling.request IN
     \/ /\ ~StillCurrent(r)
        /\ Go("ending")
        /\ UNCHANGED <<outcome, settled, journals, tracked>>
     \/ /\ StillCurrent(r) /\ ~settling.ok
        /\ settled' = settled \cup {r.seq}
        /\ Tell({r.seq})
        /\ Go("answering")
        /\ UNCHANGED <<journals, tracked>>
     \/ /\ StillCurrent(r) /\ settling.ok
        /\ tracked' \in {tracked} \cup
             {tracked \cup {r.item} : x \in {r.op} \cap Refreshes}
        /\ RollBack({r.seq})
        /\ Go("applied")
        /\ UNCHANGED <<outcome, settled>>
  /\ UNCHANGED <<sessionVars, called, posted, lines, starting, slots, settling,
                 speculative, completedSpeculative, doubtful, readVars>>

\* Slip: success is reported without asking again.
AnswerUnasked ==
  /\ At("applied")
  /\ settled' = settled \cup {settling.request.seq}
  /\ Tell({settling.request.seq})
  /\ Go("answering")
  /\ UNCHANGED <<sessionVars, called, posted, lines, starting, slots, settling,
                 journals, speculative, completedSpeculative, doubtful, tracked,
                 readVars>>

\* applyMutationResult, after the last signal of the catalog.
Answer ==
  /\ At("applied")
  /\ LET r == settling.request IN
     \/ /\ StillCurrent(r)
        /\ settled' = settled \cup {r.seq}
        /\ Tell({r.seq})
        /\ Go("answering")
     \/ /\ ~StillCurrent(r)
        /\ Go("ending")
        /\ UNCHANGED <<settled, outcome>>
  /\ UNCHANGED <<sessionVars, called, posted, lines, starting, slots, settling,
                 journals, speculative, completedSpeculative, doubtful, tracked,
                 readVars>>

\* Slip: asks whether the session is open instead of whether it is the same.
UnattendedWhenOpen(r) == r.seq \in speculative /\ AcceptsSession(r)
Unattended(r) == r.seq \in speculative /\ r.generation = session.generation

\* finishMutation, after the result: an outcome nobody waited for is
\* reconciled, now or when the fence opens; the item is free.
EndMutation ==
  /\ At("answering") \/ At("ending")
  /\ LET r == settling.request IN
        /\ speculative' = speculative \ {r.seq}
        /\ completedSpeculative' = (completedSpeculative \/ (Unattended(r) /\ fenced))
        /\ doubtful' = IF Unattended(r) /\ ~fenced THEN doubtful \ {r.seq} ELSE doubtful
        /\ settled' = settled \ {r.seq}
        /\ Scheduler!Finish(r.item)
  /\ settling' = None
  /\ Post(<<"dispatch", "pump">>)
  /\ Return
  /\ UNCHANGED <<sessionVars, called, outcome, starting, slots, journals,
                 tracked, readVars>>
-----------------------------------------------------------------------------
(* Session transitions.                                                     *)

Queued == UNION {ToSet(waiting[k]) : k \in Items}
Seqs(R) == {r.seq : r \in R}
\* Requests in a lane or being settled whose consumer has not been told.
InLanes == {slots[i].active : i \in Slots} \ {None}
InFlight == InLanes \cup (IF settling = None THEN {} ELSE {settling.request})
Untold == {r \in InFlight : r.seq \notin settled}
Sent == {r \in Untold : ~\E i \in Slots : slots[i] = [active |-> r, at |-> "opening"]}
UnreadSeqs ==
  LET held == UNION {{reads[l].active, reads[l].queued} : l \in Lanes}
  IN Seqs(held \ {None}) \ settledReads

\* resetInteractiveReads and resetMutations: every consumer is told at once,
\* queued requests are dropped, overlays that have an id are taken back.
Reset ==
  /\ latest' = [l \in Lanes |-> 0]
  /\ reads' = [l \in Lanes |-> [reads[l] EXCEPT !.queued = None]]
  /\ settledReads' = settledReads \cup
       {reads[l].active.seq : l \in {k \in Lanes : reads[k].active # None}}
  /\ Scheduler!WithdrawAll
  /\ settled' = settled \cup Seqs(Untold)
  /\ RollBack(Seqs(Untold))
  /\ Tell(UnreadSeqs \cup Seqs(Queued \cup Untold))

SessionTransitionStarted ==
  /\ Listening /\ ~fenced /\ ~shuttingDown /\ Len(posted) <= MaxPosted
  /\ fenced' = TRUE
  /\ Reset
  /\ speculative' = speculative \cup Seqs(Untold)
  /\ doubtful' = doubtful \cup Seqs(Sent)
  /\ UNCHANGED <<session, shuttingDown, called, turnVars, starting, slots,
                 settling, completedSpeculative, tracked>>

\* The previous session goes on; with no session the fence stays.  What ended
\* behind the fence is reconciled.
SessionTransitionAborted ==
  /\ Quiet /\ fenced /\ ~shuttingDown /\ session.connected
  /\ fenced' = FALSE
  /\ completedSpeculative' = FALSE
  /\ doubtful' = IF completedSpeculative THEN doubtful \cap Seqs(InFlight) ELSE doubtful
  /\ Post(<<"dispatch", "pump">>)
  /\ UNCHANGED <<session, shuttingDown, called, outcome, turn, lines, starting,
                 slots, settling, journals, settled, speculative, tracked, readVars>>

\* The content of another session is loaded anew: nothing is to be reconciled.
SessionCommitted ==
  /\ Quiet /\ fenced /\ ~shuttingDown /\ session.generation < MaxGeneration
  /\ \E connected \in BOOLEAN :
       session' = [generation |-> session.generation + 1, connected |-> connected]
  /\ fenced' = ~session'.connected
  /\ speculative' = {} /\ completedSpeculative' = FALSE /\ doubtful' = {}
  /\ tracked' = {}
  /\ Post(IF session'.connected THEN <<"dispatch", "pump">> ELSE <<>>)
  /\ UNCHANGED <<shuttingDown, called, outcome, turn, lines, starting, slots,
                 settling, journals, settled, readVars>>

Shutdown ==
  /\ Quiet /\ ~shuttingDown
  /\ shuttingDown' = TRUE /\ fenced' = TRUE
  /\ Reset
  /\ tracked' = {}
  /\ UNCHANGED <<session, called, turnVars, starting, slots, settling,
                 speculative, completedSpeculative, doubtful>>

\* applyRefreshProgress or pollMetadataRefreshFallbacks: a refresh is over.
RefreshEnds(item) ==
  /\ Quiet /\ ActiveSession /\ item \in tracked
  /\ tracked' = tracked \ {item}
  /\ UNCHANGED <<sessionVars, called, outcome, turnVars, lines, starting, slots,
                 settling, journals, fates, readVars>>
-----------------------------------------------------------------------------
\* What a turn does once it is called, and the timers and pool results that
\* the event loop delivers.
Proceed ==
  \/ \E l \in Lanes : AnswerRead(l) \/ EndRead(l)
  \/ Dispatch \/ EndDispatch \/ \E r \in starting : StartNext(r)
  \/ \E i \in Slots : RefusedDone(i) \/ Opened(i)
  \/ ApplyResult \/ Answer \/ EndMutation
Timer == Pump \/ DispatchLater

Next ==
  \/ \E p \in Menu : SubmitRead(p[1], p[2]) \/ SubmitMutation(p[1], p[2])
  \/ Proceed \/ Timer
  \/ \E l \in Lanes : FinishRead(l)
  \/ \E i \in Slots, ok \in BOOLEAN : FinishMutation(i, ok)
  \/ SessionTransitionStarted \/ SessionTransitionAborted \/ SessionCommitted
  \/ Shutdown
  \/ \E item \in Items : RefreshEnds(item)

Spec == Init /\ [][Next]_vars

\* The event loop runs turns to their end and delivers timers and results; the
\* bridge answers every call.  Nothing else has to happen.
Fairness ==
  /\ WF_vars(Proceed) /\ WF_vars(Timer)
  /\ \A l \in Lanes : WF_vars(FinishRead(l))
  /\ \A i \in Slots : WF_vars(\E ok \in BOOLEAN : FinishMutation(i, ok))
-----------------------------------------------------------------------------
Unanswered == {s \in 1..called : outcome[s] = 0}

\* Every variable holds a value of its type; requests carry a generation that
\* was current when they were submitted.
TypeOK ==
  /\ session \in [generation : 0..MaxGeneration, connected : BOOLEAN]
  /\ fenced \in BOOLEAN /\ shuttingDown \in BOOLEAN
  /\ called \in 0..MaxRequests /\ outcome \in [1..MaxRequests -> Nat]
  /\ turn \in Seq(Emitting \cup {"submitted", "dispatch", "ending"})
  /\ posted \in Seq({"dispatch", "pump"})
  /\ waiting \in [Items -> Seq(Requests)]
  /\ running \in [Items -> Requests \cup {None}] /\ starting \subseteq Requests
  /\ slots \in [Slots -> [active : Requests \cup {None},
                          at : {"free", "refused", "opening", "running"}]]
  /\ settling \in [request : Requests, ok : BOOLEAN] \cup {None}
  /\ ids \subseteq 1..MaxRequests /\ journal \subseteq 1..MaxRequests
  /\ settled \subseteq 1..MaxRequests /\ speculative \subseteq 1..MaxRequests
  /\ completedSpeculative \in BOOLEAN /\ doubtful \subseteq 1..MaxRequests
  /\ tracked \subseteq Items
  /\ reads \in [Lanes -> [active : Requests \cup {None}, queued : Requests \cup {None},
                          at : {"none", "bridge", "result", "told"}]]
  /\ latest \in [Lanes -> 0..MaxRequests] /\ settledReads \subseteq 1..MaxRequests

\* A caller gets one terminal signal per request, however transitions, fences
\* and nested submissions cross its end.
AnsweredOnce == \A s \in 1..MaxRequests : outcome[s] <= 1

\* A request whose caller still waits is in a queue, a lane or about to be
\* started: no path forgets it.
NothingLost ==
  Unanswered \subseteq
    Seqs(Queued \cup starting \cup Untold) \cup UnreadSeqs

\* The catalog's journal has one writer at a time, and shows no overlay of a
\* request whose caller has been told, but while a handler runs that told him.
OneOverlay ==
  /\ Cardinality(journal) <= 1
  /\ \A s \in journal : s \in Unanswered \/ \E i \in Slots :
       slots[i].at = "opening" /\ slots[i].active.seq = s

\* A read whose result would still be shown never overlaps a mutation it
\* conflicts with, queued or running.
NoReadBesideConflict ==
  \A l \in Lanes : reads[l].active # None /\ StillCurrentRead(reads[l].active)
                     => ~BlockedByMutation(reads[l].active)

\* dispatchMutations finds a lane for all that the scheduler lets run: the
\* assertion before startMutation.
FreeLane ==
  At("dispatch") => Cardinality(starting) <= Cardinality(FreeSlots)

\* What the coordinator never gets wrong, whatever crosses: types, one signal
\* per request and none forgotten, one overlay, reads beside no conflicting
\* mutation, and a lane for each mutation that may start.
RequestsAccountedFor ==
  TypeOK /\ AnsweredOnce /\ NothingLost /\ OneOverlay /\ NoReadBesideConflict /\ FreeLane

\* When a session goes on after a transition was aborted, what the server did
\* for callers told that their mutation was canceled has been reconciled.
DoubtIsReconciled ==
  ~fenced /\ ~shuttingDown => doubtful \subseteq Seqs(InFlight)

\* A mutation that was put in line is answered in the end: every path that
\* frees its item or lane schedules another dispatchMutations.
MutationIsAnswered ==
  \A s \in 1..MaxRequests :
    (\E m \in Pending \cup starting : m.seq = s) ~> (outcome[s] # 0)

\* A read held back by its lane or by mutations is started or told once they
\* end, but for the metadata of an item under a tracked refresh: a refresh that
\* is refused there wakes no reads (RefusedDone).
HeldBack(l) ==
  reads[l].queued # None
    /\ (reads[l].active # None \/ BlockedByMutation(reads[l].queued))
ReadIsServed ==
  \A l \in Lanes :
    HeldBack(l) ~> (reads[l].queued = None \/ reads[l].queued.item \in tracked)

\* Nothing that waits is forgotten: the mutations in line are answered, and the
\* reads held back are started or told.
WaitersAreServed == MutationIsAnswered /\ ReadIsServed
=============================================================================
