---------------------------- MODULE CatalogSync ----------------------------
(***************************************************************************)
(* The session's catalog supervisor (yanami-application catalog_search.rs),*)
(* the notification buffer it drains (lib.rs) and the notification monitor *)
(* that fills it (session.rs), over the projection of MediaCatalog and a   *)
(* remote library that changes at any time.                                *)
(***************************************************************************)
EXTENDS MediaCatalog, Sequences

CONSTANTS Stages,     \* the item types of each traversal stage, as sets of items
          Threshold,  \* CATALOG_INCREMENTAL_FAILURES_BEFORE_FULL
          FirstLibraries, \* what the server may hold at the start
          Overlap,    \* changes of the library a delta reads again
          MaxChanges, \* bound: changes of the library
          MaxFaults   \* bound: failures, lost sockets, restarts and intervals

ASSUME SyncAssumption ==
  /\ None \notin Contents /\ Items \cap {None} = {}
  /\ SeriesOf \in [Items -> Items \cup {None}]
  /\ DOMAIN TermsOf = Contents /\ \A c \in Contents : TermsOf[c] # None
  /\ Stages \in Seq(SUBSET Items) /\ Stages # <<>>
  /\ UNION {Stages[k] : k \in DOMAIN Stages} = Items
  /\ FirstLibraries \subseteq [Items -> Contents \cup {None}]
  /\ {Threshold, Overlap} \subseteq Nat

VARIABLES remote,   \* the server's library
          saved,    \* when an item was last saved, in library changes
          socket,   \* "down", "up", or "broken" before the monitor notices
          transit,  \* notifications sent and not yet received
          buffer,   \* CatalogNotificationBuffer
          sup,      \* the supervisor: where it is, and what it holds
          cooling,  \* a retry delay has not elapsed
          wake,     \* a permit of catalog_wake
          evicting, \* items deleted through the application, by step
          count     \* what the bounds count

netVars == <<remote, saved, socket, transit>>
vars == <<storeVars, netVars, buffer, sup, cooling, wake, evicting, count>>

Empty == [up |-> {}, rm |-> {}, catchup |-> FALSE, members |-> FALSE]
Nothing == [i \in {} |-> None]
Idle(pc) == [pc |-> pc, stage |-> 1, got |-> Nothing, up |-> {}, rm |-> {},
             ids |-> {}, total |-> 0, at |-> 0, next |-> "top", gone |-> {}, due |-> "none"]

Init ==
  /\ StoreInit
  /\ remote \in FirstLibraries
  /\ saved = [i \in Items |-> 0]
  /\ socket = "down" /\ transit = <<>>
  /\ buffer = [Empty EXCEPT !.catchup = TRUE, !.members = TRUE]
  /\ sup = Idle("top") /\ cooling = FALSE /\ wake = TRUE
  /\ evicting = Missing
  /\ count = [changes |-> 0, faults |-> 0, restarts |-> 0]

Present == {i \in Items : remote[i] # None}
MayFail == count.faults < MaxFaults
Fault == MayFail /\ count' = [count EXCEPT !.faults = @ + 1]
Change == count.changes < MaxChanges /\ count' = [count EXCEPT !.changes = @ + 1]
Full == sup.pc \in {"page", "verify"}

(***************************************************************************)
(* The library and the notification socket.                                *)
(***************************************************************************)
Sent(m) == transit' = IF socket = "up" THEN Append(transit, m) ELSE transit

\* A change is announced by its ids, or by a message that only says to look.
\* The identifier of a deleted item is not given to another.
Changed(r, ids, kinds) ==
  /\ Change /\ remote' = r
  /\ saved' = [i \in Items |-> IF i \in ids THEN count.changes + 1 ELSE saved[i]]
  /\ sup' = [sup EXCEPT !.gone = IF Full THEN @ \cup {i \in Items : r[i] = None} ELSE @]
  /\ \E m \in kinds : Sent(m)
  /\ UNCHANGED <<storeVars, socket, buffer, cooling, wake, evicting>>

SaveRemote(i, c) ==
  /\ c # remote[i] /\ (remote[i] = None => saved[i] = 0)
  /\ SeriesOf[i] \in Present \cup {None}
  /\ Changed([remote EXCEPT ![i] = c], {i},
             {[Empty EXCEPT !.up = {i}]} \cup
               (IF i \in Present THEN {[Empty EXCEPT !.catchup = TRUE]} ELSE {}))

Family(i) == {i} \cup {j \in Present : SeriesOf[j] = i}
DeleteRemote(i) ==
  /\ i \in Present
  /\ Changed(Removed(remote, Family(i)), Family(i),
             {[Empty EXCEPT !.rm = {i}], [Empty EXCEPT !.members = TRUE]})

\* A deletion made in the application is followed by its two store calls.
DeleteHere(i) ==
  /\ Change /\ evicting = Missing
  /\ i \in Present /\ remote' = Removed(remote, Family(i))
  /\ sup' = [sup EXCEPT !.gone = IF Full THEN @ \cup Family(i) ELSE @]
  /\ Sent([Empty EXCEPT !.rm = {i}])
  /\ evicting' = [evicting EXCEPT ![i] = "remove"]
  /\ saved' = [j \in Items |-> IF j \in Family(i) THEN count.changes + 1 ELSE saved[j]]
  /\ UNCHANGED <<storeVars, socket, buffer, cooling, wake>>

EvictItem(i) ==
  /\ evicting[i] = "remove" /\ evicting' = [evicting EXCEPT ![i] = "enqueue"]
  /\ RemoveIncrementally(i) \/ (scope.state = "running" /\ UNCHANGED storeVars)
  /\ UNCHANGED <<netVars, buffer, sup, cooling, wake, count>>

EnqueueEvicted(i) ==
  /\ evicting[i] = "enqueue" /\ evicting' = [evicting EXCEPT ![i] = None]
  /\ Enqueue({}, {i}, FALSE, FALSE)
  /\ wake' = TRUE
  /\ UNCHANGED <<netVars, buffer, sup, cooling, count>>

MarkGap == buffer' = [buffer EXCEPT !.catchup = TRUE, !.members = TRUE] /\ wake' = TRUE

Connect ==
  /\ socket = "down" /\ socket' = "up"
  /\ MarkGap
  /\ UNCHANGED <<storeVars, remote, saved, transit, sup, cooling, evicting, count>>

Break ==
  /\ socket = "up" /\ Fault
  /\ socket' = "broken" /\ transit' = <<>>
  /\ UNCHANGED <<storeVars, remote, saved, buffer, sup, cooling, wake, evicting>>

NoticeBreak ==
  /\ socket = "broken" /\ socket' = "down"
  /\ MarkGap
  /\ UNCHANGED <<storeVars, remote, saved, transit, sup, cooling, evicting, count>>

\* enqueue: the newest disposition of an item replaces the other one.
Buffered(b, m) ==
  [up |-> (b.up \ m.rm) \cup (m.up \ m.rm), rm |-> (b.rm \ m.up) \cup m.rm,
   catchup |-> b.catchup \/ m.catchup, members |-> b.members \/ m.members]

\* Slip: a batch that was not stored is lost.
MergedSlip(b, old) == b
\* merge: what was drained comes back under what arrived since.
Merged(b, old) ==
  LET newer == b.up \cup b.rm
  IN  [up |-> b.up \cup (old.up \ newer), rm |-> b.rm \cup (old.rm \ (newer \cup old.up)),
       catchup |-> b.catchup \/ old.catchup, members |-> b.members \/ old.members]

Route ==
  /\ transit # <<>> /\ transit' = Tail(transit)
  /\ buffer' = Buffered(buffer, Head(transit))
  /\ wake' = TRUE
  /\ UNCHANGED <<storeVars, remote, saved, socket, sup, cooling, evicting, count>>

(***************************************************************************)
(* The supervisor.                                                         *)
(***************************************************************************)
Local == UNCHANGED <<netVars, evicting>>
At(pc) == [Idle(pc) EXCEPT !.due = sup.due]

\* Drains the buffer into the store; a batch that was not stored is merged
\* back.  The buffer is unlocked while the store works, so that a
\* notification may arrive in between.
Drain ==
  /\ sup.pc \in {"top", "debounce"}
  /\ sup' = [sup EXCEPT !.pc = "persist", !.got = buffer,
                        !.next = IF sup.pc = "top" THEN "decide" ELSE "pend"]
  /\ buffer' = Empty
  /\ wake' \in IF sup.pc = "debounce" THEN {wake, FALSE} ELSE {wake}
  /\ UNCHANGED <<storeVars, cooling, count>> /\ Local

Persist ==
  /\ sup.pc = "persist"
  /\ Enqueue(sup.got.up, sup.got.rm, sup.got.catchup, sup.got.members)
  /\ sup' = At(sup.next)
  /\ UNCHANGED <<buffer, cooling, wake, count>> /\ Local

PersistFails ==
  /\ sup.pc = "persist" /\ Fault
  /\ buffer' = Merged(buffer, sup.got)
  /\ sup' = At(IF sup.next = "decide" THEN "wait" ELSE "top")
  /\ cooling' = (cooling \/ sup.next = "decide")
  /\ UNCHANGED <<storeVars, wake>> /\ Local

FullDue ==
  \/ scope.state = "idle"
  \/ scope.state = "complete" /\ (scope.dirty \/ sup.due = "full")
  \/ scope.state = "failed" /\ ~cooling

Recover ==
  /\ RecoverInterrupted /\ sup' = Idle("wait") /\ cooling' = TRUE
  /\ UNCHANGED <<rows, seen, changed, tombs, pending, moved, base, live>>
StartFull ==
  /\ BeginSync /\ sup' = [Idle("page") EXCEPT !.gone = Items \ Present]
  /\ UNCHANGED <<rows, changed, tombs, pending, moved, base, live, cooling>>
StartDelta(probe) ==
  /\ sup' = [Idle("delta") EXCEPT !.at = count.changes,
                                  !.next = IF probe THEN "probe" ELSE "top"]
  /\ ReadPending({"catchup", "pending"})
  /\ UNCHANGED <<rows, seen, changed, tombs, pending, scope, base, live, cooling>>
Pause == sup' = Idle("wait") /\ UNCHANGED <<storeVars, cooling>>

\* Once the notifications are stored: recover a run a crash left behind, or
\* do the first work that is due.
Due ==
  CASE scope.state = "running" -> "recover"
    [] FullDue -> "full"
    [] ~FullDue /\ scope.state = "failed" -> "nothing"
    [] ~FullDue /\ scope.state = "complete" ->
         IF scope.failures > 0 /\ cooling THEN "nothing"
         ELSE IF pending # Missing THEN "pending"
         ELSE IF scope.members \/ sup.due = "members" THEN "members"
         ELSE IF scope.catchup \/ sup.due = "delta" THEN "delta" ELSE "nothing"

Decide ==
  /\ sup.pc = "decide"
  /\ \/ Due = "recover" /\ Recover
     \/ Due = "full" /\ StartFull
     \/ Due = "pending" /\ sup' = Idle("debounce") /\ UNCHANGED <<storeVars, cooling>>
     \/ Due = "members" /\ StartDelta(TRUE)
     \/ Due = "delta" /\ StartDelta(FALSE)
     \/ Due = "nothing" /\ Pause
  /\ UNCHANGED <<buffer, wake, count>> /\ Local

Woken ==
  /\ sup.pc = "wait" /\ wake
  /\ wake' = FALSE /\ sup' = Idle("top")
  /\ UNCHANGED <<storeVars, buffer, cooling, count>> /\ Local

Elapse ==
  /\ sup.pc \in {"wait", "retry"} /\ cooling
  /\ cooling' = FALSE /\ sup' = Idle("top")
  /\ UNCHANGED <<storeVars, buffer, wake, count>> /\ Local

\* The delta, membership or full interval has passed.
Interval ==
  /\ sup.pc = "wait" /\ ~cooling /\ Fault
  /\ \E d \in {"delta", "members", "full"} : sup' = [Idle("top") EXCEPT !.due = d]
  /\ UNCHANGED <<storeVars, buffer, cooling, wake>> /\ Local

(***************************************************************************)
(* Pending ids: read, fetch, apply, until none is left.                    *)
(***************************************************************************)
ReadBatch ==
  /\ sup.pc = "pend" /\ ReadPending({"pending"})
  /\ \/ /\ pending # Missing
        /\ sup' = [sup EXCEPT !.pc = "fetch", !.up = Wanted("upsert"), !.rm = Wanted("remove")]
        /\ UNCHANGED scope
     \/ /\ pending = Missing
        /\ sup' = Idle("top")
        /\ scope' = IF sup.next = "members" THEN MembershipChecked(scope)
                    ELSE IncrementalSuccess(scope)
  /\ UNCHANGED <<rows, seen, changed, tombs, pending, base, live>>
  /\ UNCHANGED <<buffer, cooling, wake, count>> /\ Local

Fetch ==
  /\ sup.pc = "fetch"
  /\ sup' = [sup EXCEPT !.pc = "apply", !.got = [i \in sup.up \cap Present |-> remote[i]],
                        !.rm = @ \cup (sup.up \ Present)]
  /\ UNCHANGED <<storeVars, buffer, cooling, wake, count>> /\ Local

ApplyBatch ==
  /\ sup.pc = "apply"
  /\ Apply(sup.got, sup.up, sup.rm)
  /\ sup' = [Idle("pend") EXCEPT !.next = sup.next]
  /\ UNCHANGED <<seen, scope, moved, base, buffer, cooling, wake, count>> /\ Local

(***************************************************************************)
(* The timestamp delta and the ids-only membership pass.                   *)
(***************************************************************************)
FetchDelta ==
  /\ sup.pc = "delta"
  /\ LET due == {i \in Present : saved[i] + Overlap > scope.watermark}
     IN  sup' = [sup EXCEPT !.pc = "merge", !.got = [i \in due |-> remote[i]]]
  /\ UNCHANGED <<storeVars, buffer, cooling, wake, count>> /\ Local

ApplyDelta ==
  /\ sup.pc = "merge"
  /\ Apply(sup.got, {}, {})
  /\ LET s == Checkpoint(scope, sup.at)
     IN  scope' = IF sup.next = "probe" THEN s ELSE IncrementalSuccess(s)
  /\ sup' = Idle(sup.next)
  /\ UNCHANGED <<seen, moved, base, buffer, cooling, wake, count>> /\ Local

Last == sup.stage = Len(Stages)
Probed == sup.ids \cup (Stages[sup.stage] \cap Present)
NextStage == [sup EXCEPT !.stage = @ + 1, !.ids = Probed]

Probe ==
  /\ sup.pc = "probe"
  /\ \/ ~Last /\ sup' = NextStage
        /\ ReadPending(IF sup.stage = 1 THEN {"members"} ELSE {})
        /\ UNCHANGED <<rows, seen, changed, tombs, pending, scope, base, live>>
     \/ Last /\ Enqueue(Probed \ Rows, Rows \ Probed, FALSE, FALSE)
        /\ sup' = [Idle("pend") EXCEPT !.next = "members"]
  /\ UNCHANGED <<buffer, cooling, wake, count>> /\ Local

\* An incremental step failed: after the threshold the projection is dirty.
IncrementalFails ==
  /\ sup.pc \in {"fetch", "apply", "delta", "merge", "probe"} /\ Fault
  /\ scope' = IncrementalFailure(scope, Threshold)
  /\ LET repair == scope.failures + 1 >= Threshold
     IN  sup' = Idle(IF repair THEN "top" ELSE "wait") /\ cooling' = TRUE
  /\ UNCHANGED <<rows, seen, changed, tombs, pending, moved, base, live>>
  /\ UNCHANGED <<buffer, wake>> /\ Local

(***************************************************************************)
(* The full traversal.                                                     *)
(***************************************************************************)
\* A page of a stage.  A library that changes while it is paged may hide
\* items from the traversal and report any total.
Page ==
  /\ sup.pc = "page"
  /\ \E S \in SUBSET (Stages[sup.stage] \cap Present) :
       /\ S = Stages[sup.stage] \cap Present \/ MayFail
       /\ count' = IF S = Stages[sup.stage] \cap Present THEN count
                   ELSE [count EXCEPT !.faults = @ + 1]
       /\ LET total == sup.total + Cardinality(S)
          IN  /\ UpsertPage([i \in S |-> remote[i]], IF Last THEN total ELSE scope.expected)
              /\ sup' = IF Last THEN [Idle("verify") EXCEPT !.gone = sup.gone]
                        ELSE [sup EXCEPT !.stage = @ + 1, !.total = total]
  /\ UNCHANGED <<buffer, cooling, wake>> /\ Local

\* CatalogRunGuard: a run that does not complete is failed, also when dropped.
EndFailed ==
  /\ FailSync /\ cooling' = TRUE
  /\ sup' = Idle(IF ~scope.completed /\ Rows = {} THEN "retry" ELSE "top")
  /\ UNCHANGED <<rows, seen, changed, tombs, pending, moved, base, live>>

Verify ==
  /\ sup.pc = "verify"
  /\ \/ ~Last /\ sup' = NextStage /\ UNCHANGED <<storeVars, cooling>>
     \/ /\ Last /\ MembershipVerified(Probed) /\ Reconciled
        /\ CompleteSync(count.changes) /\ sup' = Idle("top") /\ UNCHANGED cooling
     \/ Last /\ ~(MembershipVerified(Probed) /\ Reconciled) /\ EndFailed
  /\ UNCHANGED <<buffer, wake, count>> /\ Local

FullFails ==
  /\ Full /\ Fault
  /\ EndFailed
  /\ UNCHANGED <<buffer, wake>> /\ Local

(***************************************************************************)
(* The end of a session or of the process, and the next session's start.   *)
(***************************************************************************)
Restarted ==
  /\ MayFail /\ count' = [count EXCEPT !.faults = @ + 1, !.restarts = 1]
  /\ socket' = "down" /\ transit' = <<>>
  /\ buffer' = [Empty EXCEPT !.catchup = TRUE, !.members = TRUE]
  /\ sup' = Idle("top") /\ wake' = TRUE
  /\ UNCHANGED <<remote, saved, cooling>>

Stop ==
  /\ Restarted
  /\ IF Full THEN FailSync ELSE UNCHANGED scope
  /\ UNCHANGED <<rows, seen, changed, tombs, pending, moved, base, live, evicting>>

Crash ==
  /\ Restarted
  /\ Open /\ evicting' = Missing
  /\ UNCHANGED <<rows, seen, changed, tombs, pending, scope, moved>>

Work ==
  \/ Drain \/ Persist \/ Decide \/ Woken \/ Elapse
  \/ ReadBatch \/ Fetch \/ ApplyBatch \/ FetchDelta \/ ApplyDelta \/ Probe
  \/ Page \/ Verify

Monitor == Connect \/ NoticeBreak \/ Route
Evict == \E i \in Items : EvictItem(i) \/ EnqueueEvicted(i)

Next ==
  \/ Work \/ Monitor \/ Evict
  \/ PersistFails \/ IncrementalFails \/ FullFails
  \/ \E i \in Items, c \in Contents : SaveRemote(i, c)
  \/ \E i \in Items : DeleteRemote(i) \/ DeleteHere(i)
  \/ Break \/ Interval \/ Stop \/ Crash

Spec == Init /\ [][Next]_vars /\ WF_vars(Work) /\ WF_vars(Evict)
             /\ WF_vars(Connect \/ NoticeBreak) /\ WF_vars(Route)

(***************************************************************************)
(* Properties.                                                             *)
(***************************************************************************)
\* A query matches every committed row by its current terms and by no others;
\* until a restart it matches nothing else either.
SearchFollowsRows ==
  \A i \in Items : rows[i] # None \/ count.restarts = 0 =>
                     Visible(live)[i] = Terms(rows)[i]

\* "Persistent tombstones continue to mask matching ordinals in the mmap base
\* after a restart": what an open reads back shows no item without a row.
RemovalsSurviveReopen ==
  \A i \in Items : rows[i] = None => Visible(Reopened(base))[i] = None

\* A completed traversal deletes only items that were gone from the server at
\* some moment since it began.
SweepDeletesOnlyGone ==
  [][sup.pc = "verify" => \A i \in Rows : rows'[i] = None => i \in sup.gone]_vars

\* Once the library and the faults are quiet, the projection becomes and
\* stays the server's library, whatever was lost, merged back or interrupted;
\* only the rows of a removed series may stay behind (NoOrphanRows).
Orphan(i) == SeriesOf[i] # None /\ SeriesOf[i] \notin Rows
CatalogConverges == <>[](\A i \in Items : rows[i] = remote[i] \/ Orphan(i))

\* "Removals ... suppress cached Series or Season descendants": a row whose
\* series is gone goes too.
NoOrphanRows == <>[](\A i \in Rows : ~Orphan(i))
=============================================================================
