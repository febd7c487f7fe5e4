------------------------- MODULE CatalogCoordinator -------------------------
(***************************************************************************)
(* The presentation of the catalog: the resource requests and navigation   *)
(* lanes of CatalogCoordinator*.cpp with the tokens of                     *)
(* RequestCoordinator.hpp, and the entities, rows and optimistic overlays  *)
(* of MediaStore.cpp in which their answers and the user's state changes   *)
(* meet.                                                                   *)
(*                                                                         *)
(* A token is compared with a generation for equality only, so a request   *)
(* carries whether its token is still the current one, and raising a       *)
(* generation clears that mark.  Activity revisions are ranks among the    *)
(* requests in flight; "old" says that a newer revision was committed.     *)
(***************************************************************************)
EXTENDS Naturals, FiniteSets

CONSTANTS Items,        \* media items; the library and every collection has all
          Collections,  \* collections the user opens
          Accounts,     \* accounts; a transition moves from one to another
          None,
          Lost,         \* the answer of a failed call
          Reads,        \* the rows kept: "activity", "favorites"
          MaxEvents     \* bound: calls, state changes, failures, transitions, restarts

CatalogAssumption ==
  /\ {"activity"} \subseteq Reads /\ Reads \subseteq {"activity", "favorites"}
  /\ None \notin Items \cup Collections /\ MaxEvents \in Nat

VARIABLES server,   \* the backend account's items: played, favorite, changes
          view,     \* committed account, fence, collection target/shown/error
          fields,   \* MediaStore entities, as read from the server, or None
          rows,     \* the "resume" and "favorites" queries: rows and stale
          coll,     \* the "collection" queries
          lanes,    \* the two navigation lanes
          queue,    \* the queued library and collection requests
          lane,     \* the activity and the favorites request
          known,    \* keys RequestCoordinator holds a generation of
          todo,     \* calls posted with a zero timer
          mutation, \* the optimistic state change of an item
          count     \* what the bounds count

store == <<fields, rows, coll>>
requests == <<lanes, queue, lane, known>>
vars == <<server, view, store, requests, todo, mutation, count>>

Lanes == {1, 2}
Kinds == {"library", "collection"}
Op(k) == IF k = "activity" THEN "played" ELSE "fav"

Idle == [req |-> None, refreshing |-> FALSE, queued |-> FALSE]
NoEntity == [i \in Items |-> None]
NoRows == [k \in Reads |-> [rows |-> {}, stale |-> TRUE]]
Library(a) == [i \in Items |-> [played |-> FALSE, fav |-> TRUE, n |-> 0, of |-> a]]
View(a) == [of |-> a, fenced |-> FALSE, target |-> None, shown |-> None,
            error |-> None, libraryFailed |-> FALSE]

Init ==
  /\ \E a \in Accounts : server = Library(a) /\ view = View(a)
  /\ fields = NoEntity /\ rows = NoRows
  /\ coll = [c \in Collections |-> None]
  /\ lanes = [l \in Lanes |-> None] /\ queue = [k \in Kinds |-> None]
  /\ lane = [k \in Reads |-> Idle]
  /\ known = {} /\ todo = {"library"} /\ mutation = NoEntity
  /\ count = 0

Active == ~view.fenced
Event == count < MaxEvents /\ count' = count + 1

(***************************************************************************)
(* Requests and their tokens.                                              *)
(***************************************************************************)
InFlight == ({lanes[l] : l \in Lanes} \cup {queue[k] : k \in Kinds}
              \cup {lane[k].req : k \in Reads}) \ {None}
Revisions == {0} \cup {r.rev : r \in InFlight}
NextRevision == 1 + CHOOSE n \in Revisions : \A m \in Revisions : m <= n

Issue(kind, key) ==
  [kind |-> kind, key |-> key, res |-> TRUE, pres |-> TRUE, sess |-> TRUE,
   rev |-> IF kind \in {"library", "activity"} THEN NextRevision ELSE 0,
   old |-> FALSE, data |-> None]

Each(F(_)) ==
  LET G(r) == IF r = None THEN None ELSE F(r)
  IN  /\ lanes' = [l \in Lanes |-> G(lanes[l])]
      /\ queue' = [k \in Kinds |-> G(queue[k])]
      /\ lane' = [k \in Reads |-> [lane[k] EXCEPT !.req = G(@)]]

Invalid(keys, r) == [r EXCEPT !.res = @ /\ r.key \notin keys]
Demoted(kind, r) == [r EXCEPT !.pres = @ /\ r.kind # kind]
Outrun(rev, r) == [r EXCEPT !.old = @ \/ r.rev \in 1 .. rev - 1]

\* What is left in flight once request q has finished, committed a revision
\* and invalidated keys.
Finished(q, rev, keys) ==
  /\ LET F(r) == IF r = q THEN None ELSE Invalid(keys, Outrun(rev, r)) IN Each(F)
  /\ known' = known \cup keys

Invalidate(keys) == Finished(None, 0, keys)

(***************************************************************************)
(* Navigation: library and collections over two lanes.                     *)
(***************************************************************************)
Least(S) == CHOOSE l \in S : \A m \in S : l <= m
Equivalent(r, key) == r # None /\ r.key = key /\ r.res /\ r.sess
\* Slip: the request that is reused stays behind the presentation.
PromotedSlip(r) == r
Promoted(r) == [r EXCEPT !.pres = TRUE]
Latest(kind, r) == IF r = None THEN None ELSE Demoted(kind, r)

\* A running or queued request for the same resource becomes the latest one;
\* otherwise a new one takes a free lane, or the place of the queued one.
Navigate(kind, key) ==
  LET ls == [l \in Lanes |-> Latest(kind, lanes[l])]
      qs == [k \in Kinds |-> Latest(kind, queue[k])]
      same == {l \in Lanes : Equivalent(lanes[l], key)}
      free == {l \in Lanes : lanes[l] = None}
  IN  IF same # {} THEN lanes' = [ls EXCEPT ![Least(same)] = Promoted(@)] /\ queue' = qs
      ELSE IF Equivalent(queue[kind], key)
           THEN lanes' = ls /\ queue' = [qs EXCEPT ![kind] = Promoted(@)]
      ELSE IF free # {}
           THEN lanes' = [ls EXCEPT ![Least(free)] = Issue(kind, key)] /\ queue' = qs
      ELSE lanes' = ls /\ queue' = [qs EXCEPT ![kind] = Issue(kind, key)]

LibraryAsked ==
  [view EXCEPT !.libraryFailed = @ /\ (\E r \in InFlight : Equivalent(r, "library"))]
LoadLibrary ==
  /\ Navigate("library", "library") /\ view' = LibraryAsked
  /\ UNCHANGED <<coll, lane, known>>

\* A cached collection is shown at once, and fetched again unless it is fresh;
\* another target makes every older collection request stale.
RequestCollection(c, force) ==
  /\ view' = [view EXCEPT !.target = c, !.error = IF @ = c THEN None ELSE @,
                          !.shown = IF coll[c] # None THEN c ELSE @]
  /\ IF coll[c] # None /\ ~coll[c].stale /\ ~force
     THEN LET F(r) == IF view.target = c THEN r ELSE Demoted("collection", r) IN Each(F)
     ELSE Navigate("collection", c) /\ UNCHANGED lane
  /\ coll' = IF force /\ coll[c] # None THEN [coll EXCEPT ![c].stale = TRUE] ELSE coll
  /\ UNCHANGED known

\* A free lane takes the queued collection, then the queued library; a request
\* that is no longer the latest is dropped.
Ready(k) == queue[k] # None /\ queue[k].pres /\ queue[k].sess
PumpQueries ==
  LET free == {l \in Lanes : lanes[l] = None}
      first == IF Ready("collection") THEN "collection" ELSE "library"
      Start(k) == IF Ready(k) THEN queue[k] ELSE None
  IN  IF free = {} THEN UNCHANGED <<lanes, queue>>
      ELSE /\ queue' = [k \in Kinds |-> IF k # first /\ first = "collection" /\ Cardinality(free) = 1
                                        THEN queue[k] ELSE None]
           /\ lanes' = [l \in Lanes |-> IF l = Least(free) THEN Start(first)
                          ELSE IF l \in free /\ first = "collection" THEN Start("library")
                          ELSE lanes[l]]

(***************************************************************************)
(* MediaStore: entities, overlays, rows.                                   *)
(***************************************************************************)
Overlaid(i, k) == mutation[i] # None /\ mutation[i].overlay /\ mutation[i].kind = k
Shown(i, k) == IF Overlaid(i, k) THEN mutation[i].value ELSE fields[i][Op(k)]

Patch(ids, d) ==
  fields' = [i \in Items |-> IF i \in ids THEN d[i] ELSE fields[i]]
Listed(k, d) == {i \in Items : d[i][Op(k)] = (k = "favorites")}

\* A query's rows were replaced: no journal may put a removed row back.
Replaced(k) ==
  mutation' = [i \in Items |-> IF mutation[i] = None \/ mutation[i].kind # k THEN mutation[i]
                               ELSE [mutation[i] EXCEPT !.removed = FALSE]]
SetQuery(k, ids) ==
  /\ rows' = [rows EXCEPT ![k] = [rows |-> ids, stale |-> FALSE]]
  /\ Replaced(k)

(***************************************************************************)
(* Answers of the navigation lanes.                                        *)
(***************************************************************************)
Post(calls) == todo' = todo \cup calls
Failed(r) == r.data = Lost

\* The resource was invalidated while it was read: read it again.
FinishOutdated(r) ==
  /\ ~r.res
  /\ coll' = IF r.kind = "collection" /\ coll[r.key] # None
             THEN [coll EXCEPT ![r.key].stale = TRUE] ELSE coll
  /\ Finished(r, 0, {})
  /\ Post({"pump"} \cup ({r.key} \cap {"library", view.target}))
  /\ UNCHANGED <<view, fields, rows, mutation>>

FinishFailed(r) ==
  /\ r.res /\ Failed(r)
  /\ view' = [view EXCEPT !.libraryFailed = @ \/ (r.kind = "library" /\ r.pres),
                          !.error = IF r.pres /\ r.key = view.target THEN r.key ELSE @]
  /\ Finished(r, 0, {}) /\ Post({"pump"})
  /\ UNCHANGED <<store, mutation>>

\* A library answer also carries the activity rows, which are kept out when a
\* newer activity revision was committed.
FinishLibrary(r) ==
  /\ r.res /\ r.kind = "library" /\ ~Failed(r)
  /\ Patch(Items, r.data)
  /\ IF r.old THEN UNCHANGED <<rows, mutation>>
     ELSE SetQuery("activity", Listed("activity", r.data))
  /\ view' = [view EXCEPT !.libraryFailed = FALSE]
  /\ Finished(r, IF r.old THEN 0 ELSE r.rev, Reads) /\ Post({"pump"})
  /\ UNCHANGED coll

FinishCollection(r) ==
  /\ r.res /\ r.kind = "collection" /\ ~Failed(r)
  /\ Patch(Items, r.data)
  /\ coll' = [coll EXCEPT ![r.key] = [stale |-> FALSE]]
  /\ view' = IF r.pres /\ r.key = view.target
             THEN [view EXCEPT !.shown = r.key, !.error = None] ELSE view
  /\ Finished(r, 0, Reads) /\ Post({"pump"})
  /\ UNCHANGED <<rows, mutation>>

FinishForeign(r) ==
  /\ Finished(r, 0, {}) /\ Post({"pump"})
  /\ UNCHANGED <<view, store, mutation>>

FinishNavigation(l) ==
  /\ lanes[l] # None /\ lanes[l].data # None
  /\ LET r == lanes[l]
     IN  IF Active /\ r.sess
         THEN FinishOutdated(r) \/ FinishFailed(r) \/ FinishLibrary(r) \/ FinishCollection(r)
         ELSE FinishForeign(r)
  /\ UNCHANGED <<server, count>>

(***************************************************************************)
(* Activity and favorites: one request each; a forced one waits behind it. *)
(***************************************************************************)
Again(k) == IF k = "activity" THEN "begin activity" ELSE "begin favorites"

Refreshed(k, force) ==
  IF lane[k].refreshing \/ lane[k].req # None
  THEN [lane[k] EXCEPT !.queued = @ \/ force]
  ELSE [req |-> Issue(k, k), refreshing |-> TRUE, queued |-> FALSE]
Refresh(k, force) ==
  /\ lane' = [lane EXCEPT ![k] = Refreshed(k, force)]
  /\ UNCHANGED <<view, coll, lanes, queue, known>>

\* beginActivityRefresh, posted by a request that has to be read again.
BeginAgain(k) ==
  /\ lane' = IF Active THEN [lane EXCEPT ![k].queued = FALSE, ![k].req = Issue(k, k)]
             ELSE [lane EXCEPT ![k].refreshing = FALSE]
  /\ UNCHANGED <<view, coll, lanes, queue, known>>

\* Slip: a failed answer leaves the lane busy.
EndedSlip(l, again) == [l EXCEPT !.req = None, !.queued = FALSE]
Ended(l, again) == [req |-> None, queued |-> FALSE, refreshing |-> l.refreshing /\ again]

\* A favorites answer that failed counts as failed even when it is outdated.
FinishRefresh(k) ==
  LET r == lane[k].req
      current == Active /\ r.sess
      outdated == current /\ (~r.res \/ r.old) /\ ~(k = "favorites" /\ Failed(r))
      good == current /\ ~outdated /\ ~Failed(r)
      again == Active /\ (lane[k].queued \/ outdated)
      F(x) == IF x = r THEN None ELSE IF good /\ k = "activity" THEN Outrun(r.rev, x) ELSE x
  IN  /\ r # None /\ r.data # None
      /\ lanes' = [l \in Lanes |-> IF lanes[l] = None THEN None ELSE F(lanes[l])]
      /\ queue' = [q \in Kinds |-> IF queue[q] = None THEN None ELSE F(queue[q])]
      /\ lane' = [lane EXCEPT ![k] = Ended(@, again)]
      /\ Post(IF again THEN {Again(k)} ELSE {})
      /\ IF good THEN Patch(Listed(k, r.data), r.data) /\ SetQuery(k, Listed(k, r.data))
         ELSE UNCHANGED <<fields, rows, mutation>>
      /\ UNCHANGED <<server, view, coll, known, count>>

(***************************************************************************)
(* State changes: the journal of MediaStore behind the sink of Media.      *)
(***************************************************************************)
Target == {view.target} \ {None}
Reconcile == {"reconcile"} \cup Target

\* The row leaves the query the change removes it from, and the item shows
\* the requested value until the answer.
BeginMutation(i, k, v) ==
  /\ Active /\ fields[i] # None /\ mutation[i] = None /\ v # fields[i][Op(k)]
  /\ Event
  /\ LET removed == i \in rows[k].rows /\ v = (k = "activity")
     IN  /\ mutation' = [j \in Items |->
              IF j = i THEN [kind |-> k, value |-> v, overlay |-> TRUE, state |-> "sent",
                             removed |-> removed, sess |-> TRUE]
              ELSE IF removed /\ mutation[j] # None /\ mutation[j].kind = k
                   THEN [mutation[j] EXCEPT !.removed = FALSE] ELSE mutation[j]]
         /\ rows' = IF removed THEN [rows EXCEPT ![k].rows = @ \ {i}] ELSE rows
  /\ Invalidate(Reads)
  /\ UNCHANGED <<server, view, fields, coll, todo>>

ServeMutation(i) ==
  /\ mutation[i] # None /\ mutation[i].state = "sent"
  /\ \/ /\ server' = IF ~mutation[i].sess THEN server
                     ELSE [server EXCEPT ![i][Op(mutation[i].kind)] = mutation[i].value,
                                         ![i].n = @ + 1]
        /\ mutation' = [mutation EXCEPT ![i].state = "done"]
        /\ UNCHANGED count
     \/ /\ Event /\ UNCHANGED server
        /\ mutation' = [mutation EXCEPT ![i].state = "failed"]
  /\ UNCHANGED <<view, store, requests, todo>>

RolledBack ==
  LET back == {i \in Items : mutation[i] # None /\ mutation[i].removed}
  IN  [k \in Reads |-> [rows[k] EXCEPT !.rows = @ \cup {i \in back : mutation[i].kind = k}]]
Restored(m, i) == IF m.removed THEN [rows EXCEPT ![m.kind].rows = @ \cup {i}] ELSE rows

\* The overlay becomes the entity's value, then the server's state replaces
\* it; stale marks and a new read of everything that is shown follow.
MutationSucceeds(i, whole) ==
  LET m == mutation[i]
      all == m.kind = "favorites" \/ ~whole
      marked == IF all THEN Reads ELSE {m.kind}
      keys == marked \cup (IF all THEN {"library"} \cup Target
                           ELSE Target)
  IN  /\ m # None /\ m.state = "done" /\ m.sess /\ m.overlay /\ Active
      /\ fields' = [fields EXCEPT ![i] = server[i]]
      /\ rows' = [k \in Reads |-> [rows[k] EXCEPT !.stale = @ \/ k \in marked]]
      /\ coll' = [c \in Collections |-> IF coll[c] = None THEN None
                    ELSE [coll[c] EXCEPT !.stale = @ \/ all \/ c = view.target]]
      /\ mutation' = [mutation EXCEPT ![i] = None]
      /\ Invalidate(keys \cup {"activity"}) /\ Post(Reconcile)
      /\ UNCHANGED <<server, view, count>>

MutationFails(i) ==
  /\ mutation[i] # None /\ mutation[i].state = "failed" /\ mutation[i].overlay /\ Active
  /\ rows' = Restored(mutation[i], i) /\ fields' = fields
  /\ mutation' = [mutation EXCEPT ![i] = None]
  /\ Invalidate({"activity"})
  /\ UNCHANGED <<server, view, coll, todo, count>>

\* The answer to a change that a transition has already rolled back.
MutationSpeculative(i) ==
  /\ mutation[i] # None /\ mutation[i].state \in {"done", "failed"} /\ ~mutation[i].overlay
  /\ Active \/ ~mutation[i].sess
  /\ mutation' = [mutation EXCEPT ![i] = None]
  /\ Post(IF mutation[i].sess THEN Reconcile ELSE {})
  /\ UNCHANGED <<server, view, store, requests, count>>

(***************************************************************************)
(* Posted calls, transitions of the session, restarts.                     *)
(***************************************************************************)
Nothing == UNCHANGED <<view, coll, requests>>

Run(t) ==
  /\ t \in todo /\ todo' = todo \ {t}
  /\ IF t \in {Again("activity"), Again("favorites")}
     THEN BeginAgain(CHOOSE k \in Reads : Again(k) = t)
     ELSE IF ~Active THEN Nothing
     ELSE IF t = "pump" THEN PumpQueries /\ UNCHANGED <<view, coll, lane, known>>
     ELSE IF t = "library" THEN LoadLibrary
     ELSE IF t = "reconcile" THEN
       /\ Navigate("library", "library") /\ view' = LibraryAsked
       /\ lane' = [k \in Reads |-> Refreshed(k, TRUE)]
       /\ UNCHANGED <<coll, known>>
     ELSE RequestCollection(t, FALSE)
  /\ UNCHANGED <<server, fields, rows, mutation, count>>

\* A page opens a collection, refreshes it, or loads a resource again.
Call ==
  /\ Active /\ Event
  /\ \/ \E c \in Collections, force \in BOOLEAN : RequestCollection(c, force)
     \/ view.libraryFailed /\ LoadLibrary
     \/ \E k \in Reads \ {"activity"} : Refresh(k, FALSE)
  /\ UNCHANGED <<server, fields, rows, todo, mutation>>

\* The page's heartbeat: a passive read of rows that are stale or no longer
\* fresh by their age, which is longer than a call to the server takes.
Aged == InFlight = {} /\ mutation = NoEntity /\ todo = {}
Heartbeat ==
  /\ Active /\ (rows["activity"].stale \/ Aged) /\ lane["activity"].req = None /\ ~lane["activity"].refreshing
  /\ Refresh("activity", FALSE)
  /\ UNCHANGED <<server, fields, rows, todo, mutation, count>>

\* The server answers a running request from what it holds, or it fails.
Answered(r) == {[r EXCEPT !.data = server], [r EXCEPT !.data = Lost]}
Serve(old, new) ==
  /\ old # None /\ old.data = None /\ new \in Answered(old)
  /\ IF new.data = Lost THEN Event ELSE UNCHANGED count
  /\ UNCHANGED <<server, view, store, queue, known, todo, mutation>>
ServeNavigation(l) ==
  /\ lanes[l] # None /\ \E r \in Answered(lanes[l]) :
       Serve(lanes[l], r) /\ lanes' = [lanes EXCEPT ![l] = r]
  /\ UNCHANGED lane
ServeRead(k) ==
  /\ lane[k].req # None /\ \E r \in Answered(lane[k].req) :
       Serve(lane[k].req, r) /\ lane' = [lane EXCEPT ![k].req = r]
  /\ UNCHANGED lanes

\* Queued requests are dropped, running ones lose their tokens (a key without
\* a generation keeps its own), and Media rolls its overlays back.
TransitionStarts ==
  /\ Active /\ Event
  /\ view' = [view EXCEPT !.fenced = TRUE]
  /\ queue' = [k \in Kinds |-> None]
  /\ LET F(r) == IF r = None THEN None ELSE [Invalid(known, r) EXCEPT !.pres = FALSE]
     IN  /\ lanes' = [l \in Lanes |-> F(lanes[l])]
         /\ lane' = [k \in Reads |-> [req |-> IF lane[k].req = None THEN None
                                              ELSE Invalid(known, lane[k].req),
                                     refreshing |-> FALSE, queued |-> FALSE]]
  /\ rows' = RolledBack
  /\ mutation' = [i \in Items |-> IF mutation[i] = None THEN None
                     ELSE [mutation[i] EXCEPT !.overlay = FALSE, !.removed = FALSE]]
  /\ fields' = fields
  /\ UNCHANGED <<server, coll, known, todo>>

TransitionAborts ==
  /\ view.fenced /\ server = [i \in Items |-> [server[i] EXCEPT !.of = view.of]]
  /\ view' = [view EXCEPT !.fenced = FALSE]
  /\ LET done == {i \in Items : mutation[i] # None /\ mutation[i].state # "sent"}
     IN  /\ mutation' = [i \in Items |-> IF i \in done THEN None ELSE mutation[i]]
         /\ Post(IF done = {} THEN {} ELSE Reconcile)
  /\ UNCHANGED <<server, store, requests, count>>

\* The backend enters the other account; the commit empties the store and
\* removes the old account's cache.
AccountEntered ==
  /\ view.fenced /\ \A i \in Items : server[i].of = view.of
  /\ \E a \in Accounts \ {view.of} : server' = Library(a)
  /\ UNCHANGED <<view, store, requests, todo, mutation, count>>

\* Slip: the commit keeps the tokens of the old account's requests.
ForeignSlip(r) == r
Foreign(r) == [r EXCEPT !.sess = FALSE, !.pres = FALSE, !.res = FALSE, !.rev = 0, !.old = FALSE]
SessionCommitted ==
  /\ view.fenced /\ \E a \in Accounts \ {view.of} :
       (\A i \in Items : server[i].of = a) /\ view' = View(a)
  /\ fields' = NoEntity /\ rows' = NoRows /\ coll' = [c \in Collections |-> None]
  /\ Each(Foreign)
  /\ mutation' = [i \in Items |-> IF mutation[i] = None THEN None
                                  ELSE [mutation[i] EXCEPT !.sess = FALSE]]
  /\ todo' = (todo \ ({"library", "reconcile"} \cup Collections)) \cup {"library"}
  /\ UNCHANGED <<server, known, count>>

\* The process ends and starts again.  The presentation cache is saved by
\* every handler that changes the store except the begin of a change, so that
\* its rows are those of before or after one.
Restart ==
  /\ Active /\ Event
  /\ view' = View(view.of)
  /\ rows' \in {rows, RolledBack}
  /\ coll' = [c \in Collections |-> None]
  /\ lanes' = [l \in Lanes |-> None] /\ queue' = [k \in Kinds |-> None]
  /\ lane' = [k \in Reads |-> Idle] /\ known' = {} /\ todo' = {"library"}
  /\ mutation' = NoEntity
  /\ UNCHANGED <<server, fields>>

Transition == AccountEntered \/ SessionCommitted \/ TransitionAborts
Served == (\E l \in Lanes : ServeNavigation(l)) \/ (\E k \in Reads : ServeRead(k))
Answer == (\E l \in Lanes : FinishNavigation(l)) \/ (\E k \in Reads : FinishRefresh(k))
AnswerMutation == \E i \in Items :
  \/ ServeMutation(i) \/ MutationFails(i) \/ MutationSpeculative(i)
  \/ \E whole \in BOOLEAN : MutationSucceeds(i, whole)
Posted == \E t \in todo : Run(t)

\* The calls to the server return and the event loop runs.
Progress == Posted \/ Heartbeat \/ Served \/ Answer \/ AnswerMutation \/ Transition

Next ==
  \/ Progress \/ Call \/ TransitionStarts \/ Restart
  \/ \E i \in Items, k \in Reads, v \in BOOLEAN : BeginMutation(i, k, v)

Spec == Init /\ [][Next]_vars /\ WF_vars(Progress)

(***************************************************************************)
(* Properties.                                                             *)
(***************************************************************************)
\* What is shown was read from the committed account, also after a restart
\* and whenever the answers of another account's requests arrive.
ShownIsOfSession ==
  \A i \in Items : Active /\ fields[i] # None => fields[i].of = view.of

\* Once the user's changes and the faults are over, Continue Watching is what
\* the server would list.
ActivityConverges == <>[](rows["activity"].rows = {i \in Items : ~server[i].played})

\* A collection that is being asked for is shown, or its error is, unless
\* another one is asked for or a transition drops the request.
Awaited(c) == Active /\ view.target = c /\ \E r \in InFlight : r.key = c /\ r.pres /\ r.sess
NavigationSettles ==
  \A c \in Collections :
    Awaited(c) ~> (view.target # c \/ view.fenced \/ c \in {view.shown, view.error})

\* What the user waits for comes: Continue Watching converges to the server's
\* list, and a collection that is opened is shown.
CatalogSettles == ActivityConverges /\ NavigationSettles

\* Once a change is settled with the server's own state, no answer that was
\* read before the change puts the old state back.
SettledStateStays ==
  [][\A i \in Items :
       mutation[i] = None /\ fields[i] # None /\ fields'[i] # None
         /\ fields'[i].of = fields[i].of => fields'[i].n >= fields[i].n]_vars
=============================================================================
