----------------------------- MODULE ImageLoads -----------------------------
(***************************************************************************)
(* One picture of one item, from the change of it on the server to the     *)
(* pixels on the page: the downloads the application schedules             *)
(* (images.rs), the names that tell the generations of a changed picture   *)
(* apart (image_actions.rs), and the loads the page's responses share      *)
(* (AsyncImageProvider.cpp).  A version stands for the picture's bytes.    *)
(***************************************************************************)
EXTENDS Naturals, FiniteSets

CONSTANTS Responses,  \* requests of the page
          MaxChanges, \* bound: changes of the picture
          None, Asked,   \* a download: there is none, it has no bytes yet
          Empty, Failed  \* a load: given up unread, no picture

ImageAssumption ==
  /\ MaxChanges \in Nat /\ {None, Asked, Empty, Failed} \cap Nat = {}
  /\ None \notin Responses /\ None # Asked /\ Empty \notin {None, Failed}

VARIABLES server,   \* the version the server holds
          changing, \* the change: "no", "changed" there, "cancelled" its tasks
          acked,    \* the version of the last change that was reported done
          gen,      \* image_mutation_generations of the picture
          planned,  \* the names the pages hold, with the version they are owed
          file,     \* the cache: name -> version
          fetch,    \* image_downloads: name -> None, Asked or the bytes got
          joined,   \* m_loads: name -> the load that may be shared
          loads,    \* shared loads, named by the response that started them
          response, \* the responses
          down      \* shutdownRequested

imageVars == <<server, changing, acked, gen, planned, file, fetch, joined,
               loads, response, down>>
change == <<server, changing, acked, gen>>
page == <<joined, loads, response>>

Names == 0 .. MaxChanges

Init ==
  /\ server = 0 /\ changing = "no" /\ acked = 0 /\ gen = 0 /\ planned = {}
  /\ file = [n \in Names |-> None] /\ fetch = [n \in Names |-> None]
  /\ joined = [n \in Names |-> None]
  /\ loads = [r \in Responses |-> [name |-> 0, consumers |-> 0, at |-> "none", result |-> None]]
  /\ response = [r \in Responses |->
                   [load |-> None, owed |-> 0, at |-> "none", held |-> FALSE, got |-> None]]
  /\ down = FALSE

(***************************************************************************)
(* The application: changes, names, downloads, the cache.                  *)
(***************************************************************************)
\* image_apply, image_upload, image_delete: the server first, ...
Change ==
  /\ changing = "no" /\ server < MaxChanges
  /\ server' = server + 1 /\ changing' = "changed"
  /\ UNCHANGED <<acked, gen, planned, file, fetch, page, down>>
CancelTasks ==
  /\ changing = "changed" /\ changing' = "cancelled"
  /\ fetch' = [n \in Names |-> None]
  /\ UNCHANGED <<server, acked, gen, planned, file, page, down>>
\* ... then the next generation of the name.
Acknowledge ==
  /\ changing = "cancelled" /\ changing' = "no"
  /\ gen' = gen + 1 /\ acked' = server
  /\ UNCHANGED <<server, planned, file, fetch, page, down>>

\* plan_cached_images, planned_image_urls: the page gets the current name.
Plan ==
  /\ planned' = planned \cup {[name |-> gen, owed |-> acked]}
  /\ UNCHANGED <<change, file, fetch, page, down>>

\* The file may have appeared after the check that it is missing, so a
\* download is only kept out by one of the same name that runs.
Schedule(n) ==
  /\ \E p \in planned : p.name = n
  /\ fetch[n] = None /\ fetch' = [fetch EXCEPT ![n] = Asked]
  /\ UNCHANGED <<change, planned, file, page, down>>
Fetched(n) ==
  /\ fetch[n] = Asked
  /\ \E got \in {None, server} : fetch' = [fetch EXCEPT ![n] = got]
  /\ UNCHANGED <<change, planned, file, page, down>>
\* The bytes appear whole, and never replace a file.
Write(n) ==
  /\ fetch[n] \notin {None, Asked} /\ fetch' = [fetch EXCEPT ![n] = None]
  /\ file' = [file EXCEPT ![n] = IF @ = None THEN fetch[n] ELSE @]
  /\ UNCHANGED <<change, planned, page, down>>

\* A session transition cancels every task; old files are pruned.
CancelBackgroundTasks ==
  /\ fetch' = [n \in Names |-> None]
  /\ UNCHANGED <<change, planned, file, page, down>>
Prune(n) ==
  /\ file[n] # None /\ file' = [file EXCEPT ![n] = None]
  /\ UNCHANGED <<change, planned, fetch, page, down>>

(***************************************************************************)
(* The image provider.                                                     *)
(***************************************************************************)
\* Slip: a load nobody waits for any more is joined.
JoinableSlip(l) == l # None /\ loads[l].at # "none"
Joinable(l) == l # None /\ loads[l].consumers > 0

Acquire(r, p) ==
  /\ response[r].at = "none" /\ ~down
  /\ LET l == IF Joinable(joined[p.name]) THEN joined[p.name] ELSE r
     IN  /\ response' = [response EXCEPT ![r] =
                           [load |-> l, owed |-> p.owed, at |-> "open", held |-> TRUE, got |-> None]]
         /\ joined' = [joined EXCEPT ![p.name] = l]
         /\ loads' = IF l = r
                     THEN [loads EXCEPT ![r] =
                             [name |-> p.name, consumers |-> 1, at |-> "waiting", result |-> None]]
                     ELSE [loads EXCEPT ![l].consumers = @ + 1]
  /\ UNCHANGED <<change, planned, file, fetch, down>>

\* releaseConsumer counts a response out once.
Released(r) ==
  IF response[r].held THEN [loads EXCEPT ![response[r].load].consumers = @ - 1] ELSE loads

Cancel(r) ==
  /\ response[r].at = "open"
  /\ response' = [response EXCEPT ![r].at = "cancelled", ![r].held = FALSE]
  /\ loads' = Released(r)
  /\ UNCHANGED <<change, planned, file, fetch, joined, down>>

Done(l, result) == loads' = [loads EXCEPT ![l].at = "done", ![l].result = result]
Abandoned(l) == down \/ loads[l].consumers = 0

\* loadImage looks for the file until it gives up, and reads it.
Poll(l) ==
  /\ loads[l].at = "waiting"
  /\ IF Abandoned(l) THEN Done(l, Empty)
     ELSE IF file[loads[l].name] # None THEN loads' = [loads EXCEPT ![l].at = "found"]
     ELSE Done(l, Failed)
  /\ UNCHANGED <<change, planned, file, fetch, joined, response, down>>
Read(l) ==
  /\ loads[l].at = "found"
  /\ IF Abandoned(l) THEN Done(l, Empty)
     ELSE Done(l, IF file[loads[l].name] = None THEN Failed ELSE file[loads[l].name])
  /\ UNCHANGED <<change, planned, file, fetch, joined, response, down>>

\* Slip: a cancelled response is not told that the load is done.
AwaitingSlip == {"open"}
Awaiting == {"open", "cancelled"}

Finished(r) ==
  /\ response[r].at \in Awaiting
  /\ LET l == response[r].load IN
     /\ loads[l].at = "done"
     /\ response' = [response EXCEPT ![r] =
          [@ EXCEPT !.at = "finished", !.held = FALSE,
                    !.got = IF response[r].at = "open" THEN loads[l].result ELSE None]]
  /\ loads' = Released(r)
  /\ UNCHANGED <<change, planned, file, fetch, joined, down>>

\* The provider is destroyed and waits for its workers.
Destroy == ~down /\ down' = TRUE /\ UNCHANGED <<change, planned, file, fetch, page>>

Progress == \E r \in Responses : Poll(r) \/ Read(r) \/ Finished(r)
Next ==
  \/ Progress \/ Change \/ CancelTasks \/ Acknowledge \/ Plan
  \/ CancelBackgroundTasks \/ Destroy
  \/ \E n \in Names : Schedule(n) \/ Fetched(n) \/ Write(n) \/ Prune(n)
  \/ \E r \in Responses : Cancel(r) \/ \E p \in planned : Acquire(r, p)

Fairness == WF_imageVars(Progress)
Spec == Init /\ [][Next]_imageVars /\ Fairness

(***************************************************************************)
(* Properties.                                                             *)
(***************************************************************************)
\* A response that was not cancelled gets the result of a load that tried,
\* however the responses that share the load come and go; and what it shows is
\* not older than the change that was done when its name was given.
ResponsesAreServed ==
  \A r \in Responses :
    response[r].at = "finished" =>
      /\ response[r].got = Empty => down
      /\ response[r].got \notin {None, Empty, Failed} => response[r].got >= response[r].owed

\* Every response ends, the cancelled ones too.
ResponsesEnd ==
  <>[](\A r \in Responses : response[r].at \notin {"open", "cancelled"})
=============================================================================
