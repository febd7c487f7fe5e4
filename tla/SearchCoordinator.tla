------------------------- MODULE SearchCoordinator -------------------------
(***************************************************************************)
(* The search of the catalog as the user types (SearchCoordinator.cpp):    *)
(* one search call and one queued behind it, the cheap status poll that    *)
(* repeats a search when the catalog moved, and the delayed request for    *)
(* the images of the rows.  Generations are compared for equality only, so *)
(* a request carries whether it is still the current one.                  *)
(***************************************************************************)
EXTENDS Naturals

CONSTANTS Queries,    \* what the user types
          Blank,      \* the empty query
          None,
          Lost,       \* the answer of a failed call
          MaxEvents   \* bound: inputs, revisions, failures and transitions

SearchAssumption ==
  /\ Blank \in Queries /\ {None, Lost} \cap Queries = {} /\ MaxEvents \in Nat

VARIABLES catalog,   \* the backend: committed account and catalog revision
          session,   \* "open", "closed" without an account, "down", or in a
                     \* transition from there: "fenced", "entering"
          asked,     \* the query asked for last
          published, \* the query, revision and account of the rows, or None
          failed,    \* an error is shown
          active, queued,    \* search requests
          poll,              \* the status request
          delayed, hydrating, \* image requests
          delay,     \* the hydration delay is running
          events     \* what the bound counts

searchVars == <<catalog, session, asked, published, failed, active, queued,
                poll, delayed, hydrating, delay, events>>
images == <<delayed, hydrating, delay>>

Init ==
  /\ catalog = [of |-> 0, rev |-> 0] /\ session = "open" /\ asked = Blank
  /\ published = None /\ failed = FALSE
  /\ active = None /\ queued = None /\ poll = None
  /\ delayed = None /\ hydrating = None /\ delay = FALSE /\ events = 0

Event == events < MaxEvents /\ events' = events + 1
Open == session = "open"
Current(r) == r # None /\ r.current
Accepts(r) == Open /\ Current(r)

Request(q) == [q |-> q, current |-> TRUE, data |-> None]
\* Slip: the generation is not raised.
OutdatedSlip(r) == r
Outdated(r) == IF r = None THEN None ELSE [r EXCEPT !.current = FALSE]

CancelDelayed == delayed' = None /\ delay' = FALSE
RaiseGeneration == poll' = Outdated(poll) /\ hydrating' = Outdated(hydrating)

(***************************************************************************)
(* Searches: the newest waits for the one that runs.                       *)
(***************************************************************************)
Enqueue(q, clear) ==
  /\ CancelDelayed /\ RaiseGeneration
  /\ asked' = q /\ failed' = FALSE
  /\ published' = IF clear /\ q = Blank THEN None ELSE published
  /\ IF active # None THEN active' = Outdated(active) /\ queued' = Request(q)
     ELSE active' = Request(q) /\ queued' = None

RequestSearch(q) ==
  /\ Event
  /\ \/ Open /\ Enqueue(q, TRUE)
     \/ /\ ~Open /\ CancelDelayed /\ failed' = (failed \/ q # Blank)
        /\ UNCHANGED <<asked, published, active, queued, poll, hydrating>>
  /\ UNCHANGED <<catalog, session>>

\* A key was pressed: what is under way will not be shown.
InputPending ==
  /\ Event
  /\ \E r \in {active, queued, poll, delayed, hydrating} : Current(r)
  /\ queued' = None /\ active' = Outdated(active)
  /\ CancelDelayed /\ RaiseGeneration
  /\ UNCHANGED <<catalog, session, asked, published, failed>>

\* The page's timer: a query that has no rows yet is asked for again,
\* otherwise the catalog's status is.
Refresh ==
  /\ Open /\ asked # Blank /\ poll = None
  /\ ~Current(active) /\ ~Current(queued)
  /\ IF published = None \/ published.q # asked THEN Enqueue(asked, FALSE)
     ELSE /\ poll' = [q |-> asked, rev |-> published.rev, current |-> TRUE, data |-> None]
          /\ UNCHANGED <<asked, published, failed, active, queued, images>>
  /\ UNCHANGED <<catalog, session, events>>

\* The rows of an accepted answer are shown and their images asked for later;
\* a failed one leaves only the rows of its own query.
Apply(r) ==
  /\ published' = IF r.data # Lost
                  THEN [q |-> r.q, rev |-> r.data.rev, of |-> r.data.of]
                  ELSE IF published # None /\ published.q = r.q THEN published ELSE None
  /\ failed' = (r.data = Lost)
  /\ IF r.data # Lost /\ r.q # Blank
     THEN \/ delayed' = [q |-> r.q, current |-> TRUE, data |-> r.data] /\ delay' = TRUE
          \/ CancelDelayed  \* no row has an image
     ELSE IF r.data # Lost THEN CancelDelayed ELSE UNCHANGED <<delayed, delay>>

Finish ==
  /\ active # None /\ active.data # None
  /\ IF Accepts(active) THEN Apply(active)
     ELSE UNCHANGED <<published, failed, delayed, delay>>
  /\ active' = IF Open THEN queued ELSE None
  /\ queued' = None
  /\ UNCHANGED <<catalog, session, asked, poll, hydrating, events>>

(***************************************************************************)
(* Status polls.                                                           *)
(***************************************************************************)
AcceptsPoll ==
  /\ Accepts(poll) /\ poll.q = asked
  /\ published # None /\ published.q = poll.q /\ published.rev = poll.rev

\* Slip: the revision the poll was asked for is not the one compared.
MovedSlip == poll.data # Lost /\ published.rev > poll.rev
Moved == poll.data # Lost /\ poll.data.rev # poll.rev

\* Only a revision that moved disturbs what is shown.
FinishPoll ==
  /\ poll # None /\ poll.data # None
  /\ IF AcceptsPoll /\ Moved
     THEN /\ CancelDelayed /\ failed' = FALSE
          /\ hydrating' = Outdated(hydrating)
          /\ IF active # None THEN active' = Outdated(active) /\ queued' = Request(poll.q)
             ELSE active' = Request(poll.q) /\ queued' = None
     ELSE UNCHANGED <<failed, active, queued, images>>
  /\ poll' = None
  /\ UNCHANGED <<catalog, session, asked, published, events>>

(***************************************************************************)
(* Images of the rows, asked for after a delay, one request at a time.     *)
(***************************************************************************)
Startable(r) == Accepts(r) /\ published # None /\ published.q = r.q

StartHydration ==
  /\ hydrating' = IF Startable(delayed) THEN delayed ELSE None
  /\ delayed' = None

DelayElapsed ==
  /\ delay /\ delay' = FALSE
  /\ IF delayed # None /\ hydrating = None THEN StartHydration
     ELSE UNCHANGED <<delayed, hydrating>>
  /\ UNCHANGED <<catalog, session, asked, published, failed, active, queued, poll, events>>

FinishHydration ==
  /\ hydrating # None
  /\ IF delayed # None /\ ~delay THEN StartHydration
     ELSE hydrating' = None /\ UNCHANGED delayed
  /\ UNCHANGED <<catalog, session, asked, published, failed, active, queued, poll, delay, events>>

(***************************************************************************)
(* The session and the backend.                                            *)
(***************************************************************************)
Stop(to) ==
  /\ session' = to
  /\ queued' = None /\ active' = Outdated(active)
  /\ CancelDelayed /\ RaiseGeneration

TransitionStarted ==
  /\ Event /\ session \in {"open", "closed"}
  /\ Stop(IF Open THEN "fenced" ELSE "entering")
  /\ UNCHANGED <<catalog, asked, published, failed>>
Shutdown == Event /\ session # "down" /\ Stop("down")
            /\ UNCHANGED <<catalog, asked, published, failed>>

\* The transition failed: the last query is asked again.
TransitionAborted ==
  /\ \/ session = "fenced" /\ session' = "open" /\ Enqueue(asked, FALSE)
     \/ /\ session = "entering" /\ session' = "closed"
        /\ UNCHANGED <<asked, published, failed, active, queued, poll, images>>
  /\ UNCHANGED <<catalog, events>>

SessionCommitted ==
  /\ session \in {"fenced", "entering"}
  /\ \E to \in {"open", "closed"} : Stop(to)
  /\ catalog' = [of |-> catalog.of + 1, rev |-> 0]
  /\ asked' = Blank /\ published' = None /\ failed' = FALSE
  /\ UNCHANGED events

CatalogMoves ==
  /\ Event /\ catalog' = [catalog EXCEPT !.rev = @ + 1]
  /\ UNCHANGED <<session, asked, published, failed, active, queued, poll, images>>

Answers(r) == {[r EXCEPT !.data = catalog], [r EXCEPT !.data = Lost]}
Served(r, to) ==
  /\ r # None /\ r.data = None /\ to \in Answers(r)
  /\ IF to.data = Lost THEN Event ELSE UNCHANGED events
  /\ UNCHANGED <<catalog, session, asked, published, failed, queued, images>>
Serve ==
  \/ active # None /\ UNCHANGED poll
       /\ \E r \in Answers(active) : Served(active, r) /\ active' = r
  \/ poll # None /\ UNCHANGED active
       /\ \E r \in Answers(poll) : Served(poll, r) /\ poll' = r

Hydrate == DelayElapsed \/ FinishHydration
Progress == Refresh \/ Serve \/ Finish \/ FinishPoll
            \/ TransitionAborted \/ SessionCommitted

Next ==
  \/ Progress \/ Hydrate
  \/ \E q \in Queries : RequestSearch(q)
  \/ InputPending \/ CatalogMoves \/ TransitionStarted \/ Shutdown

Fairness == WF_searchVars(Progress) /\ WF_searchVars(Hydrate)
Spec == Init /\ [][Next]_searchVars /\ Fairness

(***************************************************************************)
(* Properties.                                                             *)
(***************************************************************************)
\* Rows that appear are the answer to the query asked last, of the account
\* that is committed, and never older than the rows they replace.
PublishedIsAsked ==
  [][published' # None /\ published' # published =>
       /\ published'.q = asked /\ published'.of = catalog.of
       /\ published # None /\ published.q = asked => published'.rev >= published.rev]_searchVars

\* Once the user and the catalog are quiet, the rows are the catalog's answer
\* to the last query.
SearchConverges ==
  <>[](Open /\ asked # Blank => published = [q |-> asked, rev |-> catalog.rev, of |-> catalog.of])
=============================================================================
