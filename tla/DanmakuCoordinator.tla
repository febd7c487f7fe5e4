------------------------- MODULE DanmakuCoordinator -------------------------
(***************************************************************************)
(* Danmaku searches and danmaku changes of media items                     *)
(* (DanmakuCoordinator.cpp): a latest-wins search lane, a bounded queue of *)
(* changes (automatic loads and applied matches), searches that wait for   *)
(* the changes of their item, and the lane of the credentials.             *)
(***************************************************************************)
EXTENDS Naturals, Sequences, SequencesExt

CONSTANTS Media,       \* media items
          MaxRequests, \* bound: requests of the pages
          MaxSessions, \* bound: sessions that are committed
          MaxPending   \* maximumPendingMutations

DanmakuAssumption == {MaxRequests, MaxSessions, MaxPending} \subseteq Nat

Ids == 1 .. MaxRequests
Gone == [op |-> "none", item |-> 0, gen |-> 0]

VARIABLES requests,  \* what a page asked for, by identity
          answers,   \* how often a request was answered, and completed
          searching, waiting, \* m_activeSearch, m_queuedSearch: identities or 0
          worker,    \* the search future: "idle", "running", "ended" unseen
          changing, changes,  \* m_activeMutation, m_mutationQueue
          configuring, \* m_activeConfiguration
          pumps,     \* posted pumps
          phase,     \* the session's generation, its fence, shutdown
          next       \* the next identity

danmakuVars == <<requests, answers, searching, waiting, worker, changing, changes,
                 configuring, pumps, phase, next>>
searchLane == <<searching, waiting, worker>>
changeLane == <<changing, changes>>

Init ==
  /\ requests = [i \in Ids |-> Gone]
  /\ answers = [i \in Ids |-> [all |-> 0, completed |-> 0]]
  /\ searching = 0 /\ waiting = 0 /\ worker = "idle"
  /\ changing = 0 /\ changes = <<>> /\ configuring = 0 /\ pumps = {}
  /\ phase = [gen |-> 0, fenced |-> FALSE, down |-> FALSE] /\ next = 1

Available == ~phase.fenced /\ ~phase.down
Latest == CHOOSE i \in Ids \cup {0} :
            /\ i = 0 \/ requests[i].op = "search"
            /\ \A j \in Ids : requests[j].op = "search" => j <= i
Accepts(i) == Available /\ requests[i].gen = phase.gen
Pending(item) == \E i \in {changing} \cup ToSet(changes) : i # 0 /\ requests[i].item = item

\* failOperation and completeOperation tell a page once.
Told(as, ids, ok) ==
  [i \in Ids |-> IF i \in ids /\ as[i].all = 0
                 THEN [all |-> 1, completed |-> IF ok THEN 1 ELSE 0] ELSE as[i]]
Failed(ids) == Told(answers, ids, FALSE)

Submitted(op, item) ==
  /\ next \in Ids /\ next' = next + 1
  /\ requests' = [requests EXCEPT ![next] = [op |-> op, item |-> item, gen |-> phase.gen]]
Rejected(op, item) ==
  /\ Submitted(op, item) /\ answers' = Failed({next})
  /\ UNCHANGED <<searchLane, changeLane, configuring, pumps, phase>>

(***************************************************************************)
(* Searches.                                                               *)
(***************************************************************************)
\* Slip: a search does not wait for the changes of its item.
MustWaitSlip(item) == searching # 0 \/ worker = "running"
MustWait(item) == searching # 0 \/ worker = "running" \/ Pending(item)

SubmitSearch(item) ==
  /\ Available /\ Submitted("search", item)
  /\ answers' = Failed({searching, waiting} \ {0})
  /\ IF MustWait(item) THEN searching' = 0 /\ waiting' = next /\ UNCHANGED worker
     ELSE searching' = next /\ waiting' = 0 /\ worker' = "running"
  /\ UNCHANGED <<changeLane, configuring, pumps, phase>>

\* Slip: the search that waits is not looked at again.
AfterSearchSlip == {}
AfterSearch == {"search"}

\* An answered search keeps its place until its worker ends.
FinishSearch ==
  /\ worker = "ended" /\ worker' = "idle" /\ searching' = 0
  /\ answers' \in IF searching = 0 THEN {answers}
                  ELSE IF searching # Latest \/ ~Accepts(searching) THEN {Failed({searching})}
                  ELSE {Told(answers, {searching}, ok) : ok \in BOOLEAN}
  /\ pumps' = pumps \cup AfterSearch
  /\ UNCHANGED <<requests, waiting, changeLane, configuring, phase, next>>

\* pumpSearch, with the changes c waiting or running.
Startable(ids) ==
  /\ ~phase.down /\ searching = 0 /\ worker # "running" /\ waiting # 0
  /\ \A i \in ids : requests[i].item # requests[waiting].item
PumpSearch(ids) ==
  IF ~Startable(ids) THEN UNCHANGED <<searchLane, answers>>
  ELSE /\ waiting' = 0
       /\ IF waiting # Latest \/ ~Accepts(waiting)
          THEN answers' = Failed({waiting}) /\ UNCHANGED <<searching, worker>>
          ELSE searching' = waiting /\ worker' = "running" /\ UNCHANGED answers

(***************************************************************************)
(* Changes.                                                                *)
(***************************************************************************)
\* A change outdates the searches of its item, and starts when none runs.
SubmitChange(item) ==
  /\ Available /\ Len(changes) + (IF changing = 0 THEN 0 ELSE 1) < MaxPending
  /\ Submitted("change", item)
  /\ LET old == {i \in {searching, waiting} \ {0} : requests[i].item = item}
     IN  /\ answers' = Failed(old)
         /\ waiting' = IF waiting \in old THEN 0 ELSE waiting
  /\ LET q == Append(changes, next)
     IN  IF changing = 0 THEN changing' = Head(q) /\ changes' = Tail(q)
         ELSE changes' = q /\ UNCHANGED changing
  /\ UNCHANGED <<searching, worker, configuring, pumps, phase>>

Refused(op, item) ==
  /\ \/ ~Available
     \/ op = "change" /\ Len(changes) + (IF changing = 0 THEN 0 ELSE 1) >= MaxPending
  /\ Rejected(op, item)

FinishChange ==
  /\ changing # 0 /\ changing' = 0
  /\ answers' \in IF Accepts(changing) THEN {Told(answers, {changing}, ok) : ok \in BOOLEAN}
                  ELSE {Failed({changing})}
  /\ pumps' = pumps \cup {"change", "search"}
  /\ UNCHANGED <<requests, searchLane, changes, configuring, phase, next>>

\* pumpMutation drops what another session left and starts the next.
PumpChange ==
  IF phase.down \/ changing # 0 THEN UNCHANGED <<changeLane, searchLane, answers>>
  ELSE LET live == {k \in 1 .. Len(changes) : Accepts(changes[k])}
           upTo == IF live = {} THEN Len(changes) ELSE Min(live)
           head == IF live = {} THEN 0 ELSE changes[upTo]
       IN  /\ changing' = head
           /\ changes' = SubSeq(changes, upTo + 1, Len(changes))
           /\ IF upTo = 0 THEN PumpSearch({})
              ELSE answers' = Failed(ToSet(SubSeq(changes, 1, upTo)) \ {head})
                   /\ UNCHANGED searchLane

Pump ==
  \E p \in pumps :
    /\ pumps' = pumps \ {p}
    /\ IF p = "change" THEN PumpChange
       ELSE PumpSearch(({changing} \cup ToSet(changes)) \ {0}) /\ UNCHANGED changeLane
    /\ UNCHANGED <<requests, configuring, phase, next>>

(***************************************************************************)
(* Credentials, the session, the backend.                                  *)
(***************************************************************************)
\* One configuration at a time, whatever the session does.
ConfigurationBusy == configuring # 0 /\ answers[configuring].all = 0
Configure ==
  /\ Submitted("configure", 0)
  /\ IF phase.down \/ ConfigurationBusy
     THEN answers' = Failed({next}) /\ UNCHANGED configuring
     ELSE configuring' = next /\ UNCHANGED answers
  /\ UNCHANGED <<searchLane, changeLane, pumps, phase>>

FinishConfiguration ==
  /\ configuring # 0 /\ configuring' = 0
  /\ \E ok \in BOOLEAN : answers' = Told(answers, {configuring}, ok)
  /\ UNCHANGED <<requests, searchLane, changeLane, pumps, phase, next>>

Fenced == ({searching, waiting, changing} \cup ToSet(changes)) \ {0}

TransitionStarted ==
  /\ Available /\ phase' = [phase EXCEPT !.fenced = TRUE]
  /\ answers' = Failed(Fenced)
  /\ waiting' = 0 /\ changes' = <<>>
  /\ UNCHANGED <<requests, searching, worker, changing, configuring, pumps, next>>

\* The transition ends, with a new session or with the old one.
TransitionEnded ==
  /\ phase.fenced /\ ~phase.down
  /\ \E n \in {phase.gen, phase.gen + 1} \cap 0 .. MaxSessions : phase' = [phase EXCEPT !.fenced = FALSE, !.gen = n]
  /\ UNCHANGED <<requests, answers, searchLane, changeLane, configuring, pumps, next>>

Shutdown ==
  /\ ~phase.down /\ phase' = [phase EXCEPT !.fenced = TRUE, !.down = TRUE]
  /\ answers' = Failed(Fenced \cup ({configuring} \ {0}))
  /\ waiting' = 0 /\ changes' = <<>>
  /\ UNCHANGED <<requests, searching, worker, changing, configuring, pumps, next>>

SearchEnds ==
  /\ worker = "running" /\ worker' = "ended"
  /\ UNCHANGED <<requests, answers, searching, waiting, changeLane, configuring, pumps, phase, next>>

Progress == SearchEnds \/ FinishSearch \/ FinishChange \/ Pump \/ FinishConfiguration
Next ==
  \/ Progress \/ Configure
  \/ \E item \in Media : SubmitSearch(item) \/ SubmitChange(item)
                         \/ \E op \in {"search", "change"} : Refused(op, item)
  \/ TransitionStarted \/ TransitionEnded \/ Shutdown

Fairness == WF_danmakuVars(Progress)
Spec == Init /\ [][Next]_danmakuVars /\ Fairness

(***************************************************************************)
(* Properties.                                                             *)
(***************************************************************************)
\* A search completes only between the changes of its item: it never shows
\* what was found before one that is still under way.
SearchesAvoidChanges ==
  [][\A i \in Ids : requests[i].op = "search" /\ answers'[i].completed > answers[i].completed
       => ~Pending(requests[i].item) /\ requests[i].gen = phase.gen]_danmakuVars

\* Every request is answered once, across superseding, fences and shutdown.
DanmakuAnswered == <>[](\A i \in Ids : requests[i].op # "none" => answers[i].all = 1)
=============================================================================
