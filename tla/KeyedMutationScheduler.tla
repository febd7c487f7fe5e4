----------------------- MODULE KeyedMutationScheduler -----------------------
(***************************************************************************)
(* native/KeyedMutationScheduler.hpp: the scheduling primitive behind the    *)
(* media mutations.  Its owner lives on the event loop and calls it          *)
(* serially; the two calls that loop over keys, takeReady and takeQueuedIf,   *)
(* are modelled one iteration per step, and no other call starts until the    *)
(* running one has returned (pc).                                            *)
(***************************************************************************)
EXTENDS Naturals, Sequences, FiniteSets

CONSTANTS Keys,           \* item identifiers; the empty key is refused by enqueue
          Requests,       \* payloads the compatibility test tells apart
          MaxActiveKeys,  \* m_maxActiveKeys
          Compatible,     \* m_compatibility as a set of pairs
          None,           \* no entry in m_active, no key under the cursor
          QueueBound      \* bound on the queue of each key

(* What holds of the constants, assumed where they get their values. *)
SchedulerAssumption ==
  /\ MaxActiveKeys \in Nat \ {0}
  /\ QueueBound \in [Keys -> Nat]
  /\ None \notin Requests
  /\ None \notin Keys
  /\ Compatible \subseteq Requests \X Requests

VARIABLES queues,         \* m_queues: an absent entry is the empty queue
          active,         \* m_active
          ready,          \* m_readyKeys
          pc,             \* the call that is running, "idle" between calls
          remaining,      \* takeReady: candidatesRemaining
          discard,        \* takeQueuedIf: requests the predicate selects
          cursor,         \* takeQueuedIf: the key whose queue is being filtered
          retained,       \* takeQueuedIf: retained
          kept,           \* takeQueuedIf: readyKeys
          unfiltered      \* takeQueuedIf: active keys the second loop has left
calls == <<pc, remaining, discard, cursor, retained, kept, unfiltered>>
vars  == <<queues, active, ready, pc, remaining, discard, cursor, retained,
           kept, unfiltered>>

ActiveKeys == {k \in Keys : active[k] # None}

Agrees(r, s) == <<r, s>> \in Compatible /\ <<s, r>> \in Compatible

(* std::all_of over m_active *)
AgreesWithActive(r) == \A j \in ActiveKeys : Agrees(r, active[j])

Init == /\ queues = [k \in Keys |-> <<>>]
        /\ active = [k \in Keys |-> None]
        /\ ready = <<>>
        /\ pc = "idle"
        /\ remaining = 0
        /\ discard = {}
        /\ cursor = None
        /\ retained = <<>>
        /\ kept = <<>>
        /\ unfiltered = {}
-----------------------------------------------------------------------------

Enqueue(k, r) ==
  /\ pc = "idle"
  /\ Len(queues[k]) < QueueBound[k]
  /\ queues' = [queues EXCEPT ![k] = Append(@, r)]
  /\ ready' = IF queues[k] = <<>> /\ active[k] = None THEN Append(ready, k)
                                                      ELSE ready
  /\ UNCHANGED <<active, calls>>

(* Slip: the key with more waiting requests is not listed again. *)
CompleteForgetsKey(k) ==
  /\ pc = "idle"
  /\ active[k] # None
  /\ active' = [active EXCEPT ![k] = None]
  /\ UNCHANGED <<queues, ready, calls>>

Complete(k) ==
  /\ pc = "idle"
  /\ active[k] # None
  /\ active' = [active EXCEPT ![k] = None]
  /\ ready' = IF queues[k] # <<>> THEN Append(ready, k) ELSE ready
  /\ UNCHANGED <<queues, calls>>

TakeQueued ==
  /\ pc = "idle"
  /\ queues' = [k \in Keys |-> <<>>]
  /\ ready' = <<>>
  /\ UNCHANGED <<active, calls>>
-----------------------------------------------------------------------------

(* takeReady: at most one look at each key that was ready at the call. *)
TakeReady ==
  /\ pc = "idle"
  /\ pc' = "takeReady"
  /\ remaining' = Len(ready)
  /\ UNCHANGED <<queues, active, ready, discard, cursor, retained, kept, unfiltered>>

ScanGoesOn == /\ Cardinality(ActiveKeys) < MaxActiveKeys
              /\ ready # <<>>
              /\ remaining > 0

(* The key at the head of the ready list: skipped for good when it is active *)
(* or has no queue, put back at the end when its oldest request may not run   *)
(* beside the active ones, started otherwise.                               *)
ScanKey ==
  /\ pc = "takeReady"
  /\ ScanGoesOn
  /\ remaining' = remaining - 1
  /\ LET k == Head(ready) IN
     \/ /\ active[k] # None \/ queues[k] = <<>>
        /\ ready' = Tail(ready)
        /\ UNCHANGED <<queues, active>>
     \/ /\ active[k] = None /\ queues[k] # <<>>
        /\ ~ AgreesWithActive(Head(queues[k]))
        /\ ready' = Append(Tail(ready), k)
        /\ UNCHANGED <<queues, active>>
     \/ /\ active[k] = None /\ queues[k] # <<>>
        /\ AgreesWithActive(Head(queues[k]))
        /\ ready' = Tail(ready)
        /\ active' = [active EXCEPT ![k] = Head(queues[k])]
        /\ queues' = [queues EXCEPT ![k] = Tail(@)]
  /\ UNCHANGED <<pc, discard, cursor, retained, kept, unfiltered>>

ScanReturn ==
  /\ pc = "takeReady"
  /\ ~ ScanGoesOn
  /\ pc' = "idle"
  /\ UNCHANGED <<queues, active, ready, remaining, discard, cursor, retained,
                 kept, unfiltered>>
-----------------------------------------------------------------------------
(* takeQueuedIf: first the queues of the ready keys, then the queues behind   *)
(* active keys; an emptied queue loses its entry and its ready key.          *)
TakeQueuedIf(D) ==
  /\ pc = "idle"
  /\ pc' = "filterReady"
  /\ discard' = D
  /\ kept' = <<>>
  /\ UNCHANGED <<queues, active, ready, remaining, cursor, retained, unfiltered>>

FilterNextReady ==
  /\ pc = "filterReady" /\ cursor = None
  /\ ready # <<>>
  /\ ready' = Tail(ready)
  /\ cursor' = IF queues[Head(ready)] = <<>> THEN None ELSE Head(ready)
  /\ retained' = <<>>
  /\ UNCHANGED <<queues, active, pc, remaining, discard, kept, unfiltered>>

FilterActiveKeys ==
  /\ pc = "filterReady" /\ cursor = None
  /\ ready = <<>>
  /\ pc' = "filterActive"
  /\ unfiltered' = {k \in ActiveKeys : queues[k] # <<>>}
  /\ UNCHANGED <<queues, active, ready, remaining, discard, cursor, retained, kept>>

(* The order in which QHash hands out the keys is not specified. *)
FilterNextActive(k) ==
  /\ pc = "filterActive" /\ cursor = None
  /\ k \in unfiltered
  /\ unfiltered' = unfiltered \ {k}
  /\ cursor' = k
  /\ retained' = <<>>
  /\ UNCHANGED <<queues, active, ready, pc, remaining, discard, kept>>

(* Slip: the requests that stay are pushed to the front. *)
FilterReverses ==
  /\ cursor # None
  /\ queues[cursor] # <<>>
  /\ queues' = [queues EXCEPT ![cursor] = Tail(@)]
  /\ retained' = IF Head(queues[cursor]) \in discard
                 THEN retained ELSE <<Head(queues[cursor])>> \o retained
  /\ UNCHANGED <<active, ready, pc, remaining, discard, cursor, kept, unfiltered>>

FilterRequest ==
  /\ cursor # None
  /\ queues[cursor] # <<>>
  /\ queues' = [queues EXCEPT ![cursor] = Tail(@)]
  /\ retained' = IF Head(queues[cursor]) \in discard
                 THEN retained ELSE Append(retained, Head(queues[cursor]))
  /\ UNCHANGED <<active, ready, pc, remaining, discard, cursor, kept, unfiltered>>

FilterStore ==
  /\ cursor # None
  /\ queues[cursor] = <<>>
  /\ queues' = [queues EXCEPT ![cursor] = retained]
  /\ kept' = IF pc = "filterReady" /\ retained # <<>> THEN Append(kept, cursor)
                                                      ELSE kept
  /\ cursor' = None
  /\ retained' = <<>>
  /\ UNCHANGED <<active, ready, pc, remaining, discard, unfiltered>>

FilterReturn ==
  /\ pc = "filterActive" /\ cursor = None
  /\ unfiltered = {}
  /\ ready' = kept
  /\ kept' = <<>>
  /\ discard' = {}
  /\ pc' = "idle"
  /\ UNCHANGED <<queues, active, remaining, cursor, retained, unfiltered>>
-----------------------------------------------------------------------------
Filtering == \/ FilterNextReady
             \/ FilterActiveKeys
             \/ \E k \in Keys : FilterNextActive(k)
             \/ FilterRequest
             \/ FilterStore
             \/ FilterReturn

Next == \/ \E k \in Keys, r \in Requests : Enqueue(k, r)
        \/ \E k \in Keys : Complete(k)
        \/ TakeQueued
        \/ TakeReady
        \/ ScanKey
        \/ ScanReturn
        \/ \E D \in SUBSET Requests : TakeQueuedIf(D)
        \/ Filtering

Spec == Init /\ [][Next]_vars

(***************************************************************************)
(* A call returns once made; the owner completes what runs, and it calls     *)
(* takeReady after every enqueue and completion                             *)
(* (MediaCoordinator::dispatchMutations), however the calls interleave.      *)
(***************************************************************************)
Fairness == /\ WF_vars(ScanKey) /\ WF_vars(ScanReturn) /\ WF_vars(Filtering)
            /\ SF_vars(TakeReady)
            /\ \A k \in Keys : SF_vars(Complete(k))
-----------------------------------------------------------------------------
TypeOK ==
  /\ queues \in [Keys -> Seq(Requests)]
  /\ active \in [Keys -> Requests \cup {None}]
  /\ ready \in Seq(Keys)
  /\ pc \in {"idle", "takeReady", "filterReady", "filterActive"}
  /\ remaining \in Nat
  /\ discard \in SUBSET Requests
  /\ cursor \in Keys \cup {None}
  /\ retained \in Seq(Requests)
  /\ kept \in Seq(Keys)
  /\ unfiltered \in SUBSET Keys

Distinct(s) == \A i, j \in 1..Len(s) : s[i] = s[j] => i = j
Listed(s)   == {s[i] : i \in 1..Len(s)}

(* Between calls the ready list names, once each, exactly the keys that have  *)
(* waiting requests and no active one.  A missing key would leave its         *)
(* requests waiting for ever, a duplicate would let a key be looked at twice; *)
(* enqueue, complete, takeReady and takeQueuedIf each maintain one part of it. *)
ReadyListExact ==
  pc = "idle" =>
    /\ Distinct(ready)
    /\ Listed(ready) = {k \in Keys : active[k] = None /\ queues[k] # <<>>}

(* At most m_maxActiveKeys keys are active, and no two active requests are    *)
(* incompatible in either direction, although the test is made only when a    *)
(* request starts.                                                          *)
ActiveSetLegal ==
  /\ Cardinality(ActiveKeys) <= MaxActiveKeys
  /\ \A j, k \in ActiveKeys : j # k => Agrees(active[j], active[k])

(* When takeReady returns it has left nothing that could run: every slot is   *)
(* taken, or the oldest request of every ready key disagrees with an active   *)
(* one, even though the list is rotated and the active set grows meanwhile.   *)
TakeReadyLeavesNothing ==
  [][ScanReturn => \/ Cardinality(ActiveKeys) = MaxActiveKeys
                   \/ \A k \in Keys : active[k] = None /\ queues[k] # <<>>
                                        => ~ AgreesWithActive(Head(queues[k]))]_vars

(* The queue a key shows to the owner while takeQueuedIf is half way through. *)
Waiting == [k \in Keys |-> IF k = cursor THEN retained \o queues[k] ELSE queues[k]]

(* The scheduler implements one FIFO line per key: takeReady starts oldest    *)
(* requests only, takeQueuedIf withdraws selected requests and keeps the      *)
(* order of the others, and no request is lost or doubled on the way.        *)
Fifo == INSTANCE KeyedFifo WITH waiting <- Waiting, running <- active
ImplementsFifo == Fifo!Spec

(* Rotation is fair: a key whose oldest request is compatible with all others *)
(* does not wait for ever, whatever the other keys enqueue.  (One that is not *)
(* may: the keys it is incompatible with can take turns.)                     *)
Unconstrained(r) == \A q \in Requests : Agrees(r, q)
EveryKeyServed ==
  \A k \in Keys :
    []<>(active[k] # None \/ queues[k] = <<>> \/ ~Unconstrained(Head(queues[k])))
=============================================================================
