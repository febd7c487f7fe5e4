---------------------------- MODULE MutationProofs ----------------------------
(***************************************************************************)
(* Theorems about MediaCoordinator for any menu, number of lanes, requests, *)
(* handlers and transitions: every request is accounted for, and what a     *)
(* transition left in doubt is reconciled.  And about the scheduler, for    *)
(* every set of keys and payloads, every number of slots and every          *)
(* compatibility test: it implements KeyedFifo, the promise at which the     *)
(* coordinator takes it.                                                    *)
(***************************************************************************)
EXTENDS MCMutations, FiniteSetTheorems, SequenceTheorems, WellFoundedInduction, TLAPS


\* The reads of the lanes, and all requests that are somewhere.
ReadsHeld == (UNION {{reads[l].active, reads[l].queued} : l \in Lanes}) \ {None}
Held == Pending \cup ReadsHeld

\* A request is filed under its item, in the order of submission.
LinesInv ==
  /\ \A k \in Items : \A i \in 1..Len(waiting[k]) :
       waiting[k][i].item = k /\ waiting[k][i].op \in MutationOps
  /\ \A k \in Items :
       running[k] # None => running[k].item = k /\ running[k].op \in MutationOps
  /\ \A k \in Items : \A i, j \in 1..Len(waiting[k]) :
       i < j => waiting[k][i].seq < waiting[k][j].seq
  /\ \A k \in Items : running[k] # None =>
       \A i \in 1..Len(waiting[k]) : running[k].seq < waiting[k][i].seq

\* Numbers tell requests apart.
Numbered ==
  /\ \A r \in Held : r.seq \in 1..called
  /\ \A r, s \in Held : r.seq = s.seq => r = s

\* A request that runs has one place: about to start, in a slot, or settling.
Placed ==
  /\ \A r \in starting \cup InFlight : r.item \in Items /\ running[r.item] = r
  /\ \A k \in ActiveItems : running[k] \in starting \cup InFlight
  /\ starting \cap InFlight = {}
Sited ==
  /\ \A i, j \in Slots :
       slots[i].active = slots[j].active /\ slots[i].active # None => i = j
  /\ settling # None => settling.request \notin InLanes
  /\ \A i \in Slots : slots[i].active = None <=> slots[i].at = "free"
Places == Placed /\ Sited

\* Who has been told, among the requests whose end is still to come.
Marks ==
  /\ settled \subseteq Seqs(InFlight)
  /\ \A i \in Slots : slots[i].at = "refused" => slots[i].active.seq \in settled

\* A caller was told once, unless his request is open: then not at all.
OpenMutations == Queued \cup starting \cup Untold
OpenReads == {r \in ReadsHeld : r.seq \notin settledReads}
Accounts ==
  \A s \in 1..MaxRequests :
    outcome[s] = IF s \in 1..called /\ s \notin Seqs(OpenMutations \cup OpenReads)
                 THEN 1 ELSE 0

\* Behind the fence every caller has been told.
Fence ==
  /\ ~fenced => ~shuttingDown /\ session.connected
  /\ fenced => Queued = {} /\ Untold = {}
  /\ \A r \in OpenMutations : r.generation = session.generation

\* Handlers run where the coordinator emits, one dispatch at a time, and a
\* result is finished by a turn of its own.
SettlePlaces == {"applying", "applied", "answering", "ending"}
DispatchPlaces == {"dispatch", "refused", "opening"}
Nested ==
  /\ \A i \in 1..Len(turn) : i < Len(turn) => turn[i] \in Emitting
  /\ \A i, j \in 1..Len(turn) :
       turn[i] \in DispatchPlaces /\ turn[j] \in DispatchPlaces => i = j
  /\ \A i \in 1..Len(turn) : turn[i] \in SettlePlaces \cup {"reading"} => i = 1

\* What is half way agrees with the place the turn has reached.
Reached(places) == \E i \in 1..Len(turn) : turn[i] \in places
HalfWay == {i \in Slots : slots[i].at \in {"refused", "opening"}}
Agreed ==
  /\ settling # None <=> Reached(SettlePlaces)
  /\ settling # None => ~Reached(DispatchPlaces)
  /\ starting # {} => Reached(DispatchPlaces)
  /\ \A i \in HalfWay : Reached({slots[i].at})
  /\ \A i, j \in HalfWay : i = j
  /\ settling # None /\ Reached({"answering", "ending"})
       => settling.request.seq \in settled

\* The reads: a lane holds its own, they keep the fence, and one result at a
\* time is told.
ReadsHalfWay == {l \in Lanes : reads[l].at \in {"result", "told"}}
LaneInv(l) ==
  /\ reads[l].active # None => reads[l].active.op = l
  /\ reads[l].queued # None => reads[l].queued.op = l
  /\ reads[l].active = reads[l].queued => reads[l].active = None
  /\ reads[l].active = None <=> reads[l].at = "none"
  /\ reads[l].at = "told" => reads[l].active.seq \in settledReads
  /\ fenced => /\ reads[l].queued = None
               /\ reads[l].active # None => reads[l].active.seq \in settledReads
ReadsInv ==
  /\ \A l \in Lanes : LaneInv(l)
  /\ \A s \in settledReads :
       \E l \in Lanes : reads[l].active # None /\ reads[l].active.seq = s
  /\ ReadsHalfWay # {} => Reached({"reading"})
  /\ \A k, l \in ReadsHalfWay : k = l

\* One optimistic mutation runs, and only its overlay can be in the journal.
Opening(r) == \E i \in Slots : slots[i].at = "opening" /\ slots[i].active = r
Overlays ==
  /\ \A j, k \in ActiveItems :
       running[j].op \in Optimistic /\ running[k].op \in Optimistic => j = k
  /\ \A s \in journal : \E r \in InFlight :
       /\ r.seq = s /\ r.op \in Optimistic
       /\ (s \in ids /\ s \notin settled) \/ Opening(r)
  /\ settling # None /\ (~settling.ok \/ Reached({"applied"}))
       => settling.request.seq \notin journal

\* What a fence left in doubt is still running, or noted as ended.
Doubts ==
  /\ doubtful \subseteq 1..called
  /\ Seqs(Queued \cup starting) \cap doubtful = {}
  /\ \A i \in HalfWay : slots[i].active.seq \notin doubtful
  /\ \A r \in InFlight : r.seq \in doubtful =>
       r.seq \in speculative /\ r.generation = session.generation
  /\ doubtful \subseteq Seqs(InFlight) \/ shuttingDown \/ (fenced /\ completedSpeculative)

Room == IsFiniteSet(starting) /\ Cardinality(starting) <= Cardinality(FreeSlots)

MutationsInv ==
  LinesInv /\ Places /\ Marks /\ Fence /\ Agreed /\ Overlays /\ Doubts /\ Room

MediaInv ==
  /\ TypeOK /\ Numbered /\ Accounts /\ Nested
  /\ MutationsInv /\ ReadsInv /\ NoReadBesideConflict
-----------------------------------------------------------------------------
TurnPlaces == Emitting \cup {"submitted", "dispatch", "ending"}

\* What is unchanged when the variables it is made of are.
LEMMA MutationsStay ==
  ASSUME UNCHANGED <<waiting, running, starting, slots, settling>>
  PROVE  /\ Queued' = Queued /\ InFlight' = InFlight /\ InLanes' = InLanes
         /\ Pending' = Pending /\ ActiveItems' = ActiveItems
         /\ FreeSlots' = FreeSlots /\ HalfWay' = HalfWay
         /\ (settled' = settled => Untold' = Untold /\ OpenMutations' = OpenMutations)
  BY DEF Queued, InFlight, InLanes, Pending, ActiveItems, FreeSlots, HalfWay, Untold,
         OpenMutations

LEMMA ReadsStay ==
  ASSUME UNCHANGED <<reads, settledReads>>
  PROVE  ReadsHeld' = ReadsHeld /\ OpenReads' = OpenReads /\ ReadsHalfWay' = ReadsHalfWay
  BY DEF ReadsHeld, OpenReads, ReadsHalfWay

\* The turn returns, goes on to another place, or calls.
LEMMA FrontOf ==
  ASSUME NEW P, NEW s \in Seq(P), s # <<>>
  PROVE  /\ Front(s) \in Seq(P) /\ Len(s) \in Nat \ {0}
         /\ Len(Front(s)) = Len(s) - 1
         /\ \A i \in 1..Len(s) - 1 : Front(s)[i] = s[i]
<1>1. Len(s) \in Nat \ {0}
  OBVIOUS
<1>2. Len(s) - 1 \in Nat /\ Len(s) - 1 <= Len(s)
  BY <1>1
<1>3. \A i \in 1..Len(s) - 1 : s[i] \in P
  BY <1>1
<1> DEFINE n == Len(s) - 1
<1>4. /\ SubSeq(s, 1, n) \in Seq(P)
      /\ Len(SubSeq(s, 1, n)) = IF 1 <= n THEN n - 1 + 1 ELSE 0
      /\ \A i \in 1..n - 1 + 1 : SubSeq(s, 1, n)[i] = s[1 + i - 1]
  <2>1. n \in Int /\ 1 \in Int
    BY <1>1
  <2> HIDE DEF n
  <2>2. \A i \in 1..n : s[i] \in P
    BY <1>3 DEF n
  <2> QED
    BY <2>1, <2>2, SubSeqProperties
<1>5. n \in Nat
  BY <1>1
<1> HIDE DEF n
<1>6. Len(SubSeq(s, 1, n)) = n
  BY <1>4, <1>5
<1>7. n - 1 + 1 = n /\ \A i \in 1..n : 1 + i - 1 = i
  BY <1>5
<1>8. \A i \in 1..n : SubSeq(s, 1, n)[i] = s[i]
  BY <1>4, <1>7
<1> QED
  BY <1>1, <1>4, <1>6, <1>8 DEF Front, n

LEMMA TurnReturns ==
  ASSUME TypeOK, turn # <<>>, Return
  PROVE  /\ Len(turn') = Len(turn) - 1
         /\ \A i \in 1..Len(turn') : turn'[i] = turn[i]
         /\ Len(turn) \in Nat \ {0}
         /\ turn' \in Seq(TurnPlaces)
<1>1. turn \in Seq(TurnPlaces) /\ turn' = Front(turn)
  BY DEF TypeOK, Return, TurnPlaces
<1> QED
  BY <1>1, FrontOf

LEMMA TurnGoes ==
  ASSUME TypeOK, turn # <<>>, NEW p \in TurnPlaces, Go(p)
  PROVE  /\ Len(turn') = Len(turn) /\ turn'[Len(turn)] = p
         /\ \A i \in 1..Len(turn) - 1 : turn'[i] = turn[i]
         /\ Len(turn) \in Nat \ {0}
         /\ turn' \in Seq(TurnPlaces)
<1>1. turn \in Seq(TurnPlaces) /\ turn' = Append(Front(turn), p)
  BY DEF TypeOK, Go, TurnPlaces
<1> DEFINE f == Front(turn)
<1>2. f \in Seq(TurnPlaces) /\ Len(turn) \in Nat \ {0} /\ Len(f) = Len(turn) - 1
      /\ \A i \in 1..Len(turn) - 1 : f[i] = turn[i]
  BY <1>1, FrontOf
<1> HIDE DEF f
<1>3. turn' = Append(f, p)
  BY <1>1 DEF f
<1> QED
  BY <1>2, <1>3

LEMMA TurnCalls ==
  ASSUME TypeOK, NEW p \in TurnPlaces, Call(p)
  PROVE  /\ Len(turn') = Len(turn) + 1 /\ turn'[Len(turn) + 1] = p
         /\ \A i \in 1..Len(turn) : turn'[i] = turn[i]
         /\ Len(turn) \in Nat
         /\ turn' \in Seq(TurnPlaces)
<1>1. turn \in Seq(TurnPlaces) /\ turn' = Append(turn, p)
  BY DEF TypeOK, Call, TurnPlaces
<1> QED
  BY <1>1

\* The places a turn may return to, go on to and call keep it well nested.
LEMMA NestedReturn ==
  ASSUME TypeOK, Nested, turn # <<>>, Return
  PROVE  /\ Nested'
         /\ \A places : Reached(places)' => Reached(places)
         /\ \A places : Reached(places) => Reached(places)' \/ turn[Len(turn)] \in places
         /\ turn[Len(turn)] \in SettlePlaces \cup {"reading"} =>
              \A places : ~Reached(places)'
         /\ turn[Len(turn)] \in DispatchPlaces => ~Reached(DispatchPlaces)'
<1>1. /\ Len(turn') = Len(turn) - 1
      /\ \A i \in 1..Len(turn') : turn'[i] = turn[i]
      /\ Len(turn) \in Nat \ {0}
  BY TurnReturns
<1> QED
  BY <1>1 DEF Nested, Reached

LEMMA NestedGo ==
  ASSUME TypeOK, Nested, turn # <<>>, NEW p \in TurnPlaces, Go(p),
         p \in DispatchPlaces => turn[Len(turn)] \in DispatchPlaces \/ ~Reached(DispatchPlaces),
         p \in SettlePlaces \cup {"reading"} =>
           turn[Len(turn)] \in SettlePlaces \cup {"reading"}
  PROVE  /\ Nested'
         /\ \A places : Reached(places)' => Reached(places) \/ p \in places
         /\ \A places : Reached(places) => Reached(places)' \/ turn[Len(turn)] \in places
         /\ \A places : p \in places => Reached(places)'
         /\ turn[Len(turn)] \in SettlePlaces \cup {"reading"} =>
              \A places : Reached(places)' => p \in places
<1>1. /\ Len(turn') = Len(turn) /\ turn'[Len(turn)] = p
      /\ \A i \in 1..Len(turn) - 1 : turn'[i] = turn[i]
      /\ Len(turn) \in Nat \ {0}
  BY TurnGoes
<1>2. Nested'
  <2>1. \A i \in 1..Len(turn') : i < Len(turn') => turn'[i] \in Emitting
    BY <1>1 DEF Nested
  <2>2. \A i, j \in 1..Len(turn') :
          turn'[i] \in DispatchPlaces /\ turn'[j] \in DispatchPlaces => i = j
    BY <1>1 DEF Nested, Reached
  <2>3. \A i \in 1..Len(turn') : turn'[i] \in SettlePlaces \cup {"reading"} => i = 1
    BY <1>1 DEF Nested
  <2> QED
    BY <2>1, <2>2, <2>3 DEF Nested
<1> QED
  BY <1>1, <1>2 DEF Nested, Reached

LEMMA NestedCall ==
  ASSUME TypeOK, Nested, NEW p \in TurnPlaces, Call(p),
         turn = <<>> \/ turn[Len(turn)] \in Emitting,
         p \in DispatchPlaces => ~Reached(DispatchPlaces),
         p \in SettlePlaces \cup {"reading"} => turn = <<>>
  PROVE  /\ Nested'
         /\ \A places : Reached(places)' <=> Reached(places) \/ p \in places
<1>1. /\ Len(turn') = Len(turn) + 1 /\ turn'[Len(turn) + 1] = p
      /\ \A i \in 1..Len(turn) : turn'[i] = turn[i]
      /\ Len(turn) \in Nat
      /\ turn = <<>> => Len(turn) = 0
  BY TurnCalls
<1>2. Nested'
  <2>1. \A i \in 1..Len(turn') : i < Len(turn') => turn'[i] \in Emitting
    BY <1>1 DEF Nested
  <2>2. \A i, j \in 1..Len(turn') :
          turn'[i] \in DispatchPlaces /\ turn'[j] \in DispatchPlaces => i = j
    BY <1>1 DEF Nested, Reached
  <2>3. \A i \in 1..Len(turn') : turn'[i] \in SettlePlaces \cup {"reading"} => i = 1
    BY <1>1 DEF Nested
  <2> QED
    BY <2>1, <2>2, <2>3 DEF Nested
<1> QED
  BY <1>1, <1>2 DEF Reached

LEMMA Here ==
  ASSUME TypeOK, NEW p, At(p)
  PROVE  turn # <<>> /\ turn[Len(turn)] = p /\ Len(turn) \in 1..Len(turn)
         /\ (\A places : p \in places => Reached(places))
  BY DEF TypeOK, At, Quiet, Last, Reached

LEMMA NowhereWhenQuiet ==
  ASSUME TypeOK, Quiet
  PROVE  turn = <<>> /\ Len(turn) = 0 /\ \A places : ~Reached(places)
  BY DEF TypeOK, Quiet, Reached
-----------------------------------------------------------------------------
\* The coordinator starts with no request.
LEMMA MediaStarts == Init => MediaInv
<1> SUFFICES ASSUME Init PROVE MediaInv
  OBVIOUS
<1>1. /\ waiting = [k \in Items |-> <<>>] /\ running = [k \in Items |-> None]
      /\ starting = {} /\ settling = None /\ turn = <<>> /\ called = 0
      /\ slots = [i \in Slots |-> FreeSlot] /\ reads = [l \in Lanes |-> IdleLane]
  BY DEF Init, Scheduler!Init
<1>2. /\ Queued = {} /\ ActiveItems = {} /\ InLanes = {} /\ InFlight = {} /\ Untold = {}
      /\ Pending = {} /\ ReadsHeld = {} /\ Held = {} /\ HalfWay = {} /\ ReadsHalfWay = {}
      /\ OpenMutations = {} /\ OpenReads = {} /\ \A places : ~Reached(places)
  <2>0. Queued = {}
    <3>1. \A k \in Items : ToSet(waiting[k]) = {}
      BY <1>1 DEF ToSet
    <3> QED
      BY <3>1 DEF Queued
  <2>1. Queued = {} /\ ActiveItems = {} /\ InLanes = {} /\ ReadsHeld = {}
    <3>1. ReadsHeld = {}
      BY <1>1 DEF ReadsHeld, IdleLane
    <3> QED
      BY <1>1, <2>0, <3>1 DEF ActiveItems, InLanes, FreeSlot
  <2>2. InFlight = {} /\ Untold = {} /\ Pending = {} /\ Held = {}
    BY <2>1, <1>1 DEF InFlight, Untold, Pending, Held, Queued
  <2>3. HalfWay = {} /\ ReadsHalfWay = {}
    BY <1>1 DEF HalfWay, ReadsHalfWay, FreeSlot, IdleLane
  <2>4. \A places : ~Reached(places)
    BY <1>1 DEF Reached
  <2> QED
    BY <1>1, <2>1, <2>2, <2>3, <2>4 DEF OpenMutations, OpenReads
<1>3. TypeOK
  <2>1. None \notin Requests /\ MaxRequests \in Nat /\ MaxGeneration \in Nat
    BY MediaAssumption
  <2>2. session \in [generation : 0..MaxGeneration, connected : BOOLEAN]
    BY <2>1 DEF Init
  <2>3. slots \in [Slots -> [active : Requests \cup {None},
                             at : {"free", "refused", "opening", "running"}]]
    BY <1>1 DEF FreeSlot
  <2>4. reads \in [Lanes -> [active : Requests \cup {None}, queued : Requests \cup {None},
                             at : {"none", "bridge", "result", "told"}]]
    BY <1>1 DEF IdleLane
  <2>5. fenced \in BOOLEAN /\ shuttingDown \in BOOLEAN
    BY <2>2 DEF Init
  <2>6. waiting \in [Items -> Seq(Requests)] /\ running \in [Items -> Requests \cup {None}]
    BY <1>1
  <2>7. turn \in Seq(Emitting \cup {"submitted", "dispatch", "ending"})
        /\ posted \in Seq({"dispatch", "pump"})
    BY DEF Init
  <2>8. outcome \in [1..MaxRequests -> Nat] /\ called \in 0..MaxRequests
        /\ latest \in [Lanes -> 0..MaxRequests]
    BY <2>1 DEF Init
  <2> QED
    BY <1>1, <2>2, <2>3, <2>4, <2>5, <2>6, <2>7, <2>8 DEF TypeOK, Init
<1>4. LinesInv /\ Numbered /\ Places /\ ReadsInv /\ Marks
  BY <1>1, <1>2 DEF Init, LinesInv, Numbered, Places, Placed, Sited, ReadsInv, LaneInv, Marks,
                    FreeSlot,
                    IdleLane, Seqs, HalfWay
<1>5. Accounts /\ Fence /\ Nested /\ Agreed /\ Overlays /\ Doubts /\ NoReadBesideConflict
  <2>1. Accounts
    BY <1>1, <1>2 DEF Init, Accounts, Seqs
  <2>2. Fence
    <3>1. session.connected \in BOOLEAN /\ fenced = ~session.connected /\ shuttingDown = FALSE
      BY DEF Init
    <3> QED
      BY <3>1, <1>2 DEF Fence
  <2>3. Nested /\ Agreed
    BY <1>1, <1>2 DEF Init, Nested, Agreed
  <2>4. Overlays /\ Doubts /\ NoReadBesideConflict
    BY <1>1, <1>2 DEF Init, Overlays, Doubts, NoReadBesideConflict, Seqs, IdleLane
  <2> QED
    BY <2>1, <2>2, <2>3, <2>4
<1>6. Room
  <2>1. FreeSlots = Slots /\ SlotCount \in Nat
    BY <1>1, MediaAssumption DEF FreeSlots, FreeSlot
  <2>2. IsFiniteSet(Slots) /\ Cardinality(Slots) \in Nat
    BY <2>1, FS_Interval, FS_CardinalityType DEF Slots
  <2> QED
    BY <1>1, <2>1, <2>2, FS_EmptySet DEF Room
<1> QED
  BY <1>3, <1>4, <1>5, <1>6 DEF MediaInv, MutationsInv
-----------------------------------------------------------------------------
LEMMA CalledBound ==
  ASSUME TypeOK
  PROVE  called \in Nat /\ MaxRequests \in Nat /\ 1..called \subseteq 1..MaxRequests
<1>1. called \in 0..MaxRequests /\ MaxRequests \in Nat
  BY MediaAssumption DEF TypeOK
<1> QED
  BY <1>1

\* Requests are numbered in the order of submission.
LEMMA NumberedStep ==
  ASSUME TypeOK, Numbered, called' \in {called, called + 1}, NEW N, Held' \subseteq Held \cup N,
         \A r \in N : r.seq = called' /\ called' = called + 1,
         \A r, s \in N : r = s
  PROVE  Numbered'
<1>1. called \in Nat /\ called' \in Nat /\ called <= called'
  BY DEF TypeOK
<1>2. \A r \in Held' : r.seq \in 1..called'
  BY <1>1 DEF Numbered
<1>3. ASSUME NEW r \in Held', NEW s \in Held', r.seq = s.seq PROVE r = s
  BY <1>1, <1>3 DEF Numbered
<1> QED
  BY <1>2, <1>3 DEF Numbered

LEMMA NumberedStays ==
  ASSUME TypeOK, Numbered, called' \in {called, called + 1}, Held' \subseteq Held
  PROVE  Numbered'
<1>1. called \in Nat /\ called <= called' /\ called' \in Nat
  BY DEF TypeOK
<1> QED
  BY <1>1 DEF Numbered

\* A request in flight runs, and is one.
LEMMA InFlightRuns ==
  ASSUME TypeOK, Places
  PROVE  /\ \A r \in starting \cup InFlight :
              r \in Requests /\ r.item \in ActiveItems /\ running[r.item] = r /\ r \in Pending
         /\ OpenMutations \subseteq Pending
         /\ \A i \in Slots : slots[i].active # None =>
              slots[i].active \in InFlight /\ slots[i].active \in InLanes
         /\ settling # None => settling.request \in InFlight
<1>1. None \notin Requests
  BY MediaAssumption
<1>2. \A i \in Slots : slots[i].active \in Requests \cup {None}
  BY DEF TypeOK
<1>3. settling # None => settling.request \in Requests
  BY DEF TypeOK
<1>4. starting \cup InFlight \subseteq Requests
  BY <1>2, <1>3 DEF TypeOK, InFlight, InLanes
<1>5. \A r \in starting \cup InFlight : r.item \in ActiveItems
  BY <1>1, <1>4 DEF Places, Placed, Sited, ActiveItems
<1>6. \A r \in starting \cup InFlight : r \in Pending
  BY <1>5 DEF Places, Placed, Sited, Pending
<1>7. Untold \subseteq InFlight /\ Queued \subseteq Pending
  BY DEF Untold, Pending, Queued
<1> QED
  BY <1>4, <1>5, <1>6, <1>7 DEF Places, Placed, Sited, OpenMutations, InFlight, InLanes

LEMMA OpenIsHeld ==
  ASSUME TypeOK, Places
  PROVE  OpenMutations \cup OpenReads \subseteq Held
  BY InFlightRuns DEF OpenReads, Held

\* Those that are no longer open have been told.
LEMMA AccountsStep ==
  ASSUME TypeOK, Accounts, Numbered, Places,
         called' \in {called, called + 1}, called' \in 0..MaxRequests,
         NEW N, NEW X, NEW T,
         \A r \in N : r.seq = called' /\ called' = called + 1,
         called' = called + 1 => N # {},
         X \subseteq OpenMutations \cup OpenReads \cup N,
         (OpenMutations \cup OpenReads)' = (OpenMutations \cup OpenReads \cup N) \ X,
         T = Seqs(X), Tell(T), \A r, s \in N : r = s
  PROVE  Accounts'
<1> DEFINE O == OpenMutations \cup OpenReads
<1>1. O \subseteq Held
  BY OpenIsHeld
<1>2. /\ \A r \in O : r.seq \in 1..called
      /\ \A r, s \in O : r.seq = s.seq => r = s
  BY <1>1 DEF Numbered
<1>3. called \in Nat /\ MaxRequests \in Nat /\ outcome \in [1..MaxRequests -> Nat]
  BY MediaAssumption DEF TypeOK
<1>4. O' = (O \cup N) \ X /\ X \subseteq O \cup N
  OBVIOUS
<1>5. \A s \in 1..MaxRequests : outcome[s] = IF s \in 1..called /\ s \notin Seqs(O) THEN 1 ELSE 0
  BY DEF Accounts
<1> HIDE DEF O
<1>6. \A r, s \in O \cup N : r.seq = s.seq => r = s
  BY <1>2, <1>3
<1>7. \A s : s \in Seqs(O)' <=> (s \in Seqs(O) \/ s \in Seqs(N)) /\ s \notin T
  BY <1>4, <1>6 DEF Seqs
<1>8. \A s \in Seqs(N) : s = called + 1 /\ called' = called + 1
  BY DEF Seqs
<1>9. called' = called + 1 => called + 1 \in Seqs(N)
  BY DEF Seqs
<1>10. \A s \in T : s \in Seqs(O) \/ s \in Seqs(N)
  BY <1>4 DEF Seqs
<1>11. \A s \in Seqs(O) : s \in 1..called
  BY <1>2 DEF Seqs
<1>12. ASSUME NEW s \in 1..MaxRequests
       PROVE  outcome'[s] = IF s \in 1..called' /\ s \notin Seqs(O)' THEN 1 ELSE 0
  <2>1. outcome'[s] = IF s \in T THEN outcome[s] + 1 ELSE outcome[s]
    BY DEF Tell
  <2>2. CASE s \in T
    <3>1. s \notin Seqs(O)' /\ s \in 1..called'
      BY <2>2, <1>3, <1>7, <1>8, <1>10, <1>11
    <3>2. outcome[s] = 0
      BY <2>2, <1>3, <1>5, <1>8, <1>10, <1>11
    <3> QED
      BY <2>1, <2>2, <3>1, <3>2
  <2>3. CASE s \notin T
    <3>1. outcome'[s] = outcome[s]
      BY <2>1, <2>3
    <3>2. (s \in 1..called' /\ s \notin Seqs(O)') <=> (s \in 1..called /\ s \notin Seqs(O))
      BY <2>3, <1>3, <1>7, <1>8, <1>9, <1>11
    <3> QED
      BY <3>1, <3>2, <1>5
  <2> QED
    BY <2>2, <2>3
<1> QED
  BY <1>12 DEF Accounts, O

LEMMA AccountsFall ==
  ASSUME TypeOK, Accounts, Numbered, Places, called' = called,
         NEW X, X \subseteq OpenMutations \cup OpenReads,
         (OpenMutations \cup OpenReads)' = (OpenMutations \cup OpenReads) \ X,
         Tell(Seqs(X))
  PROVE  Accounts'
<1> DEFINE N == {}
<1>1. /\ \A r \in N : r.seq = called' /\ called' = called + 1
      /\ \A r, s \in N : r = s
      /\ OpenMutations \cup OpenReads \cup N = OpenMutations \cup OpenReads
  OBVIOUS
<1>2. called' \in 0..MaxRequests /\ called' # called + 1 /\ called' \in {called, called + 1}
  BY DEF TypeOK
<1> HIDE DEF N
<1>3. X \subseteq OpenMutations \cup OpenReads \cup N
  BY <1>1
<1>4. (OpenMutations \cup OpenReads)' = (OpenMutations \cup OpenReads \cup N) \ X
  BY <1>1
<1> QED
  BY <1>1, <1>2, <1>3, <1>4, AccountsStep

LEMMA AccountsStay ==
  ASSUME Accounts, UNCHANGED <<outcome, called>>,
         (OpenMutations \cup OpenReads)' = OpenMutations \cup OpenReads
  PROVE  Accounts'
  BY DEF Accounts, Seqs
-----------------------------------------------------------------------------
\* Reads leave the mutations alone.
LEMMA MutationsKept ==
  ASSUME TypeOK, MutationsInv, UNCHANGED <<sessionVars, mutationVars>>,
         called' \in {called, called + 1},
         \A places : "reading" \notin places => (Reached(places)' <=> Reached(places))
  PROVE  MutationsInv'
<1>1. /\ UNCHANGED <<session, fenced, shuttingDown, waiting, running, starting, slots>>
      /\ UNCHANGED <<settling, ids, journal, settled, speculative, completedSpeculative>>
      /\ UNCHANGED <<doubtful, tracked>>
  BY DEF sessionVars, mutationVars, lines, journals, fates
<1>2. /\ Queued' = Queued /\ InFlight' = InFlight /\ InLanes' = InLanes
      /\ Pending' = Pending /\ ActiveItems' = ActiveItems
      /\ FreeSlots' = FreeSlots /\ HalfWay' = HalfWay
      /\ Untold' = Untold /\ OpenMutations' = OpenMutations
  BY <1>1, MutationsStay
<1>3. LinesInv' /\ Places' /\ Marks' /\ Room'
  BY <1>1, <1>2 DEF MutationsInv, LinesInv, Places, Placed, Sited, Marks, Room, Seqs
<1>4. Fence'
  BY <1>1, <1>2 DEF MutationsInv, Fence
<1>5. Agreed'
  <2>1. /\ Reached(SettlePlaces)' <=> Reached(SettlePlaces)
        /\ Reached(DispatchPlaces)' <=> Reached(DispatchPlaces)
        /\ Reached({"answering", "ending"})' <=> Reached({"answering", "ending"})
        /\ \A i \in HalfWay : Reached({slots[i].at})' <=> Reached({slots[i].at})
    <3>1. /\ "reading" \notin SettlePlaces /\ "reading" \notin DispatchPlaces
          /\ "reading" \notin {"answering", "ending"}
          /\ \A i \in HalfWay : "reading" \notin {slots[i].at}
      BY DEF SettlePlaces, DispatchPlaces, HalfWay
    <3>2. Reached(SettlePlaces)' <=> Reached(SettlePlaces)
      BY <3>1
    <3>3. Reached(DispatchPlaces)' <=> Reached(DispatchPlaces)
      BY <3>1
    <3>4. Reached({"answering", "ending"})' <=> Reached({"answering", "ending"})
      BY <3>1
    <3>5. ASSUME NEW i \in HalfWay PROVE Reached({slots[i].at})' <=> Reached({slots[i].at})
      <4>1. slots' = slots
        BY <1>1
      <4> QED
        BY <3>1, <4>1
    <3> QED
      BY <3>2, <3>3, <3>4, <3>5
  <2> QED
    BY <1>1, <1>2, <2>1 DEF MutationsInv, Agreed
<1>6. Overlays'
  <2>1. Reached({"applied"})' <=> Reached({"applied"})
    OBVIOUS
  <2> QED
    BY <1>1, <1>2, <2>1 DEF MutationsInv, Overlays, Opening
<1>7. Doubts'
  <2>1. 1..called \subseteq 1..called'
    BY DEF TypeOK
  <2> QED
    BY <1>1, <1>2, <2>1 DEF MutationsInv, Doubts, Seqs
<1> QED
  BY <1>3, <1>4, <1>5, <1>6, <1>7 DEF MutationsInv

\* Mutations leave the reads alone, unless they put one in line.
LEMMA ReadsKept ==
  ASSUME ReadsInv, UNCHANGED <<reads, settledReads, fenced>>,
         Reached({"reading"}) => Reached({"reading"})'
  PROVE  ReadsInv'
<1>1. ReadsHalfWay' = ReadsHalfWay /\ \A l \in Lanes : LaneInv(l)' <=> LaneInv(l)
  BY DEF ReadsHalfWay, LaneInv
<1> QED
  BY <1>1 DEF ReadsInv

LEMMA NoConflictKept ==
  ASSUME NoReadBesideConflict, UNCHANGED <<sessionVars, reads, settledReads, latest>>,
         Pending' \subseteq Pending
  PROVE  NoReadBesideConflict'
  BY DEF NoReadBesideConflict, StillCurrentRead, AcceptsSession, AcceptsLatest, ActiveSession,
         sessionVars, BlockedByMutation, Conflicts

\* What a lane holds.
LEMMA LaneTypes ==
  ASSUME TypeOK, NEW l \in Lanes
  PROVE  /\ reads[l].active \in Requests \cup {None} /\ reads[l].queued \in Requests \cup {None}
         /\ reads[l].at \in {"none", "bridge", "result", "told"}
         /\ l \in ReadOps
<1>1. reads[l] \in [active : Requests \cup {None}, queued : Requests \cup {None},
                    at : {"none", "bridge", "result", "told"}]
  BY DEF TypeOK
<1> QED
  BY <1>1 DEF Lanes

LEMMA LaneChanges ==
  ASSUME NEW x \in [active : Requests \cup {None}, queued : Requests \cup {None},
                    at : {"none", "bridge", "result", "told"}],
         NEW r \in Requests \cup {None}, NEW p \in {"none", "bridge", "result", "told"}
  PROVE  /\ [x EXCEPT !.queued = r] = [active |-> x.active, at |-> x.at, queued |-> r]
         /\ [x EXCEPT !.at = p] = [active |-> x.active, at |-> p, queued |-> x.queued]
         /\ [x EXCEPT !.active = r, !.at = p] = [active |-> r, at |-> p, queued |-> x.queued]
<1>1. [x EXCEPT !.queued = r] = [active |-> x.active, at |-> x.at, queued |-> r]
  OBVIOUS
<1>2. [x EXCEPT !.at = p] = [active |-> x.active, at |-> p, queued |-> x.queued]
  OBVIOUS
<1>3. [x EXCEPT !.active = r, !.at = p] = [active |-> r, at |-> p, queued |-> x.queued]
  <2> DEFINE y == [x EXCEPT !.active = r, !.at = p]
  <2>1. y \in [active : Requests \cup {None}, queued : Requests \cup {None},
               at : {"none", "bridge", "result", "told"}]
    OBVIOUS
  <2>2. y.active = r
    OBVIOUS
  <2>3. y.at = p
    OBVIOUS
  <2>4. y.queued = x.queued
    OBVIOUS
  <2> HIDE DEF y
  <2>5. y = [active |-> y.active, at |-> y.at, queued |-> y.queued]
    BY <2>1
  <2> QED
    BY <2>2, <2>3, <2>4, <2>5 DEF y
<1> QED
  BY <1>1, <1>2, <1>3

LEMMA HeldReads ==
  /\ \A r : r \in ReadsHeld <=>
       r # None /\ \E l \in Lanes : r = reads[l].active \/ r = reads[l].queued
  /\ \A r : r \in ReadsHeld' <=>
       r # None /\ \E l \in Lanes : r = reads'[l].active \/ r = reads'[l].queued
  BY DEF ReadsHeld

\* Reads are no mutations.
LEMMA ReadOpsAre ==
  ASSUME TypeOK, LinesInv, ReadsInv
  PROVE  Pending \cap ReadsHeld = {}
<1>1. \A m \in Queued : m.op \in MutationOps
  <2>1. ASSUME NEW m \in Queued PROVE m.op \in MutationOps
    <3>1. PICK k \in Items : m \in ToSet(waiting[k])
      BY <2>1 DEF Queued
    <3>2. PICK i \in 1..Len(waiting[k]) : m = waiting[k][i]
      BY <3>1 DEF TypeOK, ToSet
    <3> QED
      BY <3>2 DEF LinesInv
  <2> QED
    BY <2>1
<1>2. \A m \in Pending : m.op \in MutationOps
  BY <1>1 DEF Pending, Queued, LinesInv, ActiveItems
<1>3. \A r \in ReadsHeld : r.op \in ReadOps
  <2>1. ASSUME NEW r \in ReadsHeld PROVE r.op \in ReadOps
    <3>1. PICK l \in Lanes : r = reads[l].active \/ r = reads[l].queued
      BY HeldReads
    <3>2. r # None
      BY HeldReads
    <3> QED
      BY <3>1, <3>2, LaneTypes DEF ReadsInv, LaneInv
  <2> QED
    BY <2>1
<1>4. ReadOps \cap MutationOps = {}
  BY DEF ReadOps, MutationOps, Optimistic, Refreshes, ImageMutations
<1> QED
  BY <1>2, <1>3, <1>4

LEMMA ConflictIntro ==
  ASSUME \A l \in Lanes : \A a :
           a = reads'[l].active /\ a # None /\ StillCurrentRead(a)' => ~BlockedByMutation(a)'
  PROVE  NoReadBesideConflict'
  BY DEF NoReadBesideConflict
-----------------------------------------------------------------------------
\* The reads that callers still wait for.
LEMMA OpenReadsAre ==
  /\ \A r : r \in OpenReads <=>
       /\ r # None /\ r.seq \notin settledReads
       /\ \E l \in Lanes : r = reads[l].active \/ r = reads[l].queued
  /\ \A r : r \in OpenReads' <=>
       /\ r # None /\ r.seq \notin settledReads'
       /\ \E l \in Lanes : r = reads'[l].active \/ r = reads'[l].queued
  BY HeldReads DEF OpenReads

LEMMA ReadNumbers ==
  ASSUME TypeOK, Numbered, ReadsInv
  PROVE  /\ \A s \in settledReads : s \in 1..called
         /\ \A l \in Lanes :
              /\ reads[l].active # None =>
                   reads[l].active \in Held /\ reads[l].active.seq \in 1..called
              /\ reads[l].queued # None =>
                   /\ reads[l].queued \in Held /\ reads[l].queued.seq \in 1..called
                   /\ reads[l].queued.seq \notin settledReads
         /\ \A k, l \in Lanes : k # l =>
              /\ reads[l].active # None => /\ reads[l].active # reads[k].active
                                           /\ reads[l].active # reads[k].queued
              /\ reads[l].queued # None => reads[l].queued # reads[k].queued
<1>1. \A l \in Lanes : /\ reads[l].active # None => reads[l].active \in Held
                       /\ reads[l].queued # None => reads[l].queued \in Held
  BY HeldReads DEF Held
<1>2. \A l \in Lanes : LaneInv(l)
  BY DEF ReadsInv
<1>3. \A k, l \in Lanes : k # l =>
        /\ reads[l].active # None => /\ reads[l].active # reads[k].active
                                     /\ reads[l].active # reads[k].queued
        /\ reads[l].queued # None => reads[l].queued # reads[k].queued
  BY <1>2 DEF LaneInv
<1>4. \A s \in settledReads :
        \E l \in Lanes : reads[l].active # None /\ reads[l].active.seq = s
  BY DEF ReadsInv
<1>5. ASSUME NEW l \in Lanes, reads[l].queued # None, reads[l].queued.seq \in settledReads
      PROVE  FALSE
  <2>1. PICK k \in Lanes : reads[k].active # None /\ reads[k].active.seq = reads[l].queued.seq
    BY <1>4, <1>5
  <2>2. reads[k].active = reads[l].queued
    BY <2>1, <1>1, <1>5 DEF Numbered
  <2> QED
    BY <2>1, <2>2, <1>3, <1>2 DEF LaneInv
<1> QED
  BY <1>1, <1>3, <1>4, <1>5 DEF Numbered

LEMMA NewRequest ==
  ASSUME TypeOK, NEW item \in Items, NEW op \in ReadOps \cup MutationOps,
         called < MaxRequests, called' = called + 1
  PROVE  /\ Request(item, op) \in Requests /\ Request(item, op) # None
         /\ Request(item, op).seq = called + 1 /\ Request(item, op).op = op
         /\ Request(item, op).item = item
         /\ Request(item, op).generation = session.generation
         /\ called' \in 0..MaxRequests
<1>1. called \in Nat /\ MaxRequests \in Nat /\ session.generation \in 0..MaxGeneration
  BY MediaAssumption DEF TypeOK
<1>2. called + 1 \in 1..MaxRequests /\ called' \in 0..MaxRequests
  BY <1>1
<1> QED
  BY <1>1, <1>2, MediaAssumption DEF Request, Requests

LEMMA SubmitReadInv ==
  ASSUME MediaInv, NEW item \in Items, NEW op \in Lanes, SubmitRead(item, op)
  PROVE  MediaInv'
<1> DEFINE r == Request(item, op)
<1>0. TypeOK /\ Numbered /\ Accounts /\ Nested /\ MutationsInv /\ ReadsInv /\ NoReadBesideConflict
  BY DEF MediaInv
<1>1. /\ called < MaxRequests /\ called' = called + 1 /\ op \in ReadOps
      /\ UNCHANGED <<session, fenced, shuttingDown, turn, posted, settledReads>>
      /\ UNCHANGED <<sessionVars, mutationVars>>
  BY DEF SubmitRead, sessionVars, turnVars, TypeOK, Lanes
<1>2. /\ r \in Requests /\ r # None /\ r.seq = called + 1 /\ r.op = op
      /\ called' \in 0..MaxRequests /\ called \in Nat
  BY <1>0, <1>1, NewRequest DEF TypeOK
<1>3. /\ UNCHANGED <<waiting, running, starting, slots, settling, settled>>
      /\ Queued' = Queued /\ Pending' = Pending /\ OpenMutations' = OpenMutations
  <2>1. UNCHANGED <<waiting, running, starting, slots, settling, settled>>
    BY <1>1 DEF mutationVars, lines, fates
  <2> QED
    BY <2>1, MutationsStay
<1>4. MutationsInv'
  BY <1>0, <1>1, MutationsKept DEF Reached
<1>5. Nested'
  BY <1>0, <1>1 DEF Nested
<1>6. Places
  BY <1>0 DEF MutationsInv
<1>7. \A s \in settledReads : s \in 1..called
  BY <1>0, ReadNumbers
<1> DEFINE q == reads[op].queued
<1>8. /\ q \in Requests \cup {None} /\ reads[op].active \in Requests \cup {None}
      /\ reads[op].at \in {"none", "bridge", "result", "told"}
  BY <1>0, LaneTypes
<1>9. TypeOK' /\ ReadsInv' /\ Numbered' /\ Accounts' /\ NoReadBesideConflict'
  <2>1. CASE /\ ~ActiveSession /\ Tell({r.seq}) /\ UNCHANGED <<reads, latest>>
    <3>1. OpenReads' = OpenReads /\ ReadsHeld' = ReadsHeld /\ Held' = Held
      BY <2>1, <1>1, <1>3, ReadsStay DEF Held
    <3>2. r \notin Held
      BY <1>0, <1>2 DEF Numbered
    <3>3. Numbered'
      BY <3>1, <1>0, <1>1, NumberedStays
    <3>4. Accounts'
      <4>1. (OpenMutations \cup OpenReads)' = (OpenMutations \cup OpenReads \cup {r}) \ {r}
        BY <3>1, <3>2, <1>0, <1>3, <1>6, OpenIsHeld
      <4>2. {r.seq} = Seqs({r})
        BY DEF Seqs
      <4> HIDE DEF r
      <4> QED
        BY <4>1, <4>2, <2>1, <1>0, <1>1, <1>2, <1>6, AccountsStep
    <3>5. ReadsInv' /\ NoReadBesideConflict'
      BY <2>1, <1>0, <1>1, <1>3, ReadsKept, NoConflictKept DEF Reached
    <3>6. TypeOK'
      <4>1. outcome' \in [1..MaxRequests -> Nat]
        BY <2>1, <1>0 DEF TypeOK, Tell
      <4> QED
        BY <4>1, <2>1, <1>0, <1>1, <1>2, <1>3
        DEF TypeOK, mutationVars, journals, lines, fates
    <3> QED
      BY <3>3, <3>4, <3>5, <3>6
  <2>2. CASE /\ ActiveSession
             /\ latest' = [latest EXCEPT ![op] = r.seq]
             /\ Tell(IF q = None THEN {} ELSE {q.seq})
             /\ reads' = [reads EXCEPT ![op] = [@ EXCEPT !.queued = r]]
    <3>1. /\ \A k \in Lanes \ {op} : reads'[k] = reads[k]
          /\ reads'[op] = [active |-> reads[op].active, at |-> reads[op].at, queued |-> r]
          /\ reads' \in [Lanes -> [active : Requests \cup {None}, queued : Requests \cup {None},
                                  at : {"none", "bridge", "result", "told"}]]
      <4>1. reads \in [Lanes -> [active : Requests \cup {None}, queued : Requests \cup {None},
                                at : {"none", "bridge", "result", "told"}]]
        BY <1>0 DEF TypeOK
      <4>2. [reads[op] EXCEPT !.queued = r] =
              [active |-> reads[op].active, at |-> reads[op].at, queued |-> r]
        BY <1>0, <1>2, LaneChanges DEF TypeOK
      <4> HIDE DEF r
      <4> QED
        BY <4>1, <4>2, <2>2, <1>8, <1>2
    <3>2. /\ reads'[op].active = reads[op].active /\ reads'[op].at = reads[op].at
          /\ reads'[op].queued = r
      BY <3>1
    <3> HIDE DEF r
    <3>3. \A x : x \in ReadsHeld' => x \in ReadsHeld \/ x = r
      BY <3>1, <3>2, HeldReads
    <3>4. Numbered'
      <4>1. Held' \subseteq Held \cup {r}
        BY <3>3, <1>3 DEF Held
      <4> QED
        BY <4>1, <1>0, <1>1, <1>2, NumberedStep
    <3>5. Accounts'
      <4> DEFINE X == {q} \ {None}
      <4>1. r.seq \notin settledReads
        BY <1>2, <1>7
      <4>2. q # None => q \in OpenReads /\ q # r
        BY <1>0, <1>2, ReadNumbers, OpenReadsAre DEF r
      <4>3. \A x : x \in OpenReads' <=> (x \in OpenReads \/ x = r) /\ x \notin X
        <5>1. ASSUME NEW x, x \in OpenReads' PROVE (x \in OpenReads \/ x = r) /\ x \notin X
          <6>1. PICK k \in Lanes : x = reads'[k].active \/ x = reads'[k].queued
            BY <5>1, OpenReadsAre
          <6>2. x # None /\ x.seq \notin settledReads
            BY <5>1, <1>1, OpenReadsAre
          <6>3. x \in OpenReads \/ x = r
            BY <6>1, <6>2, <3>1, <3>2, OpenReadsAre
          <6>4. x # q
            BY <6>1, <6>2, <3>1, <3>2, <1>0, <4>2, ReadNumbers DEF ReadsInv, LaneInv
          <6> QED
            BY <6>3, <6>4
        <5>2. ASSUME NEW x, x \in OpenReads, x \notin X PROVE x \in OpenReads'
          <6>1. PICK k \in Lanes : x = reads[k].active \/ x = reads[k].queued
            BY <5>2, OpenReadsAre
          <6>2. x # None /\ x.seq \notin settledReads
            BY <5>2, OpenReadsAre
          <6>3. x = reads'[k].active \/ x = reads'[k].queued
            BY <6>1, <6>2, <5>2, <3>1, <3>2
          <6> QED
            BY <6>2, <6>3, <1>1, OpenReadsAre
        <5>3. r \in OpenReads'
          BY <4>1, <3>2, <1>1, <1>2, OpenReadsAre
        <5> QED
          BY <5>1, <5>2, <5>3, <4>2
      <4>4. (OpenMutations \cup OpenReads)' = (OpenMutations \cup OpenReads \cup {r}) \ X
        <5>1. q # None => q \notin OpenMutations
          BY <1>0, <1>6, <4>2, InFlightRuns, ReadOpsAre DEF MutationsInv, OpenReads
        <5> QED
          BY <4>3, <5>1, <1>3
      <4>5. Tell(Seqs(X))
        <5>1. Seqs(X) = IF q = None THEN {} ELSE {q.seq}
          BY DEF Seqs
        <5> QED
          BY <5>1, <2>2
      <4> HIDE DEF X
      <4>6. X \subseteq OpenMutations \cup OpenReads \cup {r}
        BY <4>2 DEF X
      <4>7. /\ \A p \in {r} : p.seq = called' /\ called' = called + 1
            /\ called' \in {called, called + 1} /\ called' \in 0..MaxRequests
        BY <1>0, <1>1, <1>2
      <4> DEFINE N == {r}
      <4>8. /\ N # {} /\ (\A p, s \in N : p = s)
            /\ \A p \in N : p.seq = called' /\ called' = called + 1
            /\ X \subseteq OpenMutations \cup OpenReads \cup N
            /\ (OpenMutations \cup OpenReads)' = (OpenMutations \cup OpenReads \cup N) \ X
        BY <4>4, <4>6, <4>7
      <4> HIDE DEF r, N
      <4> QED
        BY <4>5, <4>7, <4>8, <1>0, <1>6, AccountsStep
    <3>6. ReadsInv'
      <4>1. ~fenced
        BY <2>2 DEF ActiveSession
      <4>2. ASSUME NEW l \in Lanes PROVE LaneInv(l)'
        <5>1. CASE l = op
          <6>1. reads[op].active # r
            BY <1>0, <1>2, ReadNumbers DEF r
          <6> QED
            BY <5>1, <6>1, <3>2, <4>1, <1>0, <1>1, <1>2 DEF ReadsInv, LaneInv
        <5>2. CASE l # op
          BY <5>2, <3>1, <1>0, <1>1 DEF ReadsInv, LaneInv
        <5> QED
          BY <5>1, <5>2
      <4>3. ReadsHalfWay' = ReadsHalfWay /\ \A l \in Lanes : reads'[l].active = reads[l].active
        BY <3>1, <3>2 DEF ReadsHalfWay
      <4> QED
        BY <4>2, <4>3, <1>0, <1>1 DEF ReadsInv, Reached
    <3>7. NoReadBesideConflict'
      <4>1. ASSUME NEW l \in Lanes, NEW a, a = reads'[l].active, a # None, StillCurrentRead(a)'
            PROVE  ~BlockedByMutation(a)'
        <5>1. a = reads[l].active /\ a.op = l /\ a.seq \in 1..called
          BY <4>1, <3>1, <3>2, <1>0, ReadNumbers DEF ReadsInv, LaneInv
        <5>2. l # op
          <6>1. latest'[op] = r.seq
            BY <2>2, <1>0 DEF TypeOK
          <6>2. latest'[l] = a.seq
            BY <4>1, <5>1 DEF StillCurrentRead, AcceptsLatest
          <6> QED
            BY <6>1, <6>2, <5>1, <1>2
        <5>3. latest'[l] = latest[l]
          BY <5>2, <2>2, <1>0 DEF TypeOK
        <5>4. StillCurrentRead(a)
          BY <4>1, <5>1, <5>3, <1>1 DEF StillCurrentRead, AcceptsLatest, AcceptsSession,
                                        ActiveSession
        <5> QED
          BY <4>1, <5>1, <5>4, <1>0, <1>3 DEF NoReadBesideConflict, BlockedByMutation
      <4> QED
        BY <4>1, ConflictIntro
    <3>8. TypeOK'
      <4>1. outcome' \in [1..MaxRequests -> Nat]
        BY <2>2, <1>0 DEF TypeOK, Tell
      <4>2. latest' \in [Lanes -> 0..MaxRequests]
        <5>1. r.seq \in 0..MaxRequests
          BY <1>1, <1>2
        <5> QED
          BY <5>1, <2>2, <1>0 DEF TypeOK
      <4> QED
        BY <4>1, <4>2, <3>1, <1>0, <1>1, <1>2, <1>3
        DEF TypeOK, mutationVars, journals, lines, fates
    <3> QED
      BY <3>4, <3>5, <3>6, <3>7, <3>8
  <2>3. CASE /\ ActiveSession /\ reads[op].active = None /\ ~BlockedByMutation(r)
             /\ latest' = [latest EXCEPT ![op] = r.seq]
             /\ reads' = [reads EXCEPT ![op] = [@ EXCEPT !.active = r, !.at = "bridge"]]
             /\ UNCHANGED outcome
    <3>1. /\ \A k \in Lanes \ {op} : reads'[k] = reads[k]
          /\ reads'[op] = [active |-> r, at |-> "bridge", queued |-> q]
          /\ reads' \in [Lanes -> [active : Requests \cup {None}, queued : Requests \cup {None},
                                  at : {"none", "bridge", "result", "told"}]]
      <4>1. reads \in [Lanes -> [active : Requests \cup {None}, queued : Requests \cup {None},
                                at : {"none", "bridge", "result", "told"}]]
        BY <1>0 DEF TypeOK
      <4>2. [reads[op] EXCEPT !.active = r, !.at = "bridge"] =
              [active |-> r, at |-> "bridge", queued |-> q]
        <5>1. /\ reads[op] \in [active : Requests \cup {None}, queued : Requests \cup {None},
                                at : {"none", "bridge", "result", "told"}]
              /\ "bridge" \in {"none", "bridge", "result", "told"}
              /\ r \in Requests \cup {None}
          BY <4>1, <1>2
        <5> HIDE DEF r
        <5> QED
          BY <5>1, LaneChanges
      <4> HIDE DEF r
      <4> QED
        BY <4>1, <4>2, <2>3, <1>8, <1>2
    <3>2. /\ reads'[op].active = r /\ reads'[op].at = "bridge" /\ reads'[op].queued = q
      BY <3>1
    <3>3. ~BlockedByMutation(r)
      BY <2>3
    <3> HIDE DEF r
    <3> HIDE DEF q
    <3>4. \A x : x \in OpenReads' <=> x \in OpenReads \/ x = r
      <4>1. r.seq \notin settledReads
        BY <1>2, <1>7
      <4> QED
        BY <4>1, <3>1, <3>2, <2>3, <1>1, <1>2, OpenReadsAre DEF q
    <3>5. Numbered'
      <4>1. Held' \subseteq Held \cup {r}
        BY <3>1, <3>2, <1>3, HeldReads DEF Held, q
      <4> QED
        BY <4>1, <1>0, <1>1, <1>2, NumberedStep
    <3>6. Accounts'
      <4>1. (OpenMutations \cup OpenReads)' = (OpenMutations \cup OpenReads \cup {r}) \ {}
        BY <3>4, <1>3
      <4>2. Seqs({}) = {} /\ Tell({})
        BY <2>3, <1>0 DEF Seqs, Tell, TypeOK
      <4> QED
        BY <4>1, <4>2, <1>0, <1>1, <1>2, <1>6, AccountsStep
    <3>7. ReadsInv'
      <4>1. ~fenced
        BY <2>3 DEF ActiveSession
      <4>2. ASSUME NEW l \in Lanes PROVE LaneInv(l)'
        <5>1. CASE l = op
          <6>1. q # r
            BY <1>0, <1>2, ReadNumbers DEF q
          <6> QED
            BY <5>1, <6>1, <3>2, <4>1, <1>0, <1>1, <1>2 DEF ReadsInv, LaneInv, q
        <5>2. CASE l # op
          BY <5>2, <3>1, <1>0, <1>1 DEF ReadsInv, LaneInv
        <5> QED
          BY <5>1, <5>2
      <4>3. reads[op].at = "none"
        BY <2>3, <1>0 DEF ReadsInv, LaneInv
      <4>4. ReadsHalfWay' = ReadsHalfWay
        BY <3>1, <3>2, <4>3 DEF ReadsHalfWay
      <4>5. \A l \in Lanes : reads[l].active # None => reads'[l].active = reads[l].active
        BY <3>1, <2>3
      <4> QED
        BY <4>2, <4>4, <4>5, <1>0, <1>1 DEF ReadsInv, Reached
    <3>8. NoReadBesideConflict'
      <4>1. ASSUME NEW l \in Lanes, NEW a, a = reads'[l].active, a # None, StillCurrentRead(a)'
            PROVE  ~BlockedByMutation(a)'
        <5>1. CASE l = op
          BY <5>1, <4>1, <3>2, <3>3, <1>3 DEF BlockedByMutation
        <5>2. CASE l # op
          <6>1. a = reads[l].active /\ a.op = l
            BY <5>2, <4>1, <3>1, <1>0 DEF ReadsInv, LaneInv
          <6>2. latest'[l] = latest[l]
            BY <5>2, <2>3, <1>0 DEF TypeOK
          <6>3. StillCurrentRead(a)
            BY <4>1, <6>1, <6>2, <1>1 DEF StillCurrentRead, AcceptsLatest, AcceptsSession,
                                          ActiveSession
          <6> QED
            BY <4>1, <6>1, <6>3, <1>0, <1>3 DEF NoReadBesideConflict, BlockedByMutation
        <5> QED
          BY <5>1, <5>2
      <4> QED
        BY <4>1, ConflictIntro
    <3>9. TypeOK'
      <4>1. latest' \in [Lanes -> 0..MaxRequests]
        <5>1. r.seq \in 0..MaxRequests
          BY <1>1, <1>2
        <5> QED
          BY <5>1, <2>3, <1>0 DEF TypeOK
      <4> QED
        BY <4>1, <3>1, <2>3, <1>0, <1>1, <1>2, <1>3
        DEF TypeOK, mutationVars, journals, lines, fates
    <3> QED
      BY <3>5, <3>6, <3>7, <3>8, <3>9
  <2>4. \/ ~ActiveSession /\ Tell({r.seq}) /\ UNCHANGED <<reads, latest>>
        \/ /\ ActiveSession
           /\ latest' = [latest EXCEPT ![op] = r.seq]
           /\ Tell(IF q = None THEN {} ELSE {q.seq})
           /\ reads' = [reads EXCEPT ![op] = [@ EXCEPT !.queued = r]]
        \/ /\ ActiveSession /\ reads[op].active = None /\ ~BlockedByMutation(r)
           /\ latest' = [latest EXCEPT ![op] = r.seq]
           /\ reads' = [reads EXCEPT ![op] = [@ EXCEPT !.active = r, !.at = "bridge"]]
           /\ UNCHANGED outcome
    BY Zenon DEF SubmitRead
  <2> QED
    BY <2>1, <2>2, <2>3, <2>4
<1> QED
  BY <1>4, <1>5, <1>9 DEF MediaInv
-----------------------------------------------------------------------------
\* A step of the reads alone, which tells the callers of X.
LEMMA ReadsStep ==
  ASSUME MediaInv, UNCHANGED <<sessionVars, called, mutationVars, latest>>,
         TypeOK', Nested', ReadsInv',
         \A places : "reading" \notin places => (Reached(places)' <=> Reached(places)),
         \A x : x \in ReadsHeld' => x \in ReadsHeld,
         NEW X, X \subseteq OpenReads, Tell(Seqs(X)),
         \A x : x \in OpenReads' <=> x \in OpenReads /\ x \notin X,
         \A l \in Lanes : \A a :
           a = reads'[l].active /\ a # None /\ a.seq \notin settledReads' =>
             \/ a = reads[l].active /\ a.seq \notin settledReads
             \/ ~BlockedByMutation(a)
  PROVE  MediaInv'
<1>0. TypeOK /\ Numbered /\ Accounts /\ MutationsInv /\ ReadsInv /\ NoReadBesideConflict
      /\ Places /\ LinesInv
  BY DEF MediaInv, MutationsInv
<1>1. /\ UNCHANGED <<waiting, running, starting, slots, settling, settled>>
      /\ UNCHANGED <<session, fenced, shuttingDown>>
  BY DEF mutationVars, lines, fates, sessionVars
<1>2. Queued' = Queued /\ Pending' = Pending /\ OpenMutations' = OpenMutations
  BY <1>1, MutationsStay
<1>3. MutationsInv'
  BY <1>0, MutationsKept
<1>4. Numbered'
  BY <1>0, <1>2, NumberedStays DEF Held
<1>5. Accounts'
  <2>1. OpenMutations \cap OpenReads = {}
    BY <1>0, InFlightRuns, ReadOpsAre DEF OpenReads
  <2>2. (OpenMutations \cup OpenReads)' = (OpenMutations \cup OpenReads) \ X
    BY <2>1, <1>2
  <2> QED
    BY <2>2, <1>0, AccountsFall
<1>6. NoReadBesideConflict'
  <2>1. ASSUME NEW l \in Lanes, NEW a, a = reads'[l].active, a # None, StillCurrentRead(a)'
        PROVE  ~BlockedByMutation(a)'
    <3>1. CASE ~BlockedByMutation(a)
      BY <3>1, <1>2 DEF BlockedByMutation
    <3>2. CASE a = reads[l].active /\ a.seq \notin settledReads
      <4>1. StillCurrentRead(a)
        BY <2>1, <3>2, <1>1 DEF StillCurrentRead, AcceptsLatest, AcceptsSession, ActiveSession
      <4> QED
        BY <4>1, <2>1, <3>2, <1>0, <1>2 DEF NoReadBesideConflict, BlockedByMutation
    <3>3. a.seq \notin settledReads'
      BY <2>1 DEF StillCurrentRead
    <3> QED
      BY <2>1, <3>1, <3>2, <3>3
  <2> QED
    BY <2>1, ConflictIntro
<1> QED
  BY <1>3, <1>4, <1>5, <1>6 DEF MediaInv

\* What changes in a lane that is released, and in one that moves on.
LEMMA LaneReleases ==
  ASSUME TypeOK, NEW l \in Lanes, Release(l)
  PROVE  /\ \A k \in Lanes \ {l} : reads'[k] = reads[k]
         /\ reads'[l].active = None /\ reads'[l].at = "none"
         /\ reads'[l].queued = reads[l].queued
         /\ reads' \in [Lanes -> [active : Requests \cup {None}, queued : Requests \cup {None},
                                at : {"none", "bridge", "result", "told"}]]
         /\ settledReads' = settledReads \ {reads[l].active.seq}
         /\ posted' \in Seq({"dispatch", "pump"})
<1>1. reads \in [Lanes -> [active : Requests \cup {None}, queued : Requests \cup {None},
                          at : {"none", "bridge", "result", "told"}]]
  BY DEF TypeOK
<1>2. [reads[l] EXCEPT !.active = None, !.at = "none"] =
        [active |-> None, at |-> "none", queued |-> reads[l].queued]
  <2>1. /\ reads[l] \in [active : Requests \cup {None}, queued : Requests \cup {None},
                        at : {"none", "bridge", "result", "told"}]
        /\ "none" \in {"none", "bridge", "result", "told"} /\ None \in Requests \cup {None}
    BY <1>1
  <2> QED
    BY <2>1, LaneChanges
<1>3. posted' \in Seq({"dispatch", "pump"})
  BY DEF TypeOK, Release, Post
<1> QED
  BY <1>1, <1>2, <1>3 DEF Release

LEMMA LaneMoves ==
  ASSUME TypeOK, NEW l \in Lanes, NEW p \in {"none", "bridge", "result", "told"},
         reads' = [reads EXCEPT ![l] = [@ EXCEPT !.at = p]]
  PROVE  /\ \A k \in Lanes \ {l} : reads'[k] = reads[k]
         /\ reads'[l].active = reads[l].active /\ reads'[l].at = p
         /\ reads'[l].queued = reads[l].queued
         /\ reads' \in [Lanes -> [active : Requests \cup {None}, queued : Requests \cup {None},
                                at : {"none", "bridge", "result", "told"}]]
<1>1. reads \in [Lanes -> [active : Requests \cup {None}, queued : Requests \cup {None},
                          at : {"none", "bridge", "result", "told"}]]
  BY DEF TypeOK
<1>2. [reads[l] EXCEPT !.at = p] =
        [active |-> reads[l].active, at |-> p, queued |-> reads[l].queued]
  BY <1>1, LaneChanges
<1> QED
  BY <1>1, <1>2

\* What a read that is released leaves: the others, and nothing of its own.
LEMMA ReleaseLeaves ==
  ASSUME TypeOK, Numbered, ReadsInv, NEW l \in Lanes, Release(l), UNCHANGED fenced,
         reads[l].active # None, reads[l].active.seq \in settledReads
  PROVE  /\ \A x : x \in ReadsHeld' => x \in ReadsHeld
         /\ \A x : x \in OpenReads' <=> x \in OpenReads
         /\ \A k \in Lanes : LaneInv(k)'
         /\ \A s \in settledReads' :
              \E k \in Lanes : reads'[k].active # None /\ reads'[k].active.seq = s
         /\ ReadsHalfWay' = ReadsHalfWay \ {l}
         /\ \A k \in Lanes : \A a :
              a = reads'[k].active /\ a # None /\ a.seq \notin settledReads' =>
                a = reads[k].active /\ a.seq \notin settledReads
<1> DEFINE r == reads[l].active
<1>1. /\ \A k \in Lanes \ {l} : reads'[k] = reads[k]
      /\ reads'[l].active = None /\ reads'[l].at = "none"
      /\ reads'[l].queued = reads[l].queued
      /\ settledReads' = settledReads \ {r.seq}
  BY LaneReleases
<1>2. ASSUME NEW k \in Lanes, NEW x, x = reads[k].active \/ x = reads[k].queued, x # None, x # r
      PROVE  x.seq # r.seq
  <2>1. x \in Held /\ r \in Held
    BY <1>2, HeldReads DEF Held
  <2> QED
    BY <2>1, <1>2 DEF Numbered
<1>3. \A k \in Lanes \ {l} : reads[k].active # r /\ reads[k].queued # r
  BY ReadNumbers
<1>4. reads[l].queued # r
  BY DEF ReadsInv, LaneInv
<1> HIDE DEF r
<1>5. \A x : x \in ReadsHeld' => x \in ReadsHeld
  BY <1>1, HeldReads
<1>6. ASSUME NEW x PROVE x \in OpenReads' <=> x \in OpenReads
  <2>1. ASSUME x \in OpenReads' PROVE x \in OpenReads
    <3>1. PICK k \in Lanes : x = reads'[k].active \/ x = reads'[k].queued
      BY <2>1, OpenReadsAre
    <3>2. x # None /\ x.seq \notin settledReads'
      BY <2>1, OpenReadsAre
    <3>3. x = reads[k].active \/ x = reads[k].queued
      BY <3>1, <3>2, <1>1
    <3>4. x # r
      BY <3>1, <3>2, <1>1, <1>3, <1>4
    <3>5. x.seq \notin settledReads
      BY <3>2, <3>3, <3>4, <1>1, <1>2
    <3> QED
      BY <3>2, <3>3, <3>5, OpenReadsAre
  <2>2. ASSUME x \in OpenReads PROVE x \in OpenReads'
    <3>1. PICK k \in Lanes : x = reads[k].active \/ x = reads[k].queued
      BY <2>2, OpenReadsAre
    <3>2. x # None /\ x.seq \notin settledReads
      BY <2>2, OpenReadsAre
    <3>3. x # r
      BY <3>2 DEF r
    <3>4. x = reads'[k].active \/ x = reads'[k].queued
      BY <3>1, <3>3, <1>1 DEF r
    <3> QED
      BY <3>2, <3>4, <1>1, OpenReadsAre
  <2> QED
    BY <2>1, <2>2
<1>7. ASSUME NEW k \in Lanes PROVE LaneInv(k)'
  <2>1. CASE k = l
    BY <2>1, <1>1 DEF ReadsInv, LaneInv
  <2>2. CASE k # l
    <3>1. reads[k].active # None => reads[k].active.seq # r.seq
      BY <2>2, <1>2, <1>3
    <3>2. reads[k].at = "told" => reads[k].active # None
      BY DEF ReadsInv, LaneInv
    <3> QED
      BY <2>2, <3>1, <3>2, <1>1 DEF ReadsInv, LaneInv
  <2> QED
    BY <2>1, <2>2
<1>8. ASSUME NEW s \in settledReads'
      PROVE  \E k \in Lanes : reads'[k].active # None /\ reads'[k].active.seq = s
  <2>1. PICK k \in Lanes : reads[k].active # None /\ reads[k].active.seq = s
    BY <1>1 DEF ReadsInv
  <2>2. k # l
    BY <2>1, <1>1 DEF r
  <2> QED
    BY <2>1, <2>2, <1>1
<1>9. ReadsHalfWay' = ReadsHalfWay \ {l}
  BY <1>1 DEF ReadsHalfWay
<1>10. ASSUME NEW k \in Lanes, NEW a, a = reads'[k].active, a # None, a.seq \notin settledReads'
       PROVE  a = reads[k].active /\ a.seq \notin settledReads
  BY <1>10, <1>1, <1>2, <1>3
<1> QED
  BY <1>5, <1>6, <1>7, <1>8, <1>9, <1>10

\* What a read that is told leaves: the others, and a settled one.
LEMMA ToldLeaves ==
  ASSUME TypeOK, Numbered, ReadsInv, NEW l \in Lanes, UNCHANGED fenced,
         reads[l].active # None,
         reads' = [reads EXCEPT ![l] = [@ EXCEPT !.at = "told"]],
         settledReads' = settledReads \cup {reads[l].active.seq}
  PROVE  /\ \A x : x \in ReadsHeld' => x \in ReadsHeld
         /\ \A x : x \in OpenReads' <=> x \in OpenReads /\ x \notin {reads[l].active} \cap OpenReads
         /\ Seqs({reads[l].active} \cap OpenReads) = {reads[l].active.seq} \ settledReads
         /\ \A k \in Lanes : LaneInv(k)'
         /\ \A s \in settledReads' :
              \E k \in Lanes : reads'[k].active # None /\ reads'[k].active.seq = s
         /\ \A k \in Lanes \ {l} : k \in ReadsHalfWay' <=> k \in ReadsHalfWay
         /\ \A k \in Lanes : \A a :
              a = reads'[k].active /\ a # None /\ a.seq \notin settledReads' =>
                a = reads[k].active /\ a.seq \notin settledReads
<1> DEFINE r == reads[l].active
<1>1. /\ \A k \in Lanes \ {l} : reads'[k] = reads[k]
      /\ reads'[l].active = r /\ reads'[l].at = "told"
      /\ reads'[l].queued = reads[l].queued
      /\ settledReads' = settledReads \cup {r.seq}
  BY LaneMoves
<1>2. r # None /\ r.op = l
  BY DEF ReadsInv, LaneInv
<1>3. ASSUME NEW x, x \in OpenReads, x # r PROVE x.seq # r.seq
  <2>1. x \in Held /\ r \in Held
    BY <1>3, <1>2, OpenReadsAre, HeldReads DEF Held
  <2> QED
    BY <2>1, <1>3 DEF Numbered
<1>4. Seqs({r} \cap OpenReads) = {r.seq} \ settledReads
  <2>1. r \in OpenReads <=> r.seq \notin settledReads
    BY <1>2, OpenReadsAre
  <2> HIDE DEF r
  <2> QED
    BY <2>1 DEF Seqs
<1>5. reads[l].queued = r => FALSE
  BY <1>2 DEF ReadsInv, LaneInv
<1> HIDE DEF r
<1>6. \A k \in Lanes : reads'[k].active = reads[k].active /\ reads'[k].queued = reads[k].queued
  BY <1>1 DEF r
<1>7. \A x : x \in ReadsHeld' => x \in ReadsHeld
  BY <1>6, HeldReads
<1>8. ASSUME NEW x PROVE x \in OpenReads' <=> x \in OpenReads /\ x \notin {r} \cap OpenReads
  <2>1. x \in OpenReads' <=> x \in OpenReads /\ x.seq \notin settledReads'
    BY <1>6, <1>1, OpenReadsAre
  <2>2. x \in OpenReads => (x.seq \notin settledReads' <=> x # r)
    BY <1>1, <1>3, OpenReadsAre
  <2> QED
    BY <2>1, <2>2
<1>9. ASSUME NEW k \in Lanes PROVE LaneInv(k)'
  <2>1. CASE k = l
    BY <2>1, <1>1, <1>2 DEF ReadsInv, LaneInv, r
  <2>2. CASE k # l
    BY <2>2, <1>1 DEF ReadsInv, LaneInv
  <2> QED
    BY <2>1, <2>2
<1>10. \A s \in settledReads' :
         \E k \in Lanes : reads'[k].active # None /\ reads'[k].active.seq = s
  BY <1>1, <1>2, <1>6 DEF ReadsInv
<1>11. \A k \in Lanes \ {l} : k \in ReadsHalfWay' <=> k \in ReadsHalfWay
  BY <1>1 DEF ReadsHalfWay
<1>12. \A k \in Lanes : \A a :
         a = reads'[k].active /\ a # None /\ a.seq \notin settledReads' =>
           a = reads[k].active /\ a.seq \notin settledReads
  BY <1>1, <1>6
<1> QED
  BY <1>4, <1>7, <1>8, <1>9, <1>10, <1>11, <1>12 DEF r

LEMMA FinishReadInv ==
  ASSUME MediaInv, NEW l \in Lanes, FinishRead(l)
  PROVE  MediaInv'
<1> DEFINE r == reads[l].active
<1>0. TypeOK /\ Numbered /\ Nested /\ ReadsInv
  BY DEF MediaInv
<1>1. /\ Quiet /\ reads[l].at = "bridge"
      /\ UNCHANGED <<sessionVars, called, mutationVars, latest>>
      /\ \/ /\ r.seq \in settledReads
            /\ Release(l)
            /\ UNCHANGED <<outcome, turn>>
         \/ /\ r.seq \notin settledReads
            /\ Tell({r.seq})
            /\ settledReads' = settledReads \cup {r.seq}
            /\ reads' = [reads EXCEPT ![l] = [@ EXCEPT !.at = "told"]]
            /\ Call("reading")
            /\ UNCHANGED posted
         \/ /\ StillCurrentRead(r)
            /\ reads' = [reads EXCEPT ![l] = [@ EXCEPT !.at = "result"]]
            /\ Call("reading")
            /\ UNCHANGED <<outcome, settledReads, posted>>
  BY DEF FinishRead
<1>2. r # None /\ r.op = l
  BY <1>0, <1>1 DEF ReadsInv, LaneInv
<1>3. UNCHANGED <<session, fenced, shuttingDown>>
  BY <1>1 DEF sessionVars
<1>4. turn = <<>> /\ \A places : ~Reached(places)
  BY <1>0, <1>1, NowhereWhenQuiet
<1>5. ReadsHalfWay = {} /\ \A k, m \in ReadsHalfWay : k = m
  BY <1>0, <1>4 DEF ReadsInv
<1>6. ASSUME Call("reading")
      PROVE  /\ Nested' /\ Reached({"reading"})'
             /\ turn' \in Seq(TurnPlaces)
             /\ \A places : "reading" \notin places => (Reached(places)' <=> Reached(places))
  <2>1. "reading" \in TurnPlaces /\ "reading" \notin DispatchPlaces
    BY DEF TurnPlaces, Emitting, DispatchPlaces
  <2> QED
    BY <2>1, <1>0, <1>4, <1>6, NestedCall, TurnCalls
<1>7. ASSUME turn' \in Seq(TurnPlaces), posted' \in Seq({"dispatch", "pump"}),
             settledReads' \subseteq 1..MaxRequests, outcome' \in [1..MaxRequests -> Nat],
             reads' \in [Lanes -> [active : Requests \cup {None}, queued : Requests \cup {None},
                                  at : {"none", "bridge", "result", "told"}]]
      PROVE  TypeOK'
  BY <1>0, <1>1, <1>3, <1>7
  DEF TypeOK, TurnPlaces, mutationVars, journals, lines, fates
<1>8. \A T : Tell(T) => outcome' \in [1..MaxRequests -> Nat]
  BY <1>0 DEF TypeOK, Tell
<1>9. CASE r.seq \in settledReads /\ Release(l) /\ UNCHANGED <<outcome, turn>>
  <2>1. TypeOK'
    BY <1>0, <1>7, <1>9, LaneReleases DEF TypeOK, TurnPlaces
  <2>2. /\ \A x : x \in ReadsHeld' => x \in ReadsHeld
        /\ \A x : x \in OpenReads' <=> x \in OpenReads
        /\ \A k \in Lanes : LaneInv(k)'
        /\ \A s \in settledReads' :
             \E k \in Lanes : reads'[k].active # None /\ reads'[k].active.seq = s
        /\ ReadsHalfWay' = ReadsHalfWay \ {l}
        /\ \A k \in Lanes : \A a :
             a = reads'[k].active /\ a # None /\ a.seq \notin settledReads' =>
               a = reads[k].active /\ a.seq \notin settledReads
    BY <1>0, <1>2, <1>3, <1>9, ReleaseLeaves
  <2>3. ReadsInv'
    BY <2>2, <1>5 DEF ReadsInv
  <2>4. Nested' /\ \A places : Reached(places)' <=> Reached(places)
    BY <1>0, <1>9 DEF Nested, Reached
  <2> DEFINE X == {}
  <2>5. X \subseteq OpenReads /\ Tell(Seqs(X)) /\ \A x : x \notin X
    BY <1>0, <1>9 DEF Tell, Seqs, TypeOK
  <2> HIDE DEF X
  <2>6. \A x : x \in OpenReads' <=> x \in OpenReads /\ x \notin X
    BY <2>2, <2>5
  <2> QED
    BY <2>1, <2>2, <2>3, <2>4, <2>5, <2>6, <1>1, ReadsStep
<1>10. CASE /\ r.seq \notin settledReads /\ Tell({r.seq})
            /\ settledReads' = settledReads \cup {r.seq}
            /\ reads' = [reads EXCEPT ![l] = [@ EXCEPT !.at = "told"]]
            /\ Call("reading")
            /\ UNCHANGED posted
  <2>1. TypeOK'
    <3>1. r.seq \in 1..MaxRequests
      <4>1. r.seq \in 1..called
        BY <1>0, <1>2, ReadNumbers
      <4> QED
        BY <4>1, <1>0, CalledBound
    <3>2. settledReads' \subseteq 1..MaxRequests
      BY <3>1, <1>10, <1>0 DEF TypeOK
    <3>3. reads' \in [Lanes -> [active : Requests \cup {None}, queued : Requests \cup {None},
                                at : {"none", "bridge", "result", "told"}]]
      BY <1>0, <1>10, LaneMoves
    <3> QED
      BY <1>0, <3>2, <3>3, <1>6, <1>7, <1>8, <1>10 DEF TypeOK
  <2> DEFINE X == {r} \cap OpenReads
  <2>2. /\ \A x : x \in ReadsHeld' => x \in ReadsHeld
        /\ \A x : x \in OpenReads' <=> x \in OpenReads /\ x \notin X
        /\ Seqs(X) = {r.seq} \ settledReads
        /\ \A k \in Lanes : LaneInv(k)'
        /\ \A s \in settledReads' :
             \E k \in Lanes : reads'[k].active # None /\ reads'[k].active.seq = s
        /\ \A k \in Lanes \ {l} : k \in ReadsHalfWay' <=> k \in ReadsHalfWay
        /\ \A k \in Lanes : \A a :
             a = reads'[k].active /\ a # None /\ a.seq \notin settledReads' =>
               a = reads[k].active /\ a.seq \notin settledReads
    BY <1>0, <1>2, <1>3, <1>10, ToldLeaves
  <2>3. ReadsInv'
    <3>1. ReadsHalfWay' \subseteq {l}
      BY <2>2, <1>5 DEF ReadsHalfWay
    <3> QED
      BY <3>1, <2>2, <1>6, <1>10 DEF ReadsInv
  <2>4. {r.seq} \ settledReads = {r.seq}
    BY <1>10
  <2>5. X \subseteq OpenReads /\ Tell(Seqs(X))
    <3>1. X \subseteq OpenReads
      OBVIOUS
    <3> HIDE DEF X
    <3>2. Seqs(X) = {r.seq}
      BY <2>2, <2>4
    <3>3. Tell({r.seq})
      BY <1>10
    <3> HIDE DEF r
    <3> QED
      BY <3>1, <3>2, <3>3
  <2> HIDE DEF X, r
  <2> QED
    BY <2>1, <2>2, <2>3, <2>5, <1>6, <1>10, <1>1, ReadsStep
<1>11. CASE /\ StillCurrentRead(r)
            /\ reads' = [reads EXCEPT ![l] = [@ EXCEPT !.at = "result"]]
            /\ Call("reading")
            /\ UNCHANGED <<outcome, settledReads, posted>>
  <2>1. /\ \A k \in Lanes \ {l} : reads'[k] = reads[k]
        /\ reads'[l].active = reads[l].active /\ reads'[l].at = "result"
        /\ reads'[l].queued = reads[l].queued
        /\ reads' \in [Lanes -> [active : Requests \cup {None}, queued : Requests \cup {None},
                                at : {"none", "bridge", "result", "told"}]]
    BY <1>0, <1>11, LaneMoves
  <2>2. TypeOK'
    BY <1>0, <2>1, <1>6, <1>7, <1>11 DEF TypeOK
  <2>3. \A k \in Lanes : reads'[k].active = reads[k].active /\ reads'[k].queued = reads[k].queued
    BY <2>1
  <2>4. /\ \A x : x \in ReadsHeld' => x \in ReadsHeld
        /\ \A x : x \in OpenReads' <=> x \in OpenReads
    BY <2>3, <1>11, HeldReads, OpenReadsAre
  <2>5. ReadsInv'
    <3>1. ReadsHalfWay' \subseteq {l}
      BY <2>1, <1>5 DEF ReadsHalfWay
    <3>2. ASSUME NEW k \in Lanes PROVE LaneInv(k)'
      <4>1. LaneInv(k)
        BY <1>0 DEF ReadsInv
      <4>2. CASE k = l
        BY <4>1, <4>2, <2>1, <1>2, <1>3, <1>11 DEF LaneInv
      <4>3. CASE k # l
        BY <4>1, <4>3, <2>1, <1>3, <1>11 DEF LaneInv
      <4> QED
        BY <4>2, <4>3
    <3>3. \A s \in settledReads' :
            \E k \in Lanes : reads'[k].active # None /\ reads'[k].active.seq = s
      BY <2>3, <1>0, <1>11 DEF ReadsInv
    <3> QED
      BY <3>1, <3>2, <3>3, <1>6, <1>11 DEF ReadsInv
  <2> DEFINE X == {}
  <2>6. X \subseteq OpenReads /\ Tell(Seqs(X)) /\ \A x : x \notin X
    BY <1>0, <1>11 DEF Tell, Seqs, TypeOK
  <2> HIDE DEF X, r
  <2>7. \A x : x \in OpenReads' <=> x \in OpenReads /\ x \notin X
    BY <2>4, <2>6
  <2>8. \A k \in Lanes : \A a :
          a = reads'[k].active /\ a # None /\ a.seq \notin settledReads' =>
            a = reads[k].active /\ a.seq \notin settledReads
    BY <2>3, <1>11
  <2> QED
    BY <2>2, <2>4, <2>5, <2>6, <2>7, <2>8, <1>6, <1>11, <1>1, ReadsStep
<1> QED
  BY <1>1, <1>9, <1>10, <1>11

LEMMA AnswerReadInv ==
  ASSUME MediaInv, NEW l \in Lanes, AnswerRead(l)
  PROVE  MediaInv'
<1> DEFINE r == reads[l].active
           X == {r} \cap OpenReads
<1>0. TypeOK /\ Numbered /\ Nested /\ ReadsInv
  BY DEF MediaInv
<1>1. /\ At("reading") /\ reads[l].at = "result"
      /\ Tell({r.seq} \ settledReads)
      /\ settledReads' = settledReads \cup {r.seq}
      /\ reads' = [reads EXCEPT ![l] = [@ EXCEPT !.at = "told"]]
      /\ UNCHANGED <<sessionVars, called, turnVars, mutationVars, latest>>
  BY DEF AnswerRead
<1>2. r # None
  BY <1>0, <1>1 DEF ReadsInv, LaneInv
<1>3. UNCHANGED <<session, fenced, shuttingDown, turn, posted>>
  BY <1>1 DEF sessionVars, turnVars
<1>4. /\ \A x : x \in ReadsHeld' => x \in ReadsHeld
      /\ \A x : x \in OpenReads' <=> x \in OpenReads /\ x \notin X
      /\ Seqs(X) = {r.seq} \ settledReads
      /\ \A k \in Lanes : LaneInv(k)'
      /\ \A s \in settledReads' :
           \E k \in Lanes : reads'[k].active # None /\ reads'[k].active.seq = s
      /\ \A k \in Lanes \ {l} : k \in ReadsHalfWay' <=> k \in ReadsHalfWay
      /\ \A k \in Lanes : \A a :
           a = reads'[k].active /\ a # None /\ a.seq \notin settledReads' =>
             a = reads[k].active /\ a.seq \notin settledReads
  BY <1>0, <1>1, <1>2, <1>3, ToldLeaves
<1>5. TypeOK'
  <2>1. r.seq \in 1..MaxRequests
    <3>1. r.seq \in 1..called
      BY <1>0, <1>2, ReadNumbers
    <3> QED
      BY <3>1, <1>0, CalledBound
  <2>2. settledReads' \subseteq 1..MaxRequests
    BY <2>1, <1>1, <1>0 DEF TypeOK
  <2>3. reads' \in [Lanes -> [active : Requests \cup {None}, queued : Requests \cup {None},
                              at : {"none", "bridge", "result", "told"}]]
    BY <1>0, <1>1, LaneMoves
  <2>4. outcome' \in [1..MaxRequests -> Nat]
    BY <1>0, <1>1 DEF TypeOK, Tell
  <2> QED
    BY <1>0, <1>1, <1>3, <2>2, <2>3, <2>4 DEF TypeOK, mutationVars, journals, lines, fates
<1>6. Nested' /\ \A places : Reached(places)' <=> Reached(places)
  BY <1>0, <1>3 DEF Nested, Reached
<1>7. Reached({"reading"})
  BY <1>0, <1>1, Here
<1>8. ReadsInv'
  <2>1. l \in ReadsHalfWay
    BY <1>1 DEF ReadsHalfWay
  <2>2. ReadsHalfWay \subseteq {l}
    BY <2>1, <1>0 DEF ReadsInv
  <2>3. ReadsHalfWay' \subseteq {l}
    BY <2>2, <1>4 DEF ReadsHalfWay
  <2> QED
    BY <2>3, <1>4, <1>6, <1>7 DEF ReadsInv
<1>9. X \subseteq OpenReads /\ Tell(Seqs(X))
  BY <1>1, <1>4
<1> HIDE DEF X, r
<1> QED
  BY <1>1, <1>4, <1>5, <1>6, <1>8, <1>9, ReadsStep

LEMMA EndReadInv ==
  ASSUME MediaInv, NEW l \in Lanes, EndRead(l)
  PROVE  MediaInv'
<1>0. TypeOK /\ Numbered /\ Nested /\ ReadsInv
  BY DEF MediaInv
<1>1. /\ At("reading") /\ reads[l].at = "told" /\ Release(l) /\ Return
      /\ UNCHANGED <<sessionVars, called, outcome, mutationVars, latest>>
  BY DEF EndRead
<1>2. reads[l].active # None /\ reads[l].active.seq \in settledReads
  BY <1>0, <1>1 DEF ReadsInv, LaneInv
<1>3. UNCHANGED <<session, fenced, shuttingDown>>
  BY <1>1 DEF sessionVars
<1>4. turn # <<>> /\ turn[Len(turn)] = "reading" /\ Len(turn) \in 1..Len(turn)
  BY <1>0, <1>1, Here
<1>5. /\ Nested' /\ turn' \in Seq(TurnPlaces)
      /\ \A places : "reading" \notin places => (Reached(places)' <=> Reached(places))
  BY <1>0, <1>1, <1>4, NestedReturn, TurnReturns
<1>6. /\ \A x : x \in ReadsHeld' => x \in ReadsHeld
      /\ \A x : x \in OpenReads' <=> x \in OpenReads
      /\ \A k \in Lanes : LaneInv(k)'
      /\ \A s \in settledReads' :
           \E k \in Lanes : reads'[k].active # None /\ reads'[k].active.seq = s
      /\ ReadsHalfWay' = ReadsHalfWay \ {l}
      /\ \A k \in Lanes : \A a :
           a = reads'[k].active /\ a # None /\ a.seq \notin settledReads' =>
             a = reads[k].active /\ a.seq \notin settledReads
  BY <1>0, <1>1, <1>2, <1>3, ReleaseLeaves
<1>7. ReadsInv'
  <2>1. l \in ReadsHalfWay
    BY <1>1 DEF ReadsHalfWay
  <2>2. ReadsHalfWay' = {}
    BY <2>1, <1>6, <1>0 DEF ReadsInv
  <2> QED
    BY <2>2, <1>6 DEF ReadsInv
<1>8. TypeOK'
  <2>1. /\ posted' \in Seq({"dispatch", "pump"})
        /\ settledReads' = settledReads \ {reads[l].active.seq}
        /\ reads' \in [Lanes -> [active : Requests \cup {None}, queued : Requests \cup {None},
                                at : {"none", "bridge", "result", "told"}]]
    BY <1>0, <1>1, LaneReleases
  <2>2. settledReads' \subseteq 1..MaxRequests
    BY <2>1, <1>0 DEF TypeOK
  <2> QED
    BY <1>0, <1>1, <1>3, <1>5, <2>1, <2>2
    DEF TypeOK, TurnPlaces, mutationVars, journals, lines, fates
<1> DEFINE X == {}
<1>9. X \subseteq OpenReads /\ Tell(Seqs(X)) /\ \A x : x \notin X
  BY <1>0, <1>1 DEF Tell, Seqs, TypeOK
<1> HIDE DEF X
<1>10. \A x : x \in OpenReads' <=> x \in OpenReads /\ x \notin X
  BY <1>6, <1>9
<1> QED
  BY <1>1, <1>5, <1>6, <1>7, <1>8, <1>9, <1>10, ReadsStep

\* The pump tells each stale read, and starts each that nothing holds back.
LEMMA PumpedIs ==
  ASSUME TypeOK, ReadsInv, NEW l \in Lanes
  PROVE  /\ ~Idle(l) \/ (~Stale(reads[l].queued) /\ BlockedByMutation(reads[l].queued))
              => Pumped(l) = reads[l]
         /\ Idle(l) /\ Stale(reads[l].queued) =>
              Pumped(l) = [active |-> None, at |-> "none", queued |-> None]
         /\ Idle(l) /\ ~Stale(reads[l].queued) /\ ~BlockedByMutation(reads[l].queued) =>
              Pumped(l) = [active |-> reads[l].queued, at |-> "bridge", queued |-> None]
         /\ Pumped(l) \in [active : Requests \cup {None}, queued : Requests \cup {None},
                           at : {"none", "bridge", "result", "told"}]
<1>1. reads[l] \in [active : Requests \cup {None}, queued : Requests \cup {None},
                    at : {"none", "bridge", "result", "told"}]
  BY DEF TypeOK
<1>2. [reads[l] EXCEPT !.queued = None] =
        [active |-> reads[l].active, at |-> reads[l].at, queued |-> None]
  <2>1. None \in Requests \cup {None}
    OBVIOUS
  <2> QED
    BY <1>1, <2>1, LaneChanges
<1>3. Idle(l) => reads[l].active = None /\ reads[l].at = "none"
  BY DEF Idle, ReadsInv, LaneInv
<1>4. ~Idle(l) \/ (~Stale(reads[l].queued) /\ BlockedByMutation(reads[l].queued))
        => Pumped(l) = reads[l]
  BY DEF Pumped
<1>5. Idle(l) /\ Stale(reads[l].queued) =>
        Pumped(l) = [active |-> None, at |-> "none", queued |-> None]
  BY <1>2, <1>3 DEF Pumped
<1>6. Idle(l) /\ ~Stale(reads[l].queued) /\ ~BlockedByMutation(reads[l].queued) =>
        Pumped(l) = [active |-> reads[l].queued, at |-> "bridge", queued |-> None]
  BY DEF Pumped
<1>7. Pumped(l) \in [active : Requests \cup {None}, queued : Requests \cup {None},
                     at : {"none", "bridge", "result", "told"}]
  BY <1>1, <1>4, <1>5, <1>6
<1> QED
  BY <1>4, <1>5, <1>6, <1>7

LEMMA PumpInv == ASSUME MediaInv, Pump PROVE MediaInv'
<1> DEFINE Gone == {k \in Lanes : Idle(k) /\ Stale(reads[k].queued)}
           Started == {k \in Lanes : /\ Idle(k) /\ ~Stale(reads[k].queued)
                                     /\ ~BlockedByMutation(reads[k].queued)}
           X == {reads[k].queued : k \in Gone}
<1>0. TypeOK /\ Numbered /\ Nested /\ ReadsInv
  BY DEF MediaInv
<1>1. /\ Quiet /\ posted # <<>> /\ posted' = Tail(posted)
      /\ reads' = [l \in Lanes |-> Pumped(l)]
      /\ Tell({reads[l].queued.seq : l \in Gone})
      /\ UNCHANGED <<sessionVars, called, turn, mutationVars, latest, settledReads>>
  BY DEF Pump
<1>2. UNCHANGED <<session, fenced, shuttingDown, turn, settledReads>>
  BY <1>1 DEF sessionVars
<1>3. /\ \A l \in Lanes : reads'[l] = Pumped(l)
      /\ \A l \in Lanes : Pumped(l) \in
           [active : Requests \cup {None}, queued : Requests \cup {None},
            at : {"none", "bridge", "result", "told"}]
  BY <1>0, <1>1, PumpedIs
<1>4. /\ \A l \in Gone : /\ reads'[l] = [active |-> None, at |-> "none", queued |-> None]
                         /\ reads[l].active = None /\ reads[l].queued # None
      /\ \A l \in Started : /\ reads'[l] = [active |-> reads[l].queued, at |-> "bridge",
                                            queued |-> None]
                            /\ reads[l].active = None /\ reads[l].queued # None
      /\ \A l \in Lanes : l \in Gone \/ l \in Started \/ reads'[l] = reads[l]
      /\ \A l \in Started : l \notin Gone
  BY <1>0, <1>3, PumpedIs DEF Idle
<1>5. \A l \in Started : ~BlockedByMutation(reads[l].queued) /\ ~Stale(reads[l].queued)
  OBVIOUS
<1>6. \A l \in Gone : l \in Lanes
  OBVIOUS
<1>7. \A l \in Started : l \in Lanes
  OBVIOUS
<1>8. \A l \in Lanes : l \in Gone => reads[l].queued \in X
  OBVIOUS
<1>9. \A x \in X : \E k \in Gone : x = reads[k].queued
  OBVIOUS
<1>10. Tell(Seqs(X))
  <2>1. Seqs(X) = {reads[l].queued.seq : l \in Gone}
    BY DEF Seqs
  <2> QED
    BY <2>1, <1>1
<1>11. \A l \in Started : ActiveSession
  BY DEF Stale, AcceptsSession
<1> HIDE DEF Gone, Started, X
<1>12. TypeOK'
  <2>1. posted' \in Seq({"dispatch", "pump"})
    BY <1>0, <1>1 DEF TypeOK
  <2>2. reads' \in [Lanes -> [active : Requests \cup {None}, queued : Requests \cup {None},
                              at : {"none", "bridge", "result", "told"}]]
    BY <1>1, <1>3
  <2>3. outcome' \in [1..MaxRequests -> Nat]
    BY <1>0, <1>1 DEF TypeOK, Tell
  <2> QED
    BY <1>0, <1>1, <1>2, <2>1, <2>2, <2>3 DEF TypeOK, mutationVars, journals, lines, fates
<1>13. Nested' /\ \A places : Reached(places)' <=> Reached(places)
  BY <1>0, <1>2 DEF Nested, Reached
<1>14. \A l \in Lanes :
         /\ reads'[l].active = reads[l].active
              \/ (l \in Started /\ reads'[l].active = reads[l].queued)
         /\ reads'[l].queued = reads[l].queued \/ reads'[l].queued = None
         /\ reads[l].active # None => reads'[l].active = reads[l].active
         /\ l \in Gone => reads'[l].active = None /\ reads'[l].queued = None
         /\ l \notin Gone /\ reads[l].queued # None =>
              reads'[l].queued = reads[l].queued \/ reads'[l].active = reads[l].queued
  <2> SUFFICES ASSUME NEW l \in Lanes
               PROVE  /\ reads'[l].active = reads[l].active
                           \/ (l \in Started /\ reads'[l].active = reads[l].queued)
                      /\ reads'[l].queued = reads[l].queued \/ reads'[l].queued = None
                      /\ reads[l].active # None => reads'[l].active = reads[l].active
                      /\ l \in Gone => reads'[l].active = None /\ reads'[l].queued = None
                      /\ l \notin Gone /\ reads[l].queued # None =>
                           reads'[l].queued = reads[l].queued
                             \/ reads'[l].active = reads[l].queued
    OBVIOUS
  <2>1. CASE l \in Gone
    BY <2>1, <1>4
  <2>2. CASE l \in Started
    <3>1. /\ reads'[l] = [active |-> reads[l].queued, at |-> "bridge", queued |-> None]
          /\ reads[l].active = None /\ l \notin Gone
      BY <2>2, <1>4
    <3>2. reads'[l].active = reads[l].queued /\ reads'[l].queued = None
      BY <3>1
    <3> QED
      BY <2>2, <3>1, <3>2
  <2>3. CASE reads'[l] = reads[l] /\ l \notin Gone
    BY <2>3
  <2> QED
    BY <2>1, <2>2, <2>3, <1>4
<1>15. \A x : x \in ReadsHeld' => x \in ReadsHeld
  BY <1>14, HeldReads
<1>16. \A x : x \in OpenReads' <=> x \in OpenReads /\ x \notin X
  <2>1. ASSUME NEW x, x \in OpenReads' PROVE x \in OpenReads /\ x \notin X
    <3>1. PICK k \in Lanes : x = reads'[k].active \/ x = reads'[k].queued
      BY <2>1, OpenReadsAre
    <3>2. x # None /\ x.seq \notin settledReads
      BY <2>1, <1>2, OpenReadsAre
    <3>3. (x = reads[k].active \/ x = reads[k].queued) /\ k \notin Gone
      BY <3>1, <3>2, <1>14
    <3>4. ASSUME x \in X PROVE FALSE
      <4>1. PICK j \in Gone : x = reads[j].queued
        BY <3>4, <1>9
      <4>2. j \in Lanes /\ j # k /\ reads[j].queued # None
        BY <4>1, <3>2, <3>3, <1>6
      <4> QED
        BY <4>1, <4>2, <3>2, <3>3, <1>0, ReadNumbers
    <3> QED
      BY <3>2, <3>3, <3>4, OpenReadsAre
  <2>2. ASSUME NEW x, x \in OpenReads, x \notin X PROVE x \in OpenReads'
    <3>1. PICK k \in Lanes : x = reads[k].active \/ x = reads[k].queued
      BY <2>2, OpenReadsAre
    <3>2. x # None /\ x.seq \notin settledReads
      BY <2>2, OpenReadsAre
    <3>3. x = reads[k].queued => k \notin Gone
      BY <2>2, <1>8
    <3>4. x = reads'[k].active \/ x = reads'[k].queued
      BY <3>1, <3>2, <3>3, <1>14
    <3> QED
      BY <3>2, <3>4, <1>2, OpenReadsAre
  <2> QED
    BY <2>1, <2>2
<1>17. X \subseteq OpenReads
  <2>1. ASSUME NEW x \in X PROVE x \in OpenReads
    <3>1. PICK j \in Gone : x = reads[j].queued
      BY <1>9
    <3>2. j \in Lanes /\ reads[j].queued # None
      BY <1>4, <1>6
    <3>3. x.seq \notin settledReads
      BY <3>1, <3>2, <1>0, ReadNumbers
    <3> QED
      BY <3>1, <3>2, <3>3, OpenReadsAre
  <2> QED
    BY <2>1
<1>18. ReadsInv'
  <2>1. ASSUME NEW l \in Lanes PROVE LaneInv(l)'
    <3>0. LaneInv(l)
      BY <1>0 DEF ReadsInv
    <3>1. CASE l \in Gone
      <4>1. reads'[l].active = None /\ reads'[l].at = "none" /\ reads'[l].queued = None
        BY <3>1, <1>4
      <4> QED
        BY <4>1, <1>2 DEF LaneInv
    <3>2. CASE l \in Started
      <4>1. /\ reads'[l].active = reads[l].queued /\ reads'[l].at = "bridge"
            /\ reads'[l].queued = None /\ reads[l].queued # None
        <5>1. /\ reads'[l] = [active |-> reads[l].queued, at |-> "bridge", queued |-> None]
              /\ reads[l].queued # None
          BY <3>2, <1>4
        <5> QED
          BY <5>1
      <4>2. ~fenced
        BY <3>2, <1>11 DEF ActiveSession
      <4> QED
        BY <4>1, <4>2, <3>0, <1>2 DEF LaneInv
    <3>3. CASE reads'[l] = reads[l]
      BY <3>3, <3>0, <1>2 DEF LaneInv
    <3> QED
      BY <3>1, <3>2, <3>3, <1>4
  <2>2. \A s \in settledReads' :
          \E k \in Lanes : reads'[k].active # None /\ reads'[k].active.seq = s
    BY <1>14, <1>0, <1>2 DEF ReadsInv
  <2>3. ReadsHalfWay' \subseteq ReadsHalfWay
    <3>1. ASSUME NEW l \in Lanes, reads'[l].at \in {"result", "told"}
          PROVE  reads[l].at = reads'[l].at
      <4>1. l \in Gone => reads'[l].at = "none"
        BY <1>4
      <4>2. l \in Started => reads'[l].at = "bridge"
        <5>1. l \in Started =>
                reads'[l] = [active |-> reads[l].queued, at |-> "bridge", queued |-> None]
          BY <1>4
        <5> QED
          BY <5>1
      <4> QED
        BY <4>1, <4>2, <3>1, <1>4
    <3> QED
      BY <3>1 DEF ReadsHalfWay
  <2> QED
    BY <2>1, <2>2, <2>3, <1>0, <1>13 DEF ReadsInv
<1>19. \A l \in Lanes : \A a :
         a = reads'[l].active /\ a # None /\ a.seq \notin settledReads' =>
           \/ a = reads[l].active /\ a.seq \notin settledReads
           \/ ~BlockedByMutation(a)
  BY <1>2, <1>5, <1>14
<1> QED
  BY <1>1, <1>10, <1>12, <1>13, <1>15, <1>16, <1>17, <1>18, <1>19, ReadsStep
-----------------------------------------------------------------------------
\* A step of the mutations alone, which tells the callers of X.
LEMMA MutationStep ==
  ASSUME MediaInv, UNCHANGED <<sessionVars, called, readVars>>,
         TypeOK', Nested', MutationsInv', Pending' \subseteq Pending,
         Reached({"reading"}) => Reached({"reading"})',
         NEW X, X \subseteq OpenMutations, OpenMutations' = OpenMutations \ X, Tell(Seqs(X))
  PROVE  MediaInv'
<1>0. TypeOK /\ Numbered /\ Accounts /\ MutationsInv /\ ReadsInv /\ NoReadBesideConflict
      /\ Places /\ LinesInv
  BY DEF MediaInv, MutationsInv
<1>1. UNCHANGED <<session, fenced, shuttingDown, reads, latest, settledReads>>
  BY DEF sessionVars, readVars
<1>2. ReadsHeld' = ReadsHeld /\ OpenReads' = OpenReads
  BY <1>1, ReadsStay
<1>3. ReadsInv' /\ NoReadBesideConflict'
  BY <1>0, <1>1, ReadsKept, NoConflictKept
<1>4. Numbered'
  <2>1. Held' \subseteq Held
    BY <1>2 DEF Held
  <2> QED
    BY <2>1, <1>0, NumberedStays
<1>5. Accounts'
  <2>1. OpenMutations \cap OpenReads = {}
    BY <1>0, InFlightRuns, ReadOpsAre DEF OpenReads
  <2>2. (OpenMutations \cup OpenReads)' = (OpenMutations \cup OpenReads) \ X
    BY <2>1, <1>2
  <2> QED
    BY <2>2, <1>0, AccountsFall
<1> QED
  BY <1>3, <1>4, <1>5 DEF MediaInv

\* The same when nobody is told.
LEMMA SilentStep ==
  ASSUME MediaInv, UNCHANGED <<sessionVars, called, outcome, readVars>>,
         TypeOK', Nested', MutationsInv', Pending' \subseteq Pending,
         Reached({"reading"}) => Reached({"reading"})', OpenMutations' = OpenMutations
  PROVE  MediaInv'
<1> DEFINE X == {}
<1>1. X \subseteq OpenMutations /\ OpenMutations' = OpenMutations \ X
  OBVIOUS
<1>2. Tell(Seqs(X))
  BY DEF Tell, Seqs, MediaInv, TypeOK
<1> HIDE DEF X
<1> QED
  BY <1>1, <1>2, MutationStep

\* The requests in the slots.
LEMMA SlotsAre ==
  /\ \A r : r \in InLanes <=> r # None /\ \E i \in Slots : slots[i].active = r
  /\ \A r : r \in InLanes' <=> r # None /\ \E i \in Slots : slots'[i].active = r
  /\ \A r : r \in InFlight <=> r \in InLanes \/ (settling # None /\ r = settling.request)
  /\ \A r : r \in InFlight' <=> r \in InLanes' \/ (settling' # None /\ r = settling'.request)
  BY DEF InLanes, InFlight

LEMMA SlotTypes ==
  ASSUME TypeOK, NEW i \in Slots
  PROVE  /\ slots[i] \in [active : Requests \cup {None},
                          at : {"free", "refused", "opening", "running"}]
         /\ slots[i].active \in Requests \cup {None}
         /\ slots[i].at \in {"free", "refused", "opening", "running"}
<1>1. slots[i] \in [active : Requests \cup {None},
                    at : {"free", "refused", "opening", "running"}]
  BY DEF TypeOK
<1> QED
  BY <1>1

LEMMA PutLeaves ==
  ASSUME TypeOK, Sited, NEW i \in FreeSlots, NEW r \in Requests, r \notin InFlight,
         NEW p \in {"refused", "opening", "running"}, Put(i, r, p), settling' = settling
  PROVE  /\ slots' \in [Slots -> [active : Requests \cup {None},
                                  at : {"free", "refused", "opening", "running"}]]
         /\ i \in Slots /\ slots[i].active = None /\ slots[i].at = "free"
         /\ slots'[i].active = r /\ slots'[i].at = p
         /\ \A j \in Slots \ {i} : slots'[j] = slots[j]
         /\ InLanes' = InLanes \cup {r} /\ InFlight' = InFlight \cup {r}
         /\ FreeSlots' = FreeSlots \ {i}
         /\ Sited'
<1>1. i \in Slots /\ slots[i].active = None /\ slots[i].at = "free" /\ r # None
      /\ slots \in [Slots -> [active : Requests \cup {None},
                              at : {"free", "refused", "opening", "running"}]]
  BY MediaAssumption DEF TypeOK, FreeSlots, Sited
<1>2. /\ \A j \in Slots \ {i} : slots'[j] = slots[j]
      /\ slots'[i] = [active |-> r, at |-> p]
  BY <1>1 DEF Put
<1>3. slots'[i].active = r /\ slots'[i].at = p
  BY <1>2
<1>4. slots' \in [Slots -> [active : Requests \cup {None},
                            at : {"free", "refused", "opening", "running"}]]
  BY <1>1 DEF Put
<1>5. InLanes' = InLanes \cup {r}
  BY <1>1, <1>2, <1>3, SlotsAre
<1>6. InFlight' = InFlight \cup {r}
  BY <1>5, SlotsAre
<1>7. FreeSlots' = FreeSlots \ {i}
  BY <1>1, <1>2, <1>3 DEF FreeSlots
<1>8. Sited'
  <2>1. \A j \in Slots : slots[j].active # r
    BY <1>1, SlotsAre
  <2>2. settling' # None => settling'.request \notin InLanes'
    BY <1>5, SlotsAre DEF Sited
  <2>3. \A j \in Slots : slots'[j].active = None <=> slots'[j].at = "free"
    BY <1>1, <1>2, <1>3 DEF Sited
  <2>4. \A j, k \in Slots :
          slots'[j].active = slots'[k].active /\ slots'[j].active # None => j = k
    BY <1>1, <1>2, <1>3, <2>1 DEF Sited
  <2> QED
    BY <2>2, <2>3, <2>4 DEF Sited
<1> QED
  BY <1>1, <1>2, <1>3, <1>4, <1>5, <1>6, <1>7, <1>8

LEMMA ClearLeaves ==
  ASSUME TypeOK, Sited, NEW i \in Slots, slots[i].active # None, Clear(i)
  PROVE  /\ slots' \in [Slots -> [active : Requests \cup {None},
                                  at : {"free", "refused", "opening", "running"}]]
         /\ slots'[i].active = None /\ slots'[i].at = "free"
         /\ \A j \in Slots \ {i} : slots'[j] = slots[j]
         /\ InLanes' = InLanes \ {slots[i].active}
         /\ FreeSlots' = FreeSlots \cup {i}
         /\ \A j, k \in Slots :
              slots'[j].active = slots'[k].active /\ slots'[j].active # None => j = k
         /\ \A j \in Slots : slots'[j].active = None <=> slots'[j].at = "free"
<1>1. slots \in [Slots -> [active : Requests \cup {None},
                           at : {"free", "refused", "opening", "running"}]]
  BY DEF TypeOK
<1>2. slots'[i] = FreeSlot /\ \A j \in Slots \ {i} : slots'[j] = slots[j]
  BY <1>1 DEF Clear
<1>3. slots'[i].active = None /\ slots'[i].at = "free"
  BY <1>2 DEF FreeSlot
<1>4. slots' \in [Slots -> [active : Requests \cup {None},
                            at : {"free", "refused", "opening", "running"}]]
  BY <1>1 DEF Clear, FreeSlot
<1>5. InLanes' = InLanes \ {slots[i].active}
  BY <1>2, <1>3, SlotsAre DEF Sited
<1>6. FreeSlots' = FreeSlots \cup {i}
  BY <1>2, <1>3 DEF FreeSlots
<1>7. \A j, k \in Slots :
        slots'[j].active = slots'[k].active /\ slots'[j].active # None => j = k
  BY <1>2, <1>3 DEF Sited
<1>8. \A j \in Slots : slots'[j].active = None <=> slots'[j].at = "free"
  BY <1>2, <1>3 DEF Sited
<1> QED
  BY <1>2, <1>3, <1>4, <1>5, <1>6, <1>7, <1>8

\* Requests are told apart by their numbers wherever they are.
LEMMA Apart ==
  ASSUME TypeOK, Numbered, LinesInv, Places
  PROVE  /\ \A r, s \in Queued \cup starting \cup InFlight : r.seq = s.seq => r = s
         /\ \A r \in Queued \cup starting \cup InFlight :
              r \in Requests /\ r # None /\ r.seq \in 1..called /\ r.item \in Items
         /\ Queued \cap (starting \cup InFlight) = {}
         /\ starting \cap InFlight = {}
<1>1. Queued \cup starting \cup InFlight \subseteq Held
  BY InFlightRuns DEF Held, Pending, Queued
<1>2. \A r \in Queued : \E k \in Items : \E i \in 1..Len(waiting[k]) : r = waiting[k][i]
  <2>1. ASSUME NEW r \in Queued PROVE \E k \in Items : \E i \in 1..Len(waiting[k]) : r = waiting[k][i]
    <3>1. PICK k \in Items : r \in ToSet(waiting[k])
      BY DEF Queued
    <3> QED
      BY <3>1 DEF ToSet
  <2> QED
    BY <2>1
<1>3. ASSUME NEW r \in Queued PROVE r \in Requests /\ r.item \in Items /\ r \notin starting \cup InFlight
  <2>1. PICK k \in Items : \E i \in 1..Len(waiting[k]) : r = waiting[k][i]
    BY <1>2
  <2>2. PICK i \in 1..Len(waiting[k]) : r = waiting[k][i]
    BY <2>1
  <2>3. r \in Requests /\ r.item = k
    BY <2>2 DEF TypeOK, LinesInv
  <2>4. r.seq \in Nat
    BY <2>3 DEF Requests
  <2>5. running[k] # None => running[k].seq < r.seq
    BY <2>2 DEF LinesInv
  <2>6. ASSUME r \in starting \cup InFlight PROVE FALSE
    <3>1. running[k] = r /\ r # None
      BY <2>3, <2>6, MediaAssumption DEF Places, Placed
    <3> QED
      BY <3>1, <2>4, <2>5
  <2> QED
    BY <2>3, <2>6
<1>4. None \notin Requests
  BY MediaAssumption
<1>5. \A r \in starting \cup InFlight : r \in Requests /\ r.item \in Items
  BY InFlightRuns DEF Places, Placed
<1>6. starting \cap InFlight = {}
  BY DEF Places, Placed
<1> QED
  BY <1>1, <1>3, <1>4, <1>5, <1>6 DEF Numbered

\* A request that is not wanted any more has been told.
LEMMA UnwantedIsTold ==
  ASSUME TypeOK, Fence, NEW r \in InFlight, ~StillCurrent(r)
  PROVE  r.seq \in settled
<1>1. ASSUME r.seq \notin settled PROVE FALSE
  <2>1. r \in Untold /\ r \in OpenMutations
    BY <1>1 DEF Untold, OpenMutations
  <2>2. ~fenced
    BY <2>1 DEF Fence
  <2>3. ActiveSession /\ r.generation = session.generation
    BY <2>1, <2>2 DEF Fence, ActiveSession
  <2> QED
    BY <1>1, <2>3 DEF StillCurrent, AcceptsSession
<1> QED
  BY <1>1

LEMMA StartingIsUntold ==
  ASSUME TypeOK, Numbered, LinesInv, Places, Marks, NEW r \in starting
  PROVE  r.seq \notin settled /\ r \notin InFlight /\ r \in Requests /\ r # None
         /\ \A q \in InFlight : q.seq # r.seq
  BY Apart DEF Marks, Seqs

\* There is room when less starts and no slot is taken.
LEMMA RoomStays ==
  ASSUME Room, starting' \subseteq starting, FreeSlots \subseteq FreeSlots'
  PROVE  Room'
<1>1. IsFiniteSet(FreeSlots')
  <2>1. IsFiniteSet(Slots)
    <3>1. SlotCount \in Nat
      BY MediaAssumption
    <3> QED
      BY <3>1, FS_Interval DEF Slots
  <2>2. FreeSlots' \in SUBSET Slots
    BY DEF FreeSlots
  <2> QED
    BY <2>1, <2>2, FS_Subset
<1>2. IsFiniteSet(FreeSlots) /\ Cardinality(FreeSlots) <= Cardinality(FreeSlots')
  BY <1>1, FS_Subset
<1>3. IsFiniteSet(starting) /\ Cardinality(starting) <= Cardinality(FreeSlots)
  BY DEF Room
<1>4. IsFiniteSet(starting') /\ Cardinality(starting') <= Cardinality(starting)
  BY <1>3, FS_Subset
<1>5. /\ Cardinality(starting') \in Nat /\ Cardinality(starting) \in Nat
      /\ Cardinality(FreeSlots) \in Nat /\ Cardinality(FreeSlots') \in Nat
  BY <1>1, <1>2, <1>3, <1>4, FS_CardinalityType
<1>6. Cardinality(starting') <= Cardinality(FreeSlots')
  BY <1>2, <1>3, <1>4, <1>5
<1> QED
  BY <1>4, <1>6 DEF Room

\* What is left when a request of the scheduler finishes.
LEMMA FinishLeaves ==
  ASSUME TypeOK, LinesInv, NEW k \in Items, Scheduler!Finish(k)
  PROVE  /\ waiting' = waiting /\ Queued' = Queued
         /\ running' \in [Items -> Requests \cup {None}]
         /\ running'[k] = None /\ \A j \in Items \ {k} : running'[j] = running[j]
         /\ ActiveItems' = ActiveItems \ {k}
         /\ Pending' \subseteq Pending
         /\ LinesInv'
<1>1. waiting' = waiting /\ running' = [running EXCEPT ![k] = None]
      /\ running \in [Items -> Requests \cup {None}]
  BY DEF Scheduler!Finish, TypeOK
<1>2. running'[k] = None /\ \A j \in Items \ {k} : running'[j] = running[j]
  BY <1>1
<1>3. running' \in [Items -> Requests \cup {None}]
  BY <1>1
<1>4. ActiveItems' = ActiveItems \ {k}
  BY <1>2 DEF ActiveItems
<1>5. Queued' = Queued
  BY <1>1 DEF Queued
<1>6. Pending' \subseteq Pending
  BY <1>1, <1>2, <1>4 DEF Pending
<1>7. LinesInv'
  BY <1>1, <1>2 DEF LinesInv
<1> QED
  BY <1>1, <1>2, <1>3, <1>4, <1>5, <1>6, <1>7

LEMMA RequestLeaves ==
  ASSUME TypeOK, Numbered, LinesInv, Places, Marks, Overlays,
         NEW r \in starting \cup InFlight, Scheduler!Finish(r.item),
         starting' = starting \ {r}, InFlight' = InFlight \ {r}, settled' = settled \ {r.seq}
  PROVE  /\ waiting' = waiting /\ Queued' = Queued /\ Pending' \subseteq Pending /\ LinesInv'
         /\ running' \in [Items -> Requests \cup {None}]
         /\ Placed'
         /\ settled' \subseteq Seqs(InFlight)'
         /\ Untold' = Untold \ {r} /\ OpenMutations' = OpenMutations \ {r}
         /\ \A j, k \in ActiveItems' :
              running'[j].op \in Optimistic /\ running'[k].op \in Optimistic => j = k
         /\ \A q \in starting' \cup InFlight' : q.seq # r.seq
<1>1. r.item \in Items /\ running[r.item] = r
  BY DEF Places, Placed
<1>2. /\ waiting' = waiting /\ Queued' = Queued
      /\ running' \in [Items -> Requests \cup {None}]
      /\ running'[r.item] = None /\ \A j \in Items \ {r.item} : running'[j] = running[j]
      /\ ActiveItems' = ActiveItems \ {r.item}
      /\ Pending' \subseteq Pending
      /\ LinesInv'
  BY <1>1, FinishLeaves
<1>3. \A q \in starting' \cup InFlight' : q.seq # r.seq /\ q \in starting \cup InFlight
  BY Apart
<1>4. ASSUME NEW q \in starting' \cup InFlight'
      PROVE  q.item \in Items /\ running'[q.item] = q
  <2>1. q.item \in Items /\ running[q.item] = q /\ q # r
    BY <1>3 DEF Places, Placed
  <2>2. q.item # r.item
    BY <2>1, <1>1
  <2> QED
    BY <2>1, <2>2, <1>2
<1>5. Placed'
  <2>1. ASSUME NEW k \in ActiveItems' PROVE running'[k] \in starting' \cup InFlight'
    <3>1. k \in ActiveItems /\ k # r.item /\ running'[k] = running[k]
      BY <1>2 DEF ActiveItems
    <3>2. running[k] \in starting \cup InFlight /\ running[k].item = k
      BY <3>1 DEF Places, Placed, LinesInv, ActiveItems
    <3> QED
      BY <3>1, <3>2
  <2>2. starting' \cap InFlight' = {}
    BY DEF Places, Placed
  <2> QED
    BY <1>4, <2>1, <2>2 DEF Placed
<1>6. settled' \subseteq Seqs(InFlight)'
  BY DEF Marks, Seqs
<1>7. Untold' = Untold \ {r}
  BY <1>3 DEF Untold
<1>8. OpenMutations' = OpenMutations \ {r}
  BY <1>2, <1>7, Apart DEF OpenMutations
<1>9. \A j, k \in ActiveItems' :
        running'[j].op \in Optimistic /\ running'[k].op \in Optimistic => j = k
  <2>1. ActiveItems \subseteq Items
    BY DEF ActiveItems
  <2> QED
    BY <2>1, <1>2 DEF Overlays
<1> QED
  BY <1>2, <1>3, <1>5, <1>6, <1>7, <1>8, <1>9
-----------------------------------------------------------------------------
(* Dispatch.                                                                *)

\* The head of a line and the rest of it.
LEMMA LineSplits ==
  ASSUME TypeOK, LinesInv, NEW k \in Items, waiting[k] # <<>>
  PROVE  /\ Head(waiting[k]) \in Requests /\ Head(waiting[k]).item = k
         /\ Head(waiting[k]).op \in MutationOps
         /\ Tail(waiting[k]) \in Seq(Requests)
         /\ ToSet(waiting[k]) = {Head(waiting[k])} \cup ToSet(Tail(waiting[k]))
         /\ Head(waiting[k]) \in Queued
         /\ \A i \in 1..Len(Tail(waiting[k])) :
              /\ i + 1 \in 1..Len(waiting[k]) /\ Tail(waiting[k])[i] = waiting[k][i + 1]
              /\ Head(waiting[k]).seq < Tail(waiting[k])[i].seq
              /\ Tail(waiting[k])[i].item = k /\ Tail(waiting[k])[i].op \in MutationOps
         /\ \A i, j \in 1..Len(Tail(waiting[k])) :
              i < j => Tail(waiting[k])[i].seq < Tail(waiting[k])[j].seq
<1> DEFINE w == waiting[k]
<1>1. w \in Seq(Requests) /\ w # <<>>
  BY DEF TypeOK
<1>2. /\ Len(w) \in Nat \ {0} /\ Head(w) = w[1] /\ 1 \in 1..Len(w)
      /\ Tail(w) \in Seq(Requests) /\ Len(Tail(w)) = Len(w) - 1
      /\ \A i \in 1..Len(Tail(w)) : i + 1 \in 1..Len(w) /\ Tail(w)[i] = w[i + 1]
  BY <1>1
<1>3. /\ \A i \in 1..Len(w) : w[i].item = k /\ w[i].op \in MutationOps
      /\ \A i, j \in 1..Len(w) : i < j => w[i].seq < w[j].seq
  BY DEF LinesInv
<1>4. ToSet(w) = {w[i] : i \in 1..Len(w)} /\ ToSet(Tail(w)) = {Tail(w)[i] : i \in 1..Len(Tail(w))}
  <2>1. \A s \in Seq(Requests) : ToSet(s) = {s[i] : i \in 1..Len(s)}
    BY DEF ToSet
  <2> HIDE DEF w
  <2> QED
    BY <2>1, <1>1, <1>2
<1>5. Queued = UNION {ToSet(waiting[j]) : j \in Items}
  BY DEF Queued
<1>6. w[1] \in ToSet(w) /\ ToSet(w) \subseteq Queued
  BY <1>2, <1>4, <1>5
<1> HIDE DEF w
<1>7. ASSUME NEW i \in 1..Len(w) PROVE w[i] \in {w[1]} \cup ToSet(Tail(w))
  <2>1. CASE i = 1
    BY <2>1
  <2>2. CASE i # 1
    <3>1. i - 1 \in 1..Len(Tail(w)) /\ i - 1 + 1 = i
      BY <2>2, <1>2
    <3>2. Tail(w)[i - 1] = w[i]
      BY <3>1, <1>2
    <3> QED
      BY <3>1, <3>2, <1>4
  <2> QED
    BY <2>1, <2>2
<1>8. ToSet(w) = {w[1]} \cup ToSet(Tail(w))
  BY <1>2, <1>4, <1>7
<1>9. \A i \in 1..Len(Tail(w)) : /\ w[1].seq < Tail(w)[i].seq
                                   /\ Tail(w)[i].item = k /\ Tail(w)[i].op \in MutationOps
  BY <1>2, <1>3
<1>10. w[1] \in Requests
  BY <1>1, <1>2
<1>11. \A i, j \in 1..Len(Tail(w)) : i < j => Tail(w)[i].seq < Tail(w)[j].seq
  <2>1. ASSUME NEW i \in 1..Len(Tail(w)), NEW j \in 1..Len(Tail(w)), i < j
        PROVE  Tail(w)[i].seq < Tail(w)[j].seq
    <3>1. i + 1 \in 1..Len(w) /\ j + 1 \in 1..Len(w) /\ i + 1 < j + 1
      BY <2>1, <1>2
    <3>2. w[i + 1].seq < w[j + 1].seq
      BY <3>1, <1>3
    <3> QED
      BY <3>2, <1>2
  <2> QED
    BY <2>1
<1> QED
  BY <1>2, <1>3, <1>6, <1>8, <1>9, <1>10, <1>11 DEF w

\* As many slots are free as items may start.
LEMMA RoomForReady ==
  ASSUME TypeOK, Numbered, LinesInv, Places, starting = {}, settling = None,
         NEW S \in SUBSET Items, MayRun(S)
  PROVE  LET taken == {Head(waiting[k]) : k \in S}
         IN  IsFiniteSet(taken) /\ Cardinality(taken) <= Cardinality(FreeSlots)
<1> DEFINE taken == {Head(waiting[k]) : k \in S}
           Busy == {i \in Slots : slots[i].active # None}
<1>1. /\ S \cap ActiveItems = {} /\ \A k \in S : waiting[k] # <<>>
      /\ Cardinality(S \cup ActiveItems) <= SlotCount
  BY DEF MayRun
<1>2. SlotCount \in Nat /\ IsFiniteSet(Slots) /\ Cardinality(Slots) = SlotCount
  <2>1. SlotCount \in Nat \ {0}
    BY MediaAssumption
  <2> QED
    BY <2>1, FS_Interval DEF Slots
<1>3. IsFiniteSet(S)
  <2> DEFINE f == [k \in S |-> Head(waiting[k]).seq]
  <2>1. ASSUME NEW k \in S
        PROVE  /\ Head(waiting[k]) \in Queued /\ Head(waiting[k]).item = k
               /\ Head(waiting[k]).seq \in 1..called
    <3>1. Head(waiting[k]) \in Queued /\ Head(waiting[k]).item = k
      BY <1>1, LineSplits
    <3> QED
      BY <3>1, Apart
  <2>2. f \in [S -> 1..called]
    BY <2>1
  <2>3. ASSUME NEW j \in S, NEW k \in S, f[j] = f[k] PROVE j = k
    <3>1. Head(waiting[j]).seq = Head(waiting[k]).seq
      BY <2>3
    <3> QED
      BY <3>1, <2>1, Apart
  <2>4. f \in Injection(S, 1..called)
    BY <2>2, <2>3 DEF Injection, IsInjective
  <2>5. IsFiniteSet(1..called)
    BY CalledBound, FS_Interval
  <2> QED
    BY <2>4, <2>5, FS_Injection
<1>4. Busy \subseteq Slots /\ IsFiniteSet(Busy) /\ FreeSlots = Slots \ Busy
  BY <1>2, FS_Subset DEF FreeSlots
<1>5. \A i \in Busy : slots[i].active \in InFlight /\ slots[i].active.item \in ActiveItems
                      /\ running[slots[i].active.item] = slots[i].active
  BY InFlightRuns
<1>6. \A k \in ActiveItems : \E i \in Busy : slots[i].active = running[k]
  <2>1. ASSUME NEW k \in ActiveItems PROVE \E i \in Busy : slots[i].active = running[k]
    <3>1. running[k] \in InLanes
      BY SlotsAre DEF Places, Placed
    <3> QED
      BY <3>1, SlotsAre
  <2> QED
    BY <2>1
<1> DEFINE g == [i \in Busy |-> slots[i].active.item]
<1>7. g \in [Busy -> ActiveItems]
  BY <1>5
<1>8. ASSUME NEW i \in Busy, NEW j \in Busy, g[i] = g[j] PROVE i = j
  <2>1. slots[i].active.item = slots[j].active.item
    BY <1>8
  <2>2. slots[i].active = slots[j].active
    BY <2>1, <1>5
  <2> QED
    BY <2>2 DEF Places, Sited
<1>9. ASSUME NEW k \in ActiveItems PROVE \E i \in Busy : g[i] = k
  <2>1. PICK i \in Busy : slots[i].active = running[k]
    BY <1>6
  <2>2. running[k].item = k
    BY DEF LinesInv, ActiveItems
  <2> QED
    BY <2>1, <2>2
<1> HIDE DEF g
<1>10. IsFiniteSet(ActiveItems) /\ Cardinality(Busy) = Cardinality(ActiveItems)
  <2>1. g \in Injection(Busy, ActiveItems)
    BY <1>7, <1>8 DEF Injection, IsInjective
  <2>2. g \in Surjection(Busy, ActiveItems)
    BY <1>7, <1>9 DEF Surjection
  <2> QED
    BY <2>1, <2>2, <1>4, FS_Surjection
<1>11. IsFiniteSet(taken) /\ Cardinality(taken) <= Cardinality(S)
  <2> DEFINE h == [k \in S |-> Head(waiting[k])]
  <2>1. h \in Surjection(S, taken)
    <3>1. h \in [S -> taken]
      OBVIOUS
    <3>2. \A t \in taken : \E k \in S : h[k] = t
      OBVIOUS
    <3> QED
      BY <3>1, <3>2 DEF Surjection
  <2> HIDE DEF h
  <2> QED
    BY <2>1, <1>3, FS_Surjection
<1>12. Cardinality(S \cup ActiveItems) = Cardinality(S) + Cardinality(ActiveItems)
  <2>1. Cardinality(S \cap ActiveItems) = 0
    BY <1>1, FS_EmptySet
  <2>2. Cardinality(S) \in Nat /\ Cardinality(ActiveItems) \in Nat
    BY <1>3, <1>10, FS_CardinalityType
  <2>3. Cardinality(S \cup ActiveItems) =
          Cardinality(S) + Cardinality(ActiveItems) - Cardinality(S \cap ActiveItems)
    BY <1>3, <1>10, FS_Union
  <2> QED
    BY <2>1, <2>2, <2>3
<1>13. Cardinality(FreeSlots) = SlotCount - Cardinality(Busy)
  <2>1. Slots \cap Busy = Busy
    BY <1>4
  <2> HIDE DEF Busy
  <2> QED
    BY <2>1, <1>2, <1>4, FS_Difference
<1>14. /\ Cardinality(S) \in Nat /\ Cardinality(Busy) \in Nat /\ Cardinality(taken) \in Nat
  BY <1>3, <1>4, <1>11, FS_CardinalityType
<1> HIDE DEF taken, Busy
<1>15. Cardinality(taken) <= Cardinality(FreeSlots)
  BY <1>1, <1>2, <1>10, <1>11, <1>12, <1>13, <1>14
<1> QED
  BY <1>11, <1>15 DEF taken

LEMMA ReadyIsTaken ==
  ASSUME TypeOK, Numbered, MutationsInv, starting = {}, settling = None, TakeReady,
         UNCHANGED <<slots, settling, settled>>
  PROVE  /\ waiting' \in [Items -> Seq(Requests)]
         /\ running' \in [Items -> Requests \cup {None}]
         /\ starting' \subseteq Requests
         /\ LinesInv' /\ Placed' /\ Room'
         /\ Queued \subseteq Queued' \cup starting' /\ Queued' \cup starting' \subseteq Queued
         /\ OpenMutations' = OpenMutations /\ Pending' \subseteq Pending
         /\ \A j, k \in ActiveItems' :
              running'[j].op \in Optimistic /\ running'[k].op \in Optimistic => j = k
<1>0. LinesInv /\ Places /\ Placed /\ Sited /\ Overlays
  BY DEF MutationsInv, Places
<1> PICK S \in SUBSET Items :
      /\ MayRun(S)
      /\ starting' = {Head(waiting[k]) : k \in S}
      /\ running' = [k \in Items |-> IF k \in S THEN Head(waiting[k]) ELSE running[k]]
      /\ waiting' = [k \in Items |-> IF k \in S THEN Tail(waiting[k]) ELSE waiting[k]]
  BY DEF TakeReady
<1>1. /\ S \cap ActiveItems = {} /\ \A k \in S : waiting[k] # <<>> /\ k \in Items
      /\ \A k \in S :
           /\ \A j \in S \ {k} : Scheduler!Agrees(Head(waiting[k]), Head(waiting[j]))
           /\ \A j \in ActiveItems : Scheduler!Agrees(Head(waiting[k]), running[j])
  BY DEF MayRun
<1>2. \A k \in S : running[k] = None
  BY <1>1 DEF ActiveItems
<1>3. /\ \A k \in S : running'[k] = Head(waiting[k]) /\ waiting'[k] = Tail(waiting[k])
      /\ \A k \in Items \ S : running'[k] = running[k] /\ waiting'[k] = waiting[k]
  OBVIOUS
<1>4. \A k \in S :
        /\ Head(waiting[k]) \in Requests /\ Head(waiting[k]).item = k
        /\ Head(waiting[k]).op \in MutationOps
        /\ Tail(waiting[k]) \in Seq(Requests)
        /\ ToSet(waiting[k]) = {Head(waiting[k])} \cup ToSet(Tail(waiting[k]))
        /\ Head(waiting[k]) \in Queued
        /\ \A i \in 1..Len(Tail(waiting[k])) :
             /\ Head(waiting[k]).seq < Tail(waiting[k])[i].seq
             /\ Tail(waiting[k])[i].item = k /\ Tail(waiting[k])[i].op \in MutationOps
        /\ \A i, j \in 1..Len(Tail(waiting[k])) :
             i < j => Tail(waiting[k])[i].seq < Tail(waiting[k])[j].seq
  BY <1>0, <1>1, LineSplits
<1>5. /\ waiting' \in [Items -> Seq(Requests)]
      /\ running' \in [Items -> Requests \cup {None}]
      /\ starting' \subseteq Requests
  BY <1>4 DEF TypeOK
<1>6. \A k \in Items : running[k] # None => k \notin S
  BY <1>2
<1>7. LinesInv'
  <2>1. ASSUME NEW k \in Items
        PROVE  /\ \A i \in 1..Len(waiting'[k]) :
                    waiting'[k][i].item = k /\ waiting'[k][i].op \in MutationOps
               /\ running'[k] # None => running'[k].item = k /\ running'[k].op \in MutationOps
               /\ \A i, j \in 1..Len(waiting'[k]) :
                    i < j => waiting'[k][i].seq < waiting'[k][j].seq
               /\ running'[k] # None =>
                    \A i \in 1..Len(waiting'[k]) : running'[k].seq < waiting'[k][i].seq
    <3>0. /\ \A i \in 1..Len(waiting[k]) :
               waiting[k][i].item = k /\ waiting[k][i].op \in MutationOps
          /\ running[k] # None => running[k].item = k /\ running[k].op \in MutationOps
          /\ \A i, j \in 1..Len(waiting[k]) : i < j => waiting[k][i].seq < waiting[k][j].seq
          /\ running[k] # None =>
               \A i \in 1..Len(waiting[k]) : running[k].seq < waiting[k][i].seq
      BY <1>0 DEF LinesInv
    <3>1. CASE k \in S
      <4>1. running'[k] = Head(waiting[k]) /\ waiting'[k] = Tail(waiting[k])
        BY <3>1, <1>3
      <4>2. /\ \A i \in 1..Len(Tail(waiting[k])) :
                 /\ Head(waiting[k]).seq < Tail(waiting[k])[i].seq
                 /\ Tail(waiting[k])[i].item = k /\ Tail(waiting[k])[i].op \in MutationOps
            /\ \A i, j \in 1..Len(Tail(waiting[k])) :
                 i < j => Tail(waiting[k])[i].seq < Tail(waiting[k])[j].seq
            /\ Head(waiting[k]).item = k /\ Head(waiting[k]).op \in MutationOps
        BY <3>1, <1>4
      <4> QED
        BY <4>1, <4>2
    <3>2. CASE k \notin S
      BY <3>0, <3>2, <1>3
    <3> QED
      BY <3>1, <3>2
  <2> QED
    BY <2>1 DEF LinesInv
<1>8. InFlight' = InFlight /\ InLanes' = InLanes /\ FreeSlots' = FreeSlots /\ Untold' = Untold
  BY DEF InFlight, InLanes, FreeSlots, Untold
<1>9. \A r \in InFlight : r.item \in Items /\ running[r.item] = r /\ r # None
  BY <1>0, Apart DEF Placed
<1>10. Placed'
  <2>1. ASSUME NEW r \in starting' \cup InFlight'
        PROVE  r.item \in Items /\ running'[r.item] = r
    <3>1. CASE r \in starting'
      <4>1. PICK k \in S : r = Head(waiting[k])
        BY <3>1
      <4> QED
        BY <4>1, <1>1, <1>3, <1>4
    <3>2. CASE r \in InFlight
      BY <3>2, <1>3, <1>6, <1>9
    <3> QED
      BY <2>1, <3>1, <3>2, <1>8
  <2>2. ASSUME NEW k \in ActiveItems' PROVE running'[k] \in starting' \cup InFlight'
    <3>1. CASE k \in S
      BY <3>1, <1>3
    <3>2. CASE k \notin S
      <4>1. k \in ActiveItems /\ running'[k] = running[k]
        BY <3>2, <1>3 DEF ActiveItems
      <4> QED
        BY <4>1, <1>0, <1>8 DEF Placed
    <3> QED
      BY <3>1, <3>2
  <2>3. ASSUME NEW r \in starting', r \in InFlight' PROVE FALSE
    <3>1. PICK k \in S : r = Head(waiting[k])
      OBVIOUS
    <3> QED
      BY <3>1, <2>3, <1>4, <1>6, <1>8, <1>9
  <2> QED
    BY <2>1, <2>2, <2>3 DEF Placed
<1>11. Queued = UNION {ToSet(waiting[k]) : k \in Items}
       /\ Queued' = UNION {ToSet(waiting'[k]) : k \in Items}
  BY DEF Queued
<1>12. Queued \subseteq Queued' \cup starting'
  <2>1. ASSUME NEW r \in Queued PROVE r \in Queued' \cup starting'
    <3>1. PICK k \in Items : r \in ToSet(waiting[k])
      BY <1>11
    <3>2. CASE k \in S
      <4>1. r = Head(waiting[k]) \/ r \in ToSet(waiting'[k])
        BY <3>1, <3>2, <1>3, <1>4
      <4> QED
        BY <4>1, <3>2, <1>11
    <3>3. CASE k \notin S
      BY <3>1, <3>3, <1>3, <1>11
    <3> QED
      BY <3>2, <3>3
  <2> QED
    BY <2>1
<1>13. Queued' \cup starting' \subseteq Queued
  <2>1. ASSUME NEW r \in Queued' PROVE r \in Queued
    <3>1. PICK k \in Items : r \in ToSet(waiting'[k])
      BY <1>11
    <3>2. r \in ToSet(waiting[k])
      BY <3>1, <1>3, <1>4
    <3> QED
      BY <3>2, <1>11
  <2>2. \A r \in starting' : r \in Queued
    BY <1>4
  <2> QED
    BY <2>1, <2>2
<1>14. OpenMutations' = OpenMutations
  BY <1>8, <1>12, <1>13 DEF OpenMutations
<1>15. Pending' \subseteq Pending
  <2>1. ASSUME NEW k \in ActiveItems' PROVE running'[k] \in Pending
    <3>1. CASE k \in S
      BY <3>1, <1>3, <1>4 DEF Pending, Queued
    <3>2. CASE k \notin S
      BY <3>2, <1>3 DEF Pending, ActiveItems
    <3> QED
      BY <3>1, <3>2
  <2> QED
    BY <2>1, <1>13 DEF Pending, Queued
<1>16. ASSUME NEW j \in ActiveItems', NEW k \in ActiveItems',
              running'[j].op \in Optimistic, running'[k].op \in Optimistic
       PROVE  j = k
  <2>0. j \in Items /\ k \in Items /\ running'[j] # None /\ running'[k] # None
    BY DEF ActiveItems
  <2>1. ASSUME NEW a, NEW b, Scheduler!Agrees(a, b)
        PROVE  a.op \notin Optimistic \/ b.op \notin Optimistic
    <3>1. <<a, b>> \in {p \in Requests \X Requests :
                          p[1].op \notin Optimistic \/ p[2].op \notin Optimistic}
      BY <2>1 DEF Scheduler!Agrees
    <3> QED
      BY <3>1
  <2>2. CASE j \in S /\ k \in S
    <3>1. j # k => Scheduler!Agrees(Head(waiting[j]), Head(waiting[k]))
      BY <2>2, <1>1
    <3> QED
      BY <3>1, <2>1, <2>2, <1>3, <1>16
  <2>3. CASE j \in S /\ k \notin S
    <3>1. k \in ActiveItems /\ running'[k] = running[k]
      BY <2>0, <2>3, <1>3 DEF ActiveItems
    <3>2. Scheduler!Agrees(Head(waiting[j]), running[k])
      BY <2>3, <3>1, <1>1
    <3> QED
      BY <3>1, <3>2, <2>1, <2>3, <1>3, <1>16
  <2>4. CASE j \notin S /\ k \in S
    <3>1. j \in ActiveItems /\ running'[j] = running[j]
      BY <2>0, <2>4, <1>3 DEF ActiveItems
    <3>2. Scheduler!Agrees(Head(waiting[k]), running[j])
      BY <2>4, <3>1, <1>1
    <3> QED
      BY <3>1, <3>2, <2>1, <2>4, <1>3, <1>16
  <2>5. CASE j \notin S /\ k \notin S
    <3>1. j \in ActiveItems /\ k \in ActiveItems
          /\ running'[j] = running[j] /\ running'[k] = running[k]
      BY <2>0, <2>5, <1>3 DEF ActiveItems
    <3> QED
      BY <3>1, <1>0, <1>16 DEF Overlays
  <2> QED
    BY <2>2, <2>3, <2>4, <2>5
<1>17. Room'
  <2>1. IsFiniteSet({Head(waiting[k]) : k \in S})
        /\ Cardinality({Head(waiting[k]) : k \in S}) <= Cardinality(FreeSlots)
    BY <1>0, RoomForReady
  <2> QED
    BY <2>1, <1>8 DEF Room
<1> QED
  BY <1>5, <1>7, <1>10, <1>12, <1>13, <1>14, <1>15, <1>16, <1>17

\* The scheduler's requests are taken where no other dispatch goes on.
LEMMA TakenInv ==
  ASSUME MediaInv, CanDispatch, TakeReady,
         UNCHANGED <<sessionVars, called, outcome, slots, settling, journals, fates,
                     tracked, readVars>>,
         turn' \in Seq(TurnPlaces), posted' \in Seq({"dispatch", "pump"}), Nested',
         \A places : {"submitted", "told"} \cap places = {} =>
           (Reached(places)' <=> Reached(places) \/ "dispatch" \in places)
  PROVE  MediaInv'
<1>0. /\ TypeOK /\ Numbered /\ Nested /\ ReadsInv /\ MutationsInv
      /\ LinesInv /\ Places /\ Sited /\ Marks /\ Fence /\ Agreed /\ Overlays /\ Doubts
  BY DEF MediaInv, MutationsInv, Places
<1>1. settling = None /\ ~Reached(DispatchPlaces) /\ ActiveSession
  BY DEF CanDispatch, Dispatching, Reached, DispatchPlaces
<1>2. starting = {} /\ HalfWay = {}
  <2>1. \A i \in HalfWay : Reached({slots[i].at}) => Reached(DispatchPlaces)
    BY DEF HalfWay, Reached, DispatchPlaces
  <2> QED
    BY <2>1, <1>0, <1>1 DEF Agreed
<1>3. /\ UNCHANGED <<session, fenced, shuttingDown, slots, settling, ids, journal, settled>>
      /\ UNCHANGED <<speculative, completedSpeculative, doubtful, tracked>>
      /\ UNCHANGED <<reads, latest, settledReads, outcome, called>>
  BY DEF sessionVars, journals, fates, readVars
<1>4. /\ waiting' \in [Items -> Seq(Requests)]
      /\ running' \in [Items -> Requests \cup {None}]
      /\ starting' \subseteq Requests
      /\ LinesInv' /\ Placed' /\ Room'
      /\ Queued' \cup starting' \subseteq Queued
      /\ OpenMutations' = OpenMutations /\ Pending' \subseteq Pending
      /\ \A j, k \in ActiveItems' :
           running'[j].op \in Optimistic /\ running'[k].op \in Optimistic => j = k
  BY <1>0, <1>1, <1>2, <1>3, ReadyIsTaken
<1>5. InFlight' = InFlight /\ InLanes' = InLanes /\ HalfWay' = {}
  BY <1>2, <1>3 DEF InFlight, InLanes, HalfWay
<1>6. Sited' /\ Marks'
  BY <1>0, <1>3, <1>5 DEF Sited, Marks, Seqs
<1>7. Fence'
  BY <1>0, <1>1, <1>3, <1>4 DEF Fence, ActiveSession
<1>8. /\ Reached(SettlePlaces)' <=> Reached(SettlePlaces)
      /\ Reached({"reading"})' <=> Reached({"reading"})
      /\ Reached(DispatchPlaces)'
  <2>1. "dispatch" \in DispatchPlaces /\ {"submitted", "told"} \cap DispatchPlaces = {}
    BY DEF DispatchPlaces
  <2>2. "dispatch" \notin SettlePlaces /\ {"submitted", "told"} \cap SettlePlaces = {}
    BY DEF SettlePlaces
  <2>3. Reached(SettlePlaces)' <=> Reached(SettlePlaces)
    BY <2>2
  <2>4. Reached({"reading"})' <=> Reached({"reading"})
    <3>1. "dispatch" \notin {"reading"} /\ {"submitted", "told"} \cap {"reading"} = {}
      OBVIOUS
    <3> QED
      BY <3>1
  <2>5. Reached(DispatchPlaces)'
    BY <2>1
  <2> QED
    BY <2>3, <2>4, <2>5
<1>9. Agreed'
  BY <1>0, <1>1, <1>3, <1>5, <1>8 DEF Agreed
<1>10. Overlays'
  BY <1>0, <1>1, <1>3, <1>4, <1>5 DEF Overlays, Opening
<1>11. Doubts'
  BY <1>0, <1>3, <1>4, <1>5 DEF Doubts, Seqs
<1>12. TypeOK'
  BY <1>0, <1>3, <1>4 DEF TypeOK, TurnPlaces
<1>13. MutationsInv'
  BY <1>4, <1>6, <1>7, <1>9, <1>10, <1>11 DEF MutationsInv, Places
<1> QED
  BY <1>4, <1>8, <1>12, <1>13, SilentStep

\* Only the turn and the timers change, at places that nothing depends on.
LEMMA TurnStep ==
  ASSUME MediaInv, UNCHANGED <<sessionVars, called, outcome, mutationVars, readVars>>,
         turn' \in Seq(TurnPlaces), posted' \in Seq({"dispatch", "pump"}), Nested',
         \A places : Reached(places)' => Reached(places),
         NEW free, \A places : free \cap places = {} => (Reached(places)' <=> Reached(places)),
         free \cap (SettlePlaces \cup {"refused", "opening", "reading"}) = {},
         free \cap DispatchPlaces = {} \/ starting = {}
  PROVE  MediaInv'
<1>0. /\ TypeOK /\ ReadsInv /\ MutationsInv
      /\ LinesInv /\ Places /\ Marks /\ Fence /\ Agreed /\ Overlays /\ Doubts /\ Room
  BY DEF MediaInv, MutationsInv
<1>1. /\ UNCHANGED <<session, fenced, shuttingDown, waiting, running, starting, slots>>
      /\ UNCHANGED <<settling, ids, journal, settled, speculative, completedSpeculative>>
      /\ UNCHANGED <<doubtful, tracked, reads, latest, settledReads>>
  BY DEF sessionVars, mutationVars, lines, journals, fates, readVars
<1>2. /\ Queued' = Queued /\ InFlight' = InFlight /\ InLanes' = InLanes
      /\ Pending' = Pending /\ ActiveItems' = ActiveItems
      /\ FreeSlots' = FreeSlots /\ HalfWay' = HalfWay
      /\ Untold' = Untold /\ OpenMutations' = OpenMutations
  BY <1>1, MutationsStay
<1>3. LinesInv' /\ Places' /\ Marks' /\ Fence' /\ Room' /\ Doubts'
  BY <1>0, <1>1, <1>2 DEF LinesInv, Places, Placed, Sited, Marks, Fence, Room, Doubts, Seqs
<1>4. /\ free \cap SettlePlaces = {} /\ free \cap {"reading"} = {}
      /\ free \cap {"answering", "ending"} = {} /\ free \cap {"applied"} = {}
      /\ \A i \in HalfWay : free \cap {slots[i].at} = {}
  BY DEF SettlePlaces, HalfWay
<1>5. /\ Reached(SettlePlaces)' <=> Reached(SettlePlaces)
      /\ Reached({"reading"})' <=> Reached({"reading"})
      /\ Reached({"answering", "ending"})' <=> Reached({"answering", "ending"})
      /\ Reached({"applied"})' <=> Reached({"applied"})
  BY <1>4
<1>6. ASSUME NEW i \in HalfWay PROVE Reached({slots[i].at})'
  <2>1. Reached({slots[i].at})
    BY <1>0 DEF Agreed
  <2>2. slots' = slots
    BY <1>1
  <2> QED
    BY <2>1, <2>2, <1>4
<1>7. settling # None => ~Reached(DispatchPlaces)'
  BY <1>0 DEF Agreed
<1>8. starting # {} => Reached(DispatchPlaces)'
  <2>1. CASE free \cap DispatchPlaces = {}
    BY <2>1, <1>0 DEF Agreed
  <2> QED
    BY <2>1
<1>9. Agreed'
  BY <1>0, <1>1, <1>2, <1>5, <1>6, <1>7, <1>8 DEF Agreed
<1>10. Overlays'
  BY <1>0, <1>1, <1>2, <1>5 DEF Overlays, Opening
<1>11. TypeOK'
  BY <1>0, <1>1 DEF TypeOK, TurnPlaces
<1>12. MutationsInv' /\ Pending' \subseteq Pending
  BY <1>2, <1>3, <1>9, <1>10 DEF MutationsInv
<1> QED
  BY <1>2, <1>5, <1>11, <1>12, SilentStep

LEMMA DispatchInv == ASSUME MediaInv, Dispatch PROVE MediaInv'
<1>0. TypeOK /\ Nested
  BY DEF MediaInv
<1>1. /\ At("submitted") \/ At("told")
      /\ UNCHANGED <<sessionVars, called, outcome, posted, slots, settling, journals,
                     fates, tracked, readVars>>
      /\ \/ CanDispatch /\ TakeReady /\ Go("dispatch")
         \/ ~CanDispatch /\ Return /\ UNCHANGED <<lines, starting>>
  BY DEF Dispatch
<1>2. turn # <<>> /\ turn[Len(turn)] \in {"submitted", "told"}
  BY <1>0, <1>1, Here
<1>3. posted' \in Seq({"dispatch", "pump"})
  BY <1>0, <1>1 DEF TypeOK
<1>4. CASE CanDispatch /\ TakeReady /\ Go("dispatch")
  <2>1. ~Reached(DispatchPlaces)
    BY <1>4 DEF CanDispatch, Dispatching, Reached, DispatchPlaces
  <2>2. "dispatch" \in TurnPlaces /\ "dispatch" \notin SettlePlaces \cup {"reading"}
    BY DEF TurnPlaces, SettlePlaces
  <2>3. /\ Nested'
        /\ \A places : Reached(places)' => Reached(places) \/ "dispatch" \in places
        /\ \A places : Reached(places) => Reached(places)' \/ turn[Len(turn)] \in places
        /\ \A places : "dispatch" \in places => Reached(places)'
        /\ turn' \in Seq(TurnPlaces)
    BY <2>1, <2>2, <1>0, <1>2, <1>4, NestedGo, TurnGoes
  <2>4. \A places : {"submitted", "told"} \cap places = {} =>
          (Reached(places)' <=> Reached(places) \/ "dispatch" \in places)
    BY <2>3, <1>2
  <2> QED
    BY <1>1, <1>3, <1>4, <2>3, <2>4, TakenInv
<1>5. CASE ~CanDispatch /\ Return /\ UNCHANGED <<lines, starting>>
  <2>1. /\ Nested' /\ turn' \in Seq(TurnPlaces)
        /\ \A places : Reached(places)' => Reached(places)
        /\ \A places : Reached(places) => Reached(places)' \/ turn[Len(turn)] \in places
    BY <1>0, <1>2, <1>5, NestedReturn, TurnReturns
  <2> DEFINE free == {"submitted", "told"}
  <2>2. \A places : free \cap places = {} => (Reached(places)' <=> Reached(places))
    BY <2>1, <1>2
  <2>3. /\ free \cap (SettlePlaces \cup {"refused", "opening", "reading"}) = {}
        /\ free \cap DispatchPlaces = {}
    BY DEF SettlePlaces, DispatchPlaces
  <2>4. UNCHANGED <<sessionVars, called, outcome, mutationVars, readVars>>
    BY <1>1, <1>5 DEF mutationVars
  <2> HIDE DEF free
  <2> QED
    BY <1>3, <2>1, <2>2, <2>3, <2>4, TurnStep
<1> QED
  BY <1>1, <1>4, <1>5

LEMMA PostedTail ==
  ASSUME TypeOK, posted # <<>>
  PROVE  Tail(posted) \in Seq({"dispatch", "pump"})
  BY DEF TypeOK

LEMMA DispatchLaterInv == ASSUME MediaInv, DispatchLater PROVE MediaInv'
<1>0. TypeOK /\ Nested
  BY DEF MediaInv
<1>1. /\ Quiet /\ posted # <<>> /\ posted' = Tail(posted)
      /\ UNCHANGED <<sessionVars, called, outcome, slots, settling, journals, fates,
                     tracked, readVars>>
      /\ \/ CanDispatch /\ TakeReady /\ Call("dispatch")
         \/ ~CanDispatch /\ UNCHANGED <<turn, lines, starting>>
  BY DEF DispatchLater
<1>2. turn = <<>> /\ \A places : ~Reached(places)
  BY <1>0, <1>1, NowhereWhenQuiet
<1>3. posted' \in Seq({"dispatch", "pump"})
  BY <1>0, <1>1, PostedTail
<1>4. CASE CanDispatch /\ TakeReady /\ Call("dispatch")
  <2>1. "dispatch" \in TurnPlaces /\ "dispatch" \notin SettlePlaces \cup {"reading"}
    BY DEF TurnPlaces, SettlePlaces
  <2>2. /\ Nested' /\ turn' \in Seq(TurnPlaces)
        /\ \A places : Reached(places)' <=> Reached(places) \/ "dispatch" \in places
    BY <2>1, <1>0, <1>2, <1>4, NestedCall, TurnCalls
  <2> QED
    BY <1>1, <1>3, <1>4, <2>2, TakenInv
<1>5. CASE ~CanDispatch /\ UNCHANGED <<turn, lines, starting>>
  <2> DEFINE free == {}
  <2>1. /\ Nested' /\ turn' \in Seq(TurnPlaces)
        /\ \A places : Reached(places)' <=> Reached(places)
    BY <1>0, <1>5 DEF Nested, Reached, TypeOK, TurnPlaces
  <2>2. /\ free \cap (SettlePlaces \cup {"refused", "opening", "reading"}) = {}
        /\ free \cap DispatchPlaces = {}
    OBVIOUS
  <2>3. UNCHANGED <<sessionVars, called, outcome, mutationVars, readVars>>
    BY <1>1, <1>5 DEF mutationVars
  <2>4. \A places : free \cap places = {} => (Reached(places)' <=> Reached(places))
    BY <2>1
  <2> HIDE DEF free
  <2> QED
    BY <1>3, <2>1, <2>2, <2>3, <2>4, TurnStep
<1> QED
  BY <1>1, <1>4, <1>5

LEMMA EndDispatchInv == ASSUME MediaInv, EndDispatch PROVE MediaInv'
<1>0. TypeOK /\ Nested
  BY DEF MediaInv
<1>1. /\ At("dispatch") /\ starting = {} /\ Return
      /\ UNCHANGED <<sessionVars, called, outcome, posted, mutationVars, readVars>>
  BY DEF EndDispatch
<1>2. turn # <<>> /\ turn[Len(turn)] = "dispatch"
  BY <1>0, <1>1, Here
<1>3. /\ Nested' /\ turn' \in Seq(TurnPlaces)
      /\ \A places : Reached(places)' => Reached(places)
      /\ \A places : Reached(places) => Reached(places)' \/ turn[Len(turn)] \in places
  BY <1>0, <1>1, <1>2, NestedReturn, TurnReturns
<1> DEFINE free == {"dispatch"}
<1>4. \A places : free \cap places = {} => (Reached(places)' <=> Reached(places))
  BY <1>3, <1>2
<1>5. free \cap (SettlePlaces \cup {"refused", "opening", "reading"}) = {}
  BY DEF SettlePlaces
<1>6. posted' \in Seq({"dispatch", "pump"})
  BY <1>0, <1>1 DEF TypeOK
<1> HIDE DEF free
<1> QED
  BY <1>1, <1>3, <1>4, <1>5, <1>6, TurnStep

LEMMA RefreshEndsInv ==
  ASSUME MediaInv, NEW item \in Items, RefreshEnds(item)
  PROVE  MediaInv'
<1>0. TypeOK /\ Nested /\ MutationsInv
  BY DEF MediaInv
<1>1. /\ tracked' = tracked \ {item}
      /\ UNCHANGED <<sessionVars, called, outcome, turnVars, lines, starting, slots,
                     settling, journals, fates, readVars>>
  BY DEF RefreshEnds
<1>2. /\ UNCHANGED <<session, fenced, shuttingDown, waiting, running, starting, slots>>
      /\ UNCHANGED <<settling, ids, journal, settled, speculative, completedSpeculative>>
      /\ UNCHANGED <<doubtful, reads, latest, settledReads, called, outcome, turn, posted>>
  BY <1>1 DEF sessionVars, turnVars, lines, journals, fates, readVars
<1>3. /\ Queued' = Queued /\ InFlight' = InFlight /\ InLanes' = InLanes
      /\ Pending' = Pending /\ ActiveItems' = ActiveItems
      /\ FreeSlots' = FreeSlots /\ HalfWay' = HalfWay
      /\ Untold' = Untold /\ OpenMutations' = OpenMutations
  BY <1>2, MutationsStay
<1>4. Nested' /\ \A places : Reached(places)' <=> Reached(places)
  BY <1>0, <1>2 DEF Nested, Reached
<1>5. LinesInv' /\ Places' /\ Marks' /\ Fence' /\ Room' /\ Doubts'
  BY <1>0, <1>2, <1>3
  DEF MutationsInv, LinesInv, Places, Placed, Sited, Marks, Fence, Room, Doubts, Seqs
<1>6. Agreed' /\ Overlays'
  <2>1. \A i \in Slots : Reached({slots[i].at})' <=> Reached({slots[i].at})
    BY <1>2 DEF Reached
  <2> QED
    BY <2>1, <1>0, <1>2, <1>3, <1>4 DEF MutationsInv, Agreed, Overlays, Opening
<1>7. TypeOK'
  BY <1>0, <1>2, <1>1 DEF TypeOK
<1>8. MutationsInv' /\ Pending' \subseteq Pending
  BY <1>3, <1>5, <1>6 DEF MutationsInv
<1>9. UNCHANGED <<sessionVars, called, outcome, readVars>>
  BY <1>1
<1> QED
  BY <1>3, <1>4, <1>7, <1>8, <1>9, SilentStep
-----------------------------------------------------------------------------
(* Start of the requests taken.                                             *)

\* Where a dispatch has got to, nothing settles and no other start is half way.
LEMMA DispatchingAlone ==
  ASSUME TypeOK, Nested, Agreed, NEW p \in DispatchPlaces, At(p)
  PROVE  /\ settling = None /\ ~Reached(SettlePlaces)
         /\ turn # <<>> /\ turn[Len(turn)] = p
         /\ \A i \in HalfWay : slots[i].at = p
         /\ \A q \in DispatchPlaces \ {p} : ~Reached({q})
<1>1. /\ turn # <<>> /\ turn[Len(turn)] = p /\ Len(turn) \in 1..Len(turn)
      /\ Reached(DispatchPlaces)
  BY Here
<1>2. settling = None /\ ~Reached(SettlePlaces)
  BY <1>1 DEF Agreed
<1>3. ASSUME NEW q \in DispatchPlaces, Reached({q}) PROVE q = p
  <2>1. PICK i \in 1..Len(turn) : turn[i] = q
    BY <1>3 DEF Reached
  <2> QED
    BY <2>1, <1>1 DEF Nested
<1>4. ASSUME NEW i \in HalfWay PROVE slots[i].at = p
  <2>1. Reached({slots[i].at}) /\ slots[i].at \in DispatchPlaces
    BY DEF Agreed, HalfWay, DispatchPlaces
  <2> QED
    BY <2>1, <1>3
<1> QED
  BY <1>1, <1>2, <1>3, <1>4

\* Every set of numbers that is not empty has a least element.
LEMMA LeastNumber ==
  ASSUME NEW T, T \subseteq Nat, T # {}
  PROVE  \E x \in T : \A y \in T : x <= y
<1> DEFINE R == OpToRel(<, Nat)
<1>1. IsWellFoundedOn(R, Nat)
  BY NatLessThanWellFounded
<1>2. \E x \in T : \A y \in T : ~ (<<y, x>> \in R)
  BY <1>1, WFMin
<1>3. \A x, y \in Nat : <<y, x>> \in R <=> y < x
  BY DEF OpToRel
<1> HIDE DEF R
<1>4. PICK x \in T : \A y \in T : ~ (<<y, x>> \in R)
  BY <1>2
<1>5. ASSUME NEW y \in T PROVE x <= y
  <2>1. ~ (<<y, x>> \in R) /\ x \in Nat /\ y \in Nat
    BY <1>4
  <2>2. ~ (y < x)
    BY <1>3, <2>1
  <2> QED
    BY <2>1, <2>2
<1> QED
  BY <1>5

LEMMA FirstFreeIsFree ==
  ASSUME FreeSlots # {}
  PROVE  FirstFree \in FreeSlots
<1>1. FreeSlots \subseteq Nat
  BY MediaAssumption DEF FreeSlots, Slots
<1>2. \E i \in FreeSlots : \A j \in FreeSlots : i <= j
  BY <1>1, LeastNumber
<1> QED
  BY <1>2 DEF FirstFree

LEMMA HalfWayIntro ==
  ASSUME \A i \in HalfWay' : \A p : p = slots'[i].at => Reached({p})'
  PROVE  (\A i \in HalfWay : Reached({slots[i].at}))'
  BY DEF Reached

LEMMA SlotTaken ==
  ASSUME MediaInv, NEW r \in starting, ActiveSession, At("dispatch"), starting' = starting \ {r},
         UNCHANGED <<sessionVars, called, posted, lines, settling, ids, speculative,
                     completedSpeculative, doubtful, tracked, readVars>>,
         NEW p \in {"refused", "opening", "running"}, Put(FirstFree, r, p),
         IF p = "running" THEN turn' = turn ELSE Go(p),
         settled' = IF p = "refused" THEN settled \cup {r.seq} ELSE settled,
         journal' \in {journal, journal \cup {r.seq}},
         journal' # journal => p = "opening" /\ r.op \in Optimistic,
         outcome' \in [1..MaxRequests -> Nat]
  PROVE  /\ TypeOK' /\ Nested' /\ MutationsInv' /\ Pending' \subseteq Pending
         /\ Reached({"reading"}) => Reached({"reading"})'
         /\ r \in OpenMutations
         /\ p # "refused" => OpenMutations' = OpenMutations
         /\ p = "refused" => OpenMutations' = OpenMutations \ {r}
<1> DEFINE i == FirstFree
<1>0. /\ TypeOK /\ Numbered /\ Nested /\ MutationsInv
      /\ LinesInv /\ Places /\ Placed /\ Sited /\ Marks /\ Fence /\ Agreed /\ Overlays
      /\ Doubts /\ Room
  BY DEF MediaInv, MutationsInv, Places
<1>1. /\ UNCHANGED <<session, fenced, shuttingDown, waiting, running, settling, ids>>
      /\ UNCHANGED <<speculative, completedSpeculative, doubtful, tracked, reads, latest>>
      /\ UNCHANGED <<settledReads, called, posted>>
  BY DEF sessionVars, lines, readVars
<1>2. /\ settling = None /\ ~Reached(SettlePlaces)
      /\ turn # <<>> /\ turn[Len(turn)] = "dispatch"
      /\ HalfWay = {}
      /\ "dispatch" \in DispatchPlaces
  <2>1. "dispatch" \in DispatchPlaces /\ \A j \in HalfWay : slots[j].at # "dispatch"
    BY DEF DispatchPlaces, HalfWay
  <2> QED
    BY <2>1, <1>0, DispatchingAlone
<1>3. /\ r \notin InFlight /\ r \in Requests /\ r # None /\ r.seq \notin settled
      /\ \A q \in InFlight : q.seq # r.seq
      /\ \A q \in Queued \cup starting : q.seq = r.seq => q = r
      /\ r \notin Queued /\ r \in Queued \cup starting
      /\ r.item \in Items /\ running[r.item] = r
      /\ r.seq \in 1..called
  BY <1>0, StartingIsUntold, Apart DEF Placed
<1>4. IsFiniteSet(starting) /\ Cardinality(starting) \in Nat \ {0}
      /\ IsFiniteSet(FreeSlots) /\ Cardinality(FreeSlots) \in Nat
      /\ Cardinality(starting) <= Cardinality(FreeSlots)
  <2>1. IsFiniteSet(Slots)
    <3>1. SlotCount \in Nat
      BY MediaAssumption
    <3> QED
      BY <3>1, FS_Interval DEF Slots
  <2>2. IsFiniteSet(FreeSlots)
    BY <2>1, FS_Subset DEF FreeSlots
  <2>3. IsFiniteSet(starting) /\ Cardinality(starting) <= Cardinality(FreeSlots)
    BY <1>0 DEF Room
  <2>4. Cardinality(starting) # 0
    BY <2>3, FS_EmptySet
  <2> QED
    BY <2>2, <2>3, <2>4, FS_CardinalityType
<1>5. i \in FreeSlots
  <2>1. FreeSlots # {}
    BY <1>4, FS_EmptySet
  <2> QED
    BY <2>1, FirstFreeIsFree
<1>6. /\ slots' \in [Slots -> [active : Requests \cup {None},
                               at : {"free", "refused", "opening", "running"}]]
      /\ i \in Slots /\ slots[i].active = None /\ slots[i].at = "free"
      /\ slots'[i].active = r /\ slots'[i].at = p
      /\ \A j \in Slots \ {i} : slots'[j] = slots[j]
      /\ InLanes' = InLanes \cup {r} /\ InFlight' = InFlight \cup {r}
      /\ FreeSlots' = FreeSlots \ {i}
      /\ Sited'
  <2>1. settling' = settling
    BY <1>1
  <2> HIDE DEF i
  <2>2. Put(i, r, p)
    BY DEF i
  <2> QED
    BY <2>1, <2>2, <1>0, <1>3, <1>5, PutLeaves
<1> HIDE DEF i
<1>7. /\ Queued' = Queued /\ Pending' = Pending /\ ActiveItems' = ActiveItems
      /\ HalfWay' = IF p = "running" THEN {} ELSE {i}
  <2>1. Queued' = Queued /\ Pending' = Pending /\ ActiveItems' = ActiveItems
    BY <1>1 DEF Queued, Pending, ActiveItems
  <2>2. \A j \in Slots : j \in HalfWay' <=> j = i /\ p # "running"
    BY <1>2, <1>6 DEF HalfWay
  <2>3. HalfWay' \subseteq Slots
    BY DEF HalfWay
  <2> QED
    BY <2>1, <2>2, <2>3, <1>6
<1>8. LinesInv' /\ Placed'
  BY <1>0, <1>1, <1>3, <1>6, <1>7 DEF LinesInv, Placed
<1>9. Marks'
  <2>1. settled' \subseteq Seqs(InFlight)'
    BY <1>0, <1>6 DEF Marks, Seqs
  <2>2. ASSUME NEW j \in Slots, slots'[j].at = "refused" PROVE slots'[j].active.seq \in settled'
    BY <2>2, <1>0, <1>6 DEF Marks
  <2> QED
    BY <2>1, <2>2 DEF Marks
<1>10. /\ r \in OpenMutations
       /\ p # "refused" => OpenMutations' = OpenMutations
       /\ p = "refused" => OpenMutations' = OpenMutations \ {r}
  <2>1. p # "refused" => Untold' = Untold \cup {r}
    BY <1>3, <1>6 DEF Untold
  <2>2. p = "refused" => Untold' = Untold
    BY <1>3, <1>6 DEF Untold
  <2>3. r \notin Untold
    BY <1>3 DEF Untold
  <2> QED
    BY <2>1, <2>2, <2>3, <1>3, <1>7 DEF OpenMutations
<1>11. Fence'
  BY <1>0, <1>1, <1>10 DEF Fence, ActiveSession
<1>12. Room'
  <2>1. IsFiniteSet(starting') /\ Cardinality(starting') = Cardinality(starting) - 1
    BY <1>4, FS_RemoveElement
  <2>2. Cardinality(FreeSlots') = Cardinality(FreeSlots) - 1
    BY <1>4, <1>5, <1>6, FS_RemoveElement
  <2> QED
    BY <2>1, <2>2, <1>4 DEF Room
<1>13. Doubts'
  <2>0. r.seq \notin doubtful
    BY <1>0 DEF Doubts, Seqs
  <2>1. doubtful' \subseteq 1..called'
    BY <1>0, <1>1 DEF Doubts
  <2>2. Seqs(Queued \cup starting)' \cap doubtful' = {}
    BY <1>0, <1>1, <1>7 DEF Doubts, Seqs
  <2>3. \A j \in HalfWay' : slots'[j].active.seq \notin doubtful'
    BY <2>0, <1>1, <1>6, <1>7
  <2>4. \A q \in InFlight' : q.seq \in doubtful' =>
          q.seq \in speculative' /\ q.generation = session'.generation
    BY <2>0, <1>0, <1>1, <1>6 DEF Doubts
  <2>5. doubtful' \subseteq Seqs(InFlight)' \/ shuttingDown' \/ (fenced' /\ completedSpeculative')
    <3>1. Seqs(InFlight) \subseteq Seqs(InFlight)'
      BY <1>6 DEF Seqs
    <3> QED
      BY <3>1, <1>0, <1>1 DEF Doubts
  <2> QED
    BY <2>1, <2>2, <2>3, <2>4, <2>5 DEF Doubts
<1>14. Overlays'
  <2>1. \A j, k \in ActiveItems' :
          running'[j].op \in Optimistic /\ running'[k].op \in Optimistic => j = k
    BY <1>0, <1>1, <1>7 DEF Overlays
  <2>2. ASSUME NEW s \in journal'
        PROVE  \E q \in InFlight' : /\ q.seq = s /\ q.op \in Optimistic
                                    /\ (s \in ids' /\ s \notin settled') \/ Opening(q)'
    <3>1. CASE s \in journal
      <4>1. PICK q \in InFlight : /\ q.seq = s /\ q.op \in Optimistic
                                  /\ (s \in ids /\ s \notin settled) \/ Opening(q)
        BY <3>1, <1>0 DEF Overlays
      <4>2. ~Opening(q)
        BY <1>2 DEF Opening, HalfWay
      <4>3. s # r.seq
        BY <4>1, <1>3
      <4> QED
        BY <4>1, <4>2, <4>3, <1>1, <1>6
    <3>2. CASE s \notin journal
      <4>1. s = r.seq /\ p = "opening" /\ r.op \in Optimistic
        BY <3>2
      <4>2. Opening(r)'
        BY <4>1, <1>6 DEF Opening
      <4> QED
        BY <4>1, <4>2, <1>6
    <3> QED
      BY <3>1, <3>2
  <2> QED
    BY <2>1, <2>2, <1>1, <1>2 DEF Overlays
<1>15. /\ Nested' /\ turn' \in Seq(TurnPlaces)
       /\ ~Reached(SettlePlaces)' /\ Reached(DispatchPlaces)'
       /\ p # "running" => Reached({p})'
       /\ Reached({"reading"}) => Reached({"reading"})'
  <2>1. CASE p = "running"
    <3>1. turn' = turn
      BY <2>1
    <3>2. Reached(DispatchPlaces)
      BY <1>0, <1>2, Here
    <3> QED
      BY <2>1, <3>1, <3>2, <1>0, <1>2 DEF Nested, Reached, TypeOK, TurnPlaces
  <2>2. CASE p # "running"
    <3>1. p \in TurnPlaces /\ p \in DispatchPlaces /\ p \notin SettlePlaces \cup {"reading"}
      BY <2>2 DEF TurnPlaces, Emitting, DispatchPlaces, SettlePlaces
    <3>2. Go(p)
      BY <2>2
    <3>3. /\ Nested' /\ turn' \in Seq(TurnPlaces)
          /\ \A places : Reached(places)' => Reached(places) \/ p \in places
          /\ \A places : Reached(places) => Reached(places)' \/ turn[Len(turn)] \in places
          /\ \A places : p \in places => Reached(places)'
      BY <3>1, <3>2, <1>0, <1>2, NestedGo, TurnGoes
    <3>4. ~Reached(SettlePlaces)' /\ Reached(DispatchPlaces)' /\ Reached({p})'
      BY <3>1, <3>3, <1>2
    <3>5. Reached({"reading"}) => Reached({"reading"})'
      BY <3>3, <1>2
    <3> QED
      BY <3>3, <3>4, <3>5
  <2> QED
    BY <2>1, <2>2
<1>16. Agreed'
  <2>1. (\A j \in HalfWay : Reached({slots[j].at}))'
    <3>1. \A j \in HalfWay' : \A q : q = slots'[j].at => Reached({q})'
      BY <1>6, <1>7, <1>15
    <3> QED
      BY <3>1, HalfWayIntro
  <2>2. \A j, k \in HalfWay' : j = k
    BY <1>7
  <2>3. settling' = None
    BY <1>1, <1>2
  <2> QED
    BY <2>1, <2>2, <2>3, <1>15 DEF Agreed
<1>17. TypeOK'
  <2>1. settled' \subseteq 1..MaxRequests /\ journal' \subseteq 1..MaxRequests
        /\ starting' \subseteq Requests
    <3>1. r.seq \in 1..MaxRequests
      BY <1>0, <1>3, CalledBound
    <3>2. settled' \subseteq settled \cup {r.seq} /\ journal' \subseteq journal \cup {r.seq}
      OBVIOUS
    <3> QED
      BY <3>1, <3>2, <1>0 DEF TypeOK
  <2> QED
    BY <2>1, <1>0, <1>1, <1>6, <1>15 DEF TypeOK, TurnPlaces
<1> QED
  BY <1>6, <1>7, <1>8, <1>9, <1>10, <1>11, <1>12, <1>13, <1>14, <1>15, <1>16, <1>17
  DEF MutationsInv, Places

LEMMA StartNextInv ==
  ASSUME MediaInv, NEW r \in starting, StartNext(r)
  PROVE  MediaInv'
<1>0. /\ TypeOK /\ Numbered /\ Nested /\ MutationsInv
      /\ LinesInv /\ Places /\ Placed /\ Sited /\ Marks /\ Fence /\ Agreed /\ Overlays
      /\ Doubts /\ Room
  BY DEF MediaInv, MutationsInv, Places
<1>1. /\ At("dispatch") /\ starting' = starting \ {r}
      /\ UNCHANGED <<sessionVars, called, posted, settling, tracked, readVars>>
      /\ StartCanceled(r) \/ StartRefused(r) \/ StartOpening(r) \/ StartRunning(r)
  BY DEF StartNext
<1>2. \A T : Tell(T) => outcome' \in [1..MaxRequests -> Nat]
  BY <1>0 DEF TypeOK, Tell
<1>3. CASE StartRefused(r)
  <2>1. /\ ActiveSession /\ Put(FirstFree, r, "refused")
        /\ settled' = settled \cup {r.seq} /\ Tell({r.seq}) /\ Go("refused")
        /\ UNCHANGED <<lines, journals, speculative, completedSpeculative, doubtful>>
    BY <1>3 DEF StartRefused
  <2>2. UNCHANGED <<ids, journal>>
    BY <2>1 DEF journals
  <2>3. /\ TypeOK' /\ Nested' /\ MutationsInv' /\ Pending' \subseteq Pending
        /\ Reached({"reading"}) => Reached({"reading"})'
        /\ r \in OpenMutations /\ OpenMutations' = OpenMutations \ {r}
    BY <2>1, <2>2, <1>1, <1>2, SlotTaken
  <2>4. Tell(Seqs({r}))
    BY <2>1 DEF Seqs
  <2>5. {r} \subseteq OpenMutations
    BY <2>3
  <2> QED
    BY <2>3, <2>4, <2>5, <1>1, MutationStep
<1>4. CASE StartOpening(r)
  <2>1. /\ ActiveSession /\ r.op \in Optimistic /\ Put(FirstFree, r, "opening")
        /\ journal' \in {journal, journal \cup {r.seq}} /\ Go("opening")
        /\ UNCHANGED <<lines, outcome, ids, fates>>
    BY <1>4 DEF StartOpening
  <2>2. UNCHANGED <<settled, speculative, completedSpeculative, doubtful>>
    BY <2>1 DEF fates
  <2>3. outcome' \in [1..MaxRequests -> Nat]
    BY <2>1, <1>0 DEF TypeOK
  <2>4. /\ TypeOK' /\ Nested' /\ MutationsInv' /\ Pending' \subseteq Pending
        /\ Reached({"reading"}) => Reached({"reading"})'
        /\ OpenMutations' = OpenMutations
    BY <2>1, <2>2, <2>3, <1>1, SlotTaken
  <2> QED
    BY <2>1, <2>4, <1>1, SilentStep
<1>5. CASE StartRunning(r)
  <2>1. /\ ActiveSession /\ Put(FirstFree, r, "running")
        /\ UNCHANGED <<lines, outcome, turn, journals, fates>>
    BY <1>5 DEF StartRunning
  <2>2. UNCHANGED <<ids, journal, settled, speculative, completedSpeculative, doubtful>>
    BY <2>1 DEF fates, journals
  <2>3. outcome' \in [1..MaxRequests -> Nat]
    BY <2>1, <1>0 DEF TypeOK
  <2>4. /\ TypeOK' /\ Nested' /\ MutationsInv' /\ Pending' \subseteq Pending
        /\ Reached({"reading"}) => Reached({"reading"})'
        /\ OpenMutations' = OpenMutations
    BY <2>1, <2>2, <2>3, <1>1, SlotTaken
  <2> QED
    BY <2>1, <2>4, <1>1, SilentStep
<1>6. CASE StartCanceled(r)
  <2>1. /\ Scheduler!Finish(r.item) /\ Tell({r.seq})
        /\ UNCHANGED <<turn, slots, journals, fates>>
    BY <1>6 DEF StartCanceled
  <2>2. /\ UNCHANGED <<session, fenced, shuttingDown, settling, ids, journal, settled>>
        /\ UNCHANGED <<speculative, completedSpeculative, doubtful, tracked, reads, latest>>
        /\ UNCHANGED <<settledReads, called, posted, turn, slots>>
    BY <2>1, <1>1 DEF sessionVars, journals, fates, readVars
  <2>3. /\ r \notin InFlight /\ r \in Requests /\ r # None /\ r.seq \notin settled
        /\ r \in OpenMutations
    BY <1>0, StartingIsUntold DEF OpenMutations
  <2>4. /\ InFlight' = InFlight /\ InLanes' = InLanes /\ HalfWay' = HalfWay
        /\ FreeSlots' = FreeSlots
    BY <2>2 DEF InFlight, InLanes, HalfWay, FreeSlots
  <2>5. InFlight' = InFlight \ {r} /\ settled' = settled \ {r.seq}
    BY <2>2, <2>3, <2>4
  <2>6. /\ waiting' = waiting /\ Queued' = Queued /\ Pending' \subseteq Pending /\ LinesInv'
        /\ running' \in [Items -> Requests \cup {None}]
        /\ Placed'
        /\ settled' \subseteq Seqs(InFlight)'
        /\ Untold' = Untold \ {r} /\ OpenMutations' = OpenMutations \ {r}
        /\ \A j, k \in ActiveItems' :
             running'[j].op \in Optimistic /\ running'[k].op \in Optimistic => j = k
    BY <2>1, <2>5, <1>0, <1>1, RequestLeaves
  <2>7. Sited' /\ Marks' /\ Fence'
    BY <2>2, <2>4, <2>6, <1>0 DEF Sited, Marks, Fence
  <2>8. Nested' /\ \A places : Reached(places)' <=> Reached(places)
    BY <2>2, <1>0 DEF Nested, Reached
  <2>9. Agreed'
    <3>1. Reached(DispatchPlaces)
      BY <1>0, <1>1, Here DEF DispatchPlaces
    <3>2. \A i \in Slots : Reached({slots[i].at})' <=> Reached({slots[i].at})
      BY <2>2 DEF Reached
    <3> QED
      BY <3>1, <3>2, <2>2, <2>4, <2>8, <1>0 DEF Agreed, HalfWay
  <2>10. Overlays'
    BY <2>2, <2>4, <2>6, <2>8, <1>0 DEF Overlays, Opening
  <2>11. Doubts'
    BY <2>2, <2>4, <2>6, <1>0, <1>1 DEF Doubts, Seqs
  <2>12. Room'
    BY <2>4, <1>0, <1>1, RoomStays
  <2>13. TypeOK'
    <3>1. outcome' \in [1..MaxRequests -> Nat]
      BY <2>1, <1>2
    <3>2. starting' \subseteq Requests
      BY <1>0, <1>1 DEF TypeOK
    <3> QED
      BY <3>1, <3>2, <2>2, <2>6, <1>0 DEF TypeOK
  <2>14. MutationsInv'
    BY <2>6, <2>7, <2>9, <2>10, <2>11, <2>12 DEF MutationsInv, Places
  <2>15. Tell(Seqs({r})) /\ {r} \subseteq OpenMutations
    BY <2>1, <2>3 DEF Seqs
  <2> QED
    BY <2>6, <2>8, <2>13, <2>14, <2>15, <1>1, MutationStep
<1> QED
  BY <1>1, <1>3, <1>4, <1>5, <1>6
-----------------------------------------------------------------------------
(* Starts that were interrupted by handlers.                                *)

\* A start that came to nothing frees its slot and its item.
LEMMA StartEnds ==
  ASSUME MediaInv, NEW i \in Slots, NEW p \in {"refused", "opening"},
         At(p), slots[i].at = p, NEW r, r = slots[i].active,
         r.seq \in settled, Scheduler!Finish(r.item), Clear(i),
         settled' = settled \ {r.seq}, journal' = journal \ {r.seq},
         speculative' \in {speculative, speculative \ {r.seq}}, Go("dispatch"),
         posted' \in Seq({"dispatch", "pump"}),
         UNCHANGED <<sessionVars, called, outcome, starting, settling, ids,
                     completedSpeculative, doubtful, tracked, readVars>>
  PROVE  MediaInv'
<1>0. /\ TypeOK /\ Numbered /\ Nested /\ MutationsInv
      /\ LinesInv /\ Places /\ Placed /\ Sited /\ Marks /\ Fence /\ Agreed /\ Overlays
      /\ Doubts /\ Room
  BY DEF MediaInv, MutationsInv, Places
<1>1. /\ UNCHANGED <<session, fenced, shuttingDown, starting, settling, ids>>
      /\ UNCHANGED <<completedSpeculative, doubtful, tracked, reads, latest, settledReads>>
      /\ UNCHANGED <<called, outcome>>
  BY DEF sessionVars, readVars
<1>2. /\ r # None /\ r \in InFlight /\ r \in InLanes /\ r \in Requests
      /\ i \in HalfWay /\ HalfWay \subseteq {i} /\ p \in DispatchPlaces
  <2>1. r # None /\ i \in HalfWay /\ p \in DispatchPlaces
    BY <1>0 DEF Sited, HalfWay, DispatchPlaces
  <2>2. HalfWay \subseteq {i}
    BY <2>1, <1>0 DEF Agreed
  <2> QED
    BY <2>1, <2>2, <1>0, InFlightRuns
<1>3. /\ settling = None /\ ~Reached(SettlePlaces)
      /\ turn # <<>> /\ turn[Len(turn)] = p
  BY <1>0, <1>2, DispatchingAlone
<1>4. /\ slots' \in [Slots -> [active : Requests \cup {None},
                               at : {"free", "refused", "opening", "running"}]]
      /\ slots'[i].active = None /\ slots'[i].at = "free"
      /\ \A j \in Slots \ {i} : slots'[j] = slots[j]
      /\ InLanes' = InLanes \ {r}
      /\ FreeSlots' = FreeSlots \cup {i}
      /\ \A j, k \in Slots :
           slots'[j].active = slots'[k].active /\ slots'[j].active # None => j = k
      /\ \A j \in Slots : slots'[j].active = None <=> slots'[j].at = "free"
  BY <1>0, <1>2, ClearLeaves
<1>5. InFlight' = InFlight \ {r}
  BY <1>1, <1>3, <1>4, SlotsAre
<1>6. starting' = starting \ {r}
  BY <1>0, <1>1, <1>2 DEF Placed
<1>7. /\ waiting' = waiting /\ Queued' = Queued /\ Pending' \subseteq Pending /\ LinesInv'
      /\ running' \in [Items -> Requests \cup {None}]
      /\ Placed'
      /\ settled' \subseteq Seqs(InFlight)'
      /\ Untold' = Untold \ {r} /\ OpenMutations' = OpenMutations \ {r}
      /\ \A j, k \in ActiveItems' :
           running'[j].op \in Optimistic /\ running'[k].op \in Optimistic => j = k
      /\ \A q \in starting' \cup InFlight' : q.seq # r.seq
  BY <1>0, <1>2, <1>5, <1>6, RequestLeaves
<1>8. OpenMutations' = OpenMutations /\ Untold' = Untold
  <2>1. r \notin Untold /\ r \notin Queued /\ r \notin starting
    BY <1>0, <1>2, Apart DEF Untold
  <2> QED
    BY <2>1, <1>7 DEF OpenMutations
<1>9. HalfWay' = {}
  <2>1. \A j \in Slots : j \notin HalfWay'
    BY <1>2, <1>4 DEF HalfWay
  <2> QED
    BY <2>1 DEF HalfWay
<1>10. Sited' /\ Marks' /\ Fence' /\ Room'
  <2>1. Sited'
    BY <1>1, <1>3, <1>4 DEF Sited
  <2>2. Marks'
    BY <1>7, <1>9 DEF Marks, HalfWay
  <2>3. Fence'
    BY <1>0, <1>1, <1>7, <1>8 DEF Fence
  <2>4. Room'
    BY <1>0, <1>1, <1>4, RoomStays
  <2> QED
    BY <2>1, <2>2, <2>3, <2>4
<1>11. /\ Nested' /\ turn' \in Seq(TurnPlaces)
       /\ ~Reached(SettlePlaces)' /\ Reached(DispatchPlaces)'
       /\ Reached({"reading"}) => Reached({"reading"})'
  <2>1. "dispatch" \in TurnPlaces /\ "dispatch" \in DispatchPlaces
        /\ "dispatch" \notin SettlePlaces \cup {"reading"}
    BY DEF TurnPlaces, DispatchPlaces, SettlePlaces
  <2>2. /\ Nested' /\ turn' \in Seq(TurnPlaces)
        /\ \A places : Reached(places)' => Reached(places) \/ "dispatch" \in places
        /\ \A places : Reached(places) => Reached(places)' \/ turn[Len(turn)] \in places
        /\ \A places : "dispatch" \in places => Reached(places)'
    BY <2>1, <1>0, <1>2, <1>3, NestedGo, TurnGoes
  <2>3. ~Reached(SettlePlaces)' /\ Reached(DispatchPlaces)'
    BY <2>1, <2>2, <1>3
  <2>4. Reached({"reading"}) => Reached({"reading"})'
    BY <2>2, <1>3
  <2> QED
    BY <2>2, <2>3, <2>4
<1>12. Agreed'
  BY <1>1, <1>3, <1>9, <1>11 DEF Agreed
<1>13. Overlays'
  <2>1. ASSUME NEW s \in journal'
        PROVE  \E q \in InFlight' : /\ q.seq = s /\ q.op \in Optimistic
                                    /\ (s \in ids' /\ s \notin settled') \/ Opening(q)'
    <3>1. s \in journal /\ s # r.seq
      OBVIOUS
    <3>2. PICK q \in InFlight : /\ q.seq = s /\ q.op \in Optimistic
                                /\ (s \in ids /\ s \notin settled) \/ Opening(q)
      BY <3>1, <1>0 DEF Overlays
    <3>3. q # r
      BY <3>1, <3>2
    <3>4. ~Opening(q)
      <4>1. ASSUME Opening(q) PROVE FALSE
        <5>1. PICK j \in Slots : slots[j].at = "opening" /\ slots[j].active = q
          BY <4>1 DEF Opening
        <5>2. j \in HalfWay
          BY <5>1 DEF HalfWay
        <5> QED
          BY <5>1, <5>2, <3>3, <1>2
      <4> QED
        BY <4>1
    <3> QED
      BY <3>2, <3>3, <3>4, <1>1, <1>5
  <2> QED
    BY <2>1, <1>1, <1>3, <1>7 DEF Overlays
<1>14. Doubts'
  <2>0. r.seq \notin doubtful
    BY <1>0, <1>2 DEF Doubts
  <2>1. Seqs(Queued \cup starting)' \cap doubtful' = {}
    BY <1>0, <1>1, <1>7 DEF Doubts, Seqs
  <2>2. \A q \in InFlight' : q.seq \in doubtful' =>
          q.seq \in speculative' /\ q.generation = session'.generation
    BY <1>0, <1>1, <1>5, <1>7 DEF Doubts
  <2>3. doubtful' \subseteq Seqs(InFlight)' \/ shuttingDown' \/ (fenced' /\ completedSpeculative')
    <3>1. doubtful \subseteq Seqs(InFlight) => doubtful' \subseteq Seqs(InFlight)'
      BY <2>0, <1>1, <1>5 DEF Seqs
    <3> QED
      BY <3>1, <1>0, <1>1 DEF Doubts
  <2> QED
    BY <2>1, <2>2, <2>3, <1>0, <1>1, <1>9 DEF Doubts
<1>15. TypeOK'
  <2>1. settled' \subseteq 1..MaxRequests /\ journal' \subseteq 1..MaxRequests
        /\ speculative' \subseteq 1..MaxRequests
    BY <1>0 DEF TypeOK
  <2> QED
    BY <2>1, <1>0, <1>1, <1>4, <1>7, <1>11 DEF TypeOK, TurnPlaces
<1>16. MutationsInv'
  BY <1>7, <1>10, <1>12, <1>13, <1>14 DEF MutationsInv, Places
<1> QED
  BY <1>1, <1>7, <1>8, <1>11, <1>15, <1>16, SilentStep

LEMMA PostIs ==
  ASSUME TypeOK, NEW calls \in Seq({"dispatch", "pump"}), Post(calls)
  PROVE  posted' \in Seq({"dispatch", "pump"})
  BY DEF TypeOK, Post

LEMMA RefusedDoneInv ==
  ASSUME MediaInv, NEW i \in Slots, RefusedDone(i)
  PROVE  MediaInv'
<1> DEFINE r == slots[i].active
<1>0. TypeOK /\ Numbered /\ Marks /\ Overlays /\ Places /\ Sited /\ LinesInv
  BY DEF MediaInv, MutationsInv, Places
<1>1. /\ At("refused") /\ slots[i].at = "refused"
      /\ settled' = settled \ {r.seq} /\ Scheduler!Finish(r.item)
      /\ Clear(i) /\ Post(<<"dispatch">>) /\ Go("dispatch")
      /\ UNCHANGED <<sessionVars, called, outcome, starting, settling, journals,
                     speculative, completedSpeculative, doubtful, tracked, readVars>>
  BY DEF RefusedDone
<1>2. r.seq \in settled
  BY <1>0, <1>1 DEF Marks
<1>3. posted' \in Seq({"dispatch", "pump"})
  <2>1. <<"dispatch">> \in Seq({"dispatch", "pump"})
    OBVIOUS
  <2> QED
    BY <2>1, <1>0, <1>1, PostIs
<1>4. r.seq \notin journal
  <2>1. ASSUME r.seq \in journal PROVE FALSE
    <3>1. PICK q \in InFlight : q.seq = r.seq /\ (r.seq \notin settled \/ Opening(q))
      BY <2>1, <1>0 DEF Overlays
    <3>2. r \in InFlight
      BY <1>0, <1>1, InFlightRuns DEF Sited
    <3>3. q = r
      BY <3>1, <3>2, <1>0, Apart
    <3>4. PICK j \in Slots : slots[j].at = "opening" /\ slots[j].active = r
      BY <3>1, <3>3, <1>2 DEF Opening
    <3> QED
      BY <3>4, <1>0, <1>1 DEF Sited
  <2> QED
    BY <2>1
<1>5. journal' = journal \ {r.seq} /\ ids' = ids
  BY <1>1, <1>4 DEF journals
<1>6. UNCHANGED <<sessionVars, called, outcome, starting, settling, ids,
                  completedSpeculative, doubtful, tracked, readVars>>
  BY <1>1, <1>5
<1>7. speculative' \in {speculative, speculative \ {r.seq}}
  BY <1>1
<1> DEFINE p == "refused"
<1>8. p \in {"refused", "opening"} /\ At(p) /\ slots[i].at = p
  BY <1>1
<1> HIDE DEF r, p
<1>9. r = slots[i].active
  BY DEF r
<1> QED
  BY <1>1, <1>2, <1>3, <1>5, <1>6, <1>7, <1>8, <1>9, StartEnds

LEMMA OpenedInv ==
  ASSUME MediaInv, NEW i \in Slots, Opened(i)
  PROVE  MediaInv'
<1> DEFINE r == slots[i].active
           canceled == r.seq \in settled \/ ~AcceptsSession(r)
<1>0. /\ TypeOK /\ Numbered /\ Nested /\ MutationsInv
      /\ LinesInv /\ Places /\ Placed /\ Sited /\ Marks /\ Fence /\ Agreed /\ Overlays
      /\ Doubts /\ Room
  BY DEF MediaInv, MutationsInv, Places
<1>1. /\ At("opening") /\ slots[i].at = "opening" /\ Go("dispatch")
      /\ UNCHANGED <<sessionVars, called, outcome, starting, settling,
                     completedSpeculative, doubtful, tracked, readVars>>
      /\ \/ /\ canceled
            /\ journal' = journal \ {r.seq}
            /\ settled' = settled \ {r.seq}
            /\ speculative' = speculative \ {r.seq}
            /\ Scheduler!Finish(r.item)
            /\ Clear(i)
            /\ Post(<<"dispatch", "pump">>)
            /\ UNCHANGED ids
         \/ /\ ~canceled
            /\ ids' = ids \cup (journal \cap {r.seq})
            /\ Put(i, r, "running")
            /\ UNCHANGED <<lines, journal, settled, speculative, posted>>
  BY DEF Opened
<1>2. /\ r # None /\ r \in InFlight /\ r \in InLanes /\ r \in Requests /\ i \in HalfWay
  BY <1>0, <1>1, InFlightRuns DEF Sited, HalfWay
<1>3. CASE /\ canceled
           /\ journal' = journal \ {r.seq}
           /\ settled' = settled \ {r.seq}
           /\ speculative' = speculative \ {r.seq}
           /\ Scheduler!Finish(r.item)
           /\ Clear(i)
           /\ Post(<<"dispatch", "pump">>)
           /\ UNCHANGED ids
  <2>1. r.seq \in settled
    BY <1>0, <1>2, <1>3, UnwantedIsTold DEF StillCurrent
  <2>2. posted' \in Seq({"dispatch", "pump"})
    <3>1. <<"dispatch", "pump">> \in Seq({"dispatch", "pump"})
      OBVIOUS
    <3> QED
      BY <3>1, <1>0, <1>3, PostIs
  <2>3. UNCHANGED <<sessionVars, called, outcome, starting, settling, ids,
                    completedSpeculative, doubtful, tracked, readVars>>
    BY <1>1, <1>3
  <2>4. speculative' \in {speculative, speculative \ {r.seq}}
    BY <1>3
  <2> DEFINE p == "opening"
  <2>5. p \in {"refused", "opening"} /\ At(p) /\ slots[i].at = p
    BY <1>1
  <2> HIDE DEF r, p
  <2>6. r = slots[i].active
    BY DEF r
  <2> QED
    BY <1>1, <1>3, <2>1, <2>2, <2>3, <2>4, <2>5, <2>6, StartEnds
<1>4. CASE /\ ~canceled
           /\ ids' = ids \cup (journal \cap {r.seq})
           /\ Put(i, r, "running")
           /\ UNCHANGED <<lines, journal, settled, speculative, posted>>
  <2>1. /\ UNCHANGED <<session, fenced, shuttingDown, starting, settling, waiting, running>>
        /\ UNCHANGED <<completedSpeculative, doubtful, tracked, reads, latest, settledReads>>
        /\ UNCHANGED <<called, outcome, journal, settled, speculative, posted>>
    BY <1>1, <1>4 DEF sessionVars, readVars, lines
  <2>2. /\ settling = None /\ ~Reached(SettlePlaces)
        /\ turn # <<>> /\ turn[Len(turn)] = "opening"
        /\ "opening" \in DispatchPlaces
    <3>1. "opening" \in DispatchPlaces
      BY DEF DispatchPlaces
    <3> QED
      BY <3>1, <1>0, <1>1, DispatchingAlone
  <2>3. HalfWay \subseteq {i} /\ r.seq \notin settled
    BY <1>0, <1>2, <1>4 DEF Agreed
  <2>4. /\ slots' \in [Slots -> [active : Requests \cup {None},
                                 at : {"free", "refused", "opening", "running"}]]
        /\ slots'[i].active = r /\ slots'[i].at = "running"
        /\ \A j \in Slots \ {i} : slots'[j] = slots[j]
    <3>1. slots \in [Slots -> [active : Requests \cup {None},
                               at : {"free", "refused", "opening", "running"}]]
      BY <1>0 DEF TypeOK
    <3> HIDE DEF r
    <3>2. slots' = [slots EXCEPT ![i] = [active |-> r, at |-> "running"]]
      BY <1>4 DEF Put
    <3>3. slots'[i] = [active |-> r, at |-> "running"]
      BY <3>1, <3>2
    <3> QED
      BY <3>1, <3>2, <3>3, <1>2
  <2>5. \A j \in Slots : slots'[j].active = slots[j].active
    BY <2>4
  <2> HIDE DEF r
  <2>6. /\ InLanes' = InLanes /\ FreeSlots' = FreeSlots
    <3>1. {slots'[j].active : j \in Slots} = {slots[j].active : j \in Slots}
      BY <2>5
    <3>2. \A j \in Slots : j \in FreeSlots' <=> j \in FreeSlots
      BY <2>5 DEF FreeSlots
    <3> QED
      BY <3>1, <3>2 DEF InLanes, FreeSlots
  <2>7. /\ InFlight' = InFlight /\ Untold' = Untold /\ HalfWay' = {}
    <3>1. InFlight' = InFlight
      BY <2>1, <2>6 DEF InFlight
    <3>2. Untold' = Untold
      BY <3>1, <2>1 DEF Untold
    <3>3. HalfWay' = {}
      BY <2>3, <2>4 DEF HalfWay
    <3> QED
      BY <3>1, <3>2, <3>3
  <2>8. /\ Queued' = Queued /\ Pending' = Pending /\ ActiveItems' = ActiveItems
        /\ OpenMutations' = OpenMutations
    BY <2>1, <2>7 DEF Queued, Pending, ActiveItems, OpenMutations
  <2>9. LinesInv' /\ Placed' /\ Sited' /\ Marks' /\ Fence' /\ Room'
    <3>1. LinesInv' /\ Placed' /\ Fence' /\ Room'
      BY <1>0, <2>1, <2>6, <2>7, <2>8 DEF LinesInv, Placed, Fence, Room
    <3>2. Sited'
      <4>1. \A j, k \in Slots :
              slots'[j].active = slots'[k].active /\ slots'[j].active # None => j = k
        BY <1>0, <2>5 DEF Sited
      <4>2. \A j \in Slots : slots'[j].active = None <=> slots'[j].at = "free"
        BY <1>0, <1>2, <2>4 DEF Sited
      <4> QED
        BY <4>1, <4>2, <2>1, <2>2 DEF Sited
    <3>3. Marks'
      BY <1>0, <2>1, <2>4, <2>7 DEF Marks, Seqs
    <3> QED
      BY <3>1, <3>2, <3>3
  <2>10. /\ Nested' /\ turn' \in Seq(TurnPlaces)
         /\ ~Reached(SettlePlaces)' /\ Reached(DispatchPlaces)'
         /\ Reached({"reading"}) => Reached({"reading"})'
    <3>1. "dispatch" \in TurnPlaces /\ "dispatch" \in DispatchPlaces
          /\ "dispatch" \notin SettlePlaces \cup {"reading"}
      BY DEF TurnPlaces, DispatchPlaces, SettlePlaces
    <3>2. /\ Nested' /\ turn' \in Seq(TurnPlaces)
          /\ \A places : Reached(places)' => Reached(places) \/ "dispatch" \in places
          /\ \A places : Reached(places) => Reached(places)' \/ turn[Len(turn)] \in places
          /\ \A places : "dispatch" \in places => Reached(places)'
      BY <3>1, <1>0, <1>1, <2>2, NestedGo, TurnGoes
    <3>3. ~Reached(SettlePlaces)' /\ Reached(DispatchPlaces)'
      BY <3>1, <3>2, <2>2
    <3>4. Reached({"reading"}) => Reached({"reading"})'
      BY <3>2, <2>2
    <3> QED
      BY <3>2, <3>3, <3>4
  <2>11. Agreed'
    BY <2>1, <2>2, <2>7, <2>10 DEF Agreed
  <2>12. Overlays'
    <3>1. ASSUME NEW s \in journal'
          PROVE  \E q \in InFlight' : /\ q.seq = s /\ q.op \in Optimistic
                                      /\ (s \in ids' /\ s \notin settled') \/ Opening(q)'
      <4>1. s \in journal
        BY <2>1
      <4>2. PICK q \in InFlight : /\ q.seq = s /\ q.op \in Optimistic
                                  /\ (s \in ids /\ s \notin settled) \/ Opening(q)
        BY <4>1, <1>0 DEF Overlays
      <4>3. CASE q = r
        BY <4>1, <4>2, <4>3, <2>1, <2>3, <2>7, <1>4
      <4>4. CASE q # r
        <5>1. ~Opening(q)
          <6>1. ASSUME Opening(q) PROVE FALSE
            <7>1. PICK j \in Slots : slots[j].at = "opening" /\ slots[j].active = q
              BY <6>1 DEF Opening
            <7>2. j \in HalfWay
              BY <7>1 DEF HalfWay
            <7> QED
              BY <7>1, <7>2, <4>4, <2>3 DEF r
          <6> QED
            BY <6>1
        <5> QED
          BY <5>1, <4>2, <2>1, <2>7, <1>4
      <4> QED
        BY <4>3, <4>4
    <3> QED
      BY <3>1, <1>0, <2>1, <2>2, <2>8 DEF Overlays
  <2>13. Doubts'
    BY <1>0, <2>1, <2>7, <2>8 DEF Doubts, Seqs
  <2>14. TypeOK'
    <3>1. ids' \subseteq 1..MaxRequests
      BY <1>0, <1>4 DEF TypeOK
    <3> QED
      BY <3>1, <1>0, <2>1, <2>4, <2>10 DEF TypeOK, TurnPlaces
  <2>15. MutationsInv' /\ Pending' \subseteq Pending
    BY <2>8, <2>9, <2>11, <2>12, <2>13 DEF MutationsInv, Places
  <2>16. UNCHANGED <<sessionVars, called, outcome, readVars>>
    BY <1>1
  <2> QED
    BY <2>8, <2>10, <2>14, <2>15, <2>16, SilentStep
<1> HIDE DEF canceled
<1> QED
  BY <1>1, <1>3, <1>4
-----------------------------------------------------------------------------
(* The end of a mutation.                                                   *)

\* Where a result is settled, nothing is dispatched.
LEMMA SettlingAlone ==
  ASSUME TypeOK, Nested, Agreed, Places, NEW p \in SettlePlaces, At(p)
  PROVE  /\ settling # None /\ ~Reached(DispatchPlaces) /\ starting = {} /\ HalfWay = {}
         /\ turn # <<>> /\ turn[Len(turn)] = p
         /\ settling.request \in InFlight /\ settling.request \notin InLanes
         /\ InFlight \subseteq InLanes \cup {settling.request}
         /\ settling \in [request : Requests, ok : BOOLEAN]
<1>1. turn # <<>> /\ turn[Len(turn)] = p /\ Reached(SettlePlaces)
  BY Here
<1>2. settling # None /\ ~Reached(DispatchPlaces) /\ starting = {}
  BY <1>1 DEF Agreed
<1>3. HalfWay = {}
  <2>1. \A i \in HalfWay : Reached({slots[i].at}) => Reached(DispatchPlaces)
    BY DEF HalfWay, Reached, DispatchPlaces
  <2> QED
    BY <2>1, <1>2 DEF Agreed
<1> QED
  BY <1>1, <1>2, <1>3, SlotsAre DEF Places, Sited, TypeOK

\* What a handler of the catalog may have changed while a result was settled.
LEMMA SettleStep ==
  ASSUME MediaInv, NEW p \in SettlePlaces, At(p), NEW q \in {"applied", "answering", "ending"},
         Go(q), NEW r, r = settling.request, tracked' \subseteq Items,
         UNCHANGED <<sessionVars, called, posted, lines, starting, slots, settling,
                     speculative, completedSpeculative, doubtful, readVars>>,
         \/ /\ q = "ending" /\ ~StillCurrent(r)
            /\ UNCHANGED <<outcome, settled, ids, journal>>
         \/ /\ q = "answering" /\ StillCurrent(r) /\ r.seq \notin journal
            /\ settled' = settled \cup {r.seq} /\ Tell({r.seq})
            /\ UNCHANGED <<ids, journal>>
         \/ /\ q = "applied" /\ StillCurrent(r) /\ RollBack({r.seq})
            /\ UNCHANGED <<outcome, settled>>
  PROVE  MediaInv'
<1>0. /\ TypeOK /\ Numbered /\ Nested /\ MutationsInv
      /\ LinesInv /\ Places /\ Placed /\ Sited /\ Marks /\ Fence /\ Agreed /\ Overlays
      /\ Doubts /\ Room
  BY DEF MediaInv, MutationsInv, Places
<1>1. /\ UNCHANGED <<session, fenced, shuttingDown, starting, settling, waiting, running, slots>>
      /\ UNCHANGED <<speculative, completedSpeculative, doubtful, reads, latest, settledReads>>
      /\ UNCHANGED <<called, posted>>
  BY DEF sessionVars, readVars, lines
<1>2. /\ settling # None /\ ~Reached(DispatchPlaces) /\ starting = {} /\ HalfWay = {}
      /\ turn # <<>> /\ turn[Len(turn)] = p
      /\ r \in InFlight /\ r \notin InLanes
      /\ InFlight \subseteq InLanes \cup {r}
  BY <1>0, SettlingAlone
<1>3. /\ Queued' = Queued /\ InFlight' = InFlight /\ InLanes' = InLanes
      /\ Pending' = Pending /\ ActiveItems' = ActiveItems
      /\ FreeSlots' = FreeSlots /\ HalfWay' = HalfWay
      /\ (settled' = settled => Untold' = Untold /\ OpenMutations' = OpenMutations)
  BY <1>1, MutationsStay
<1>4. /\ r \in Requests /\ r.seq \in 1..called /\ r \notin Queued
      /\ \A x \in InFlight : x.seq = r.seq => x = r
  BY <1>0, <1>2, Apart
<1>5. settled \subseteq settled' /\ settled' \subseteq settled \cup {r.seq}
  OBVIOUS
<1>6. LinesInv' /\ Placed' /\ Sited' /\ Room'
  BY <1>0, <1>1, <1>3 DEF LinesInv, Placed, Sited, Room
<1>7. Marks'
  BY <1>0, <1>1, <1>2, <1>3, <1>5 DEF Marks, Seqs
<1>8. OpenMutations' \subseteq OpenMutations /\ Untold' \subseteq Untold
  BY <1>1, <1>3, <1>5 DEF OpenMutations, Untold
<1>9. Fence'
  <2>1. fenced' => Queued' = {} /\ Untold' = {}
    BY <1>0, <1>1, <1>3, <1>8 DEF Fence
  <2> QED
    BY <2>1, <1>0, <1>1, <1>8 DEF Fence
<1>10. /\ Nested' /\ turn' \in Seq(TurnPlaces)
       /\ \A places : Reached(places)' <=> q \in places
       /\ Reached(SettlePlaces)' /\ ~Reached(DispatchPlaces)'
       /\ Reached({"reading"}) => Reached({"reading"})'
  <2>1. q \in TurnPlaces /\ q \in SettlePlaces /\ q \notin DispatchPlaces
    BY DEF TurnPlaces, Emitting, SettlePlaces, DispatchPlaces
  <2>2. /\ Nested' /\ turn' \in Seq(TurnPlaces)
        /\ \A places : Reached(places)' <=> q \in places
    BY <2>1, <1>0, <1>2, NestedGo, TurnGoes
  <2>3. ~Reached({"reading"})
    <3>1. ASSUME Reached({"reading"}) PROVE FALSE
      <4>1. PICK i \in 1..Len(turn) : turn[i] = "reading"
        BY <3>1 DEF Reached
      <4>2. i = 1
        BY <4>1, <1>0 DEF Nested
      <4>3. Len(turn) \in 1..Len(turn)
        BY <1>0, Here
      <4>4. Len(turn) = 1
        BY <4>3, <1>0, <1>2 DEF Nested
      <4> QED
        BY <4>1, <4>2, <4>4, <1>2 DEF SettlePlaces
    <3> QED
      BY <3>1
  <2> QED
    BY <2>1, <2>2, <2>3
<1>11. q \in {"answering", "ending"} => r.seq \in settled'
  <2>1. ~StillCurrent(r) => r.seq \in settled
    BY <1>0, <1>2, UnwantedIsTold
  <2> QED
    BY <2>1
<1>12. Agreed'
  BY <1>1, <1>2, <1>3, <1>10, <1>11 DEF Agreed
<1>13. /\ journal' \subseteq journal /\ ids' \subseteq ids
       /\ \A s \in journal' : s \in ids => s \in ids'
       /\ q # "ending" => r.seq \notin journal'
       /\ r.seq \in journal' => settled' = settled
  <2>1. CASE RollBack({r.seq}) /\ q = "applied" /\ settled' = settled
    <3>1. r.seq \in journal => r.seq \in ids
      <4>1. ASSUME r.seq \in journal PROVE r.seq \in ids
        <5>1. PICK x \in InFlight : x.seq = r.seq /\ (r.seq \in ids \/ Opening(x))
          BY <4>1, <1>0 DEF Overlays
        <5>2. ~Opening(x)
          BY <1>2 DEF Opening, HalfWay
        <5> QED
          BY <5>1, <5>2
      <4> QED
        BY <4>1
    <3> QED
      BY <2>1, <3>1 DEF RollBack
  <2>2. CASE UNCHANGED <<ids, journal>> /\ (q = "ending" \/ r.seq \notin journal)
             /\ (q = "ending" => settled' = settled)
    BY <2>2
  <2> QED
    BY <2>1, <2>2
<1>14. Overlays'
  <2>1. ASSUME NEW s \in journal'
        PROVE  \E x \in InFlight' : /\ x.seq = s /\ x.op \in Optimistic
                                    /\ (s \in ids' /\ s \notin settled') \/ Opening(x)'
    <3>1. PICK x \in InFlight : /\ x.seq = s /\ x.op \in Optimistic
                                /\ (s \in ids /\ s \notin settled) \/ Opening(x)
      BY <1>0, <1>13 DEF Overlays
    <3>2. ~Opening(x)
      BY <1>2 DEF Opening, HalfWay
    <3>3. s \notin settled'
      BY <3>1, <3>2, <1>5, <1>13
    <3> QED
      BY <3>1, <3>2, <3>3, <1>3, <1>13
  <2>2. settling' # None /\ (~settling'.ok \/ Reached({"applied"})')
          => settling'.request.seq \notin journal'
    <3>1. CASE q = "ending"
      <4>1. ~Reached({"applied"})'
        BY <3>1, <1>10
      <4> QED
        BY <4>1, <1>0, <1>1, <1>13 DEF Overlays
    <3>2. CASE q # "ending"
      BY <3>2, <1>1, <1>13
    <3> QED
      BY <3>1, <3>2
  <2> QED
    BY <2>1, <2>2, <1>0, <1>1, <1>3 DEF Overlays
<1>15. Doubts'
  BY <1>0, <1>1, <1>2, <1>3 DEF Doubts, Seqs
<1>16. TypeOK'
  <2>1. settled' \subseteq 1..MaxRequests
    <3>1. r.seq \in 1..MaxRequests
      BY <1>0, <1>4, CalledBound
    <3> QED
      BY <3>1, <1>0, <1>5 DEF TypeOK
  <2>2. ids' \subseteq 1..MaxRequests /\ journal' \subseteq 1..MaxRequests
    BY <1>0, <1>13 DEF TypeOK
  <2>3. outcome' \in [1..MaxRequests -> Nat]
    BY <1>0 DEF TypeOK, Tell
  <2> QED
    BY <2>1, <2>2, <2>3, <1>0, <1>1, <1>10 DEF TypeOK, TurnPlaces
<1>17. MutationsInv' /\ Pending' \subseteq Pending
  BY <1>3, <1>6, <1>7, <1>9, <1>12, <1>14, <1>15 DEF MutationsInv, Places
<1>18. UNCHANGED <<sessionVars, called, readVars>>
  OBVIOUS
<1>19. CASE settled' = settled /\ UNCHANGED outcome
  BY <1>3, <1>10, <1>16, <1>17, <1>18, <1>19, SilentStep
<1>20. CASE StillCurrent(r) /\ settled' = settled \cup {r.seq} /\ Tell({r.seq})
  <2>1. r \in Untold
    BY <1>2, <1>20 DEF Untold, StillCurrent
  <2>2. Untold' = Untold \ {r}
    BY <1>3, <1>4, <1>20 DEF Untold
  <2>3. OpenMutations' = OpenMutations \ {r} /\ {r} \subseteq OpenMutations
    BY <2>1, <2>2, <1>1, <1>2, <1>3, <1>4 DEF OpenMutations
  <2>4. Tell(Seqs({r}))
    BY <1>20 DEF Seqs
  <2> QED
    BY <2>3, <2>4, <1>10, <1>16, <1>17, <1>18, MutationStep
<1> QED
  BY <1>19, <1>20

LEMMA ApplyResultInv == ASSUME MediaInv, ApplyResult PROVE MediaInv'
<1> DEFINE r == settling.request
           p == "applying"
<1>0. TypeOK /\ Nested /\ Agreed /\ Places /\ Overlays
  BY DEF MediaInv, MutationsInv
<1>1. /\ At(p)
      /\ \/ /\ ~StillCurrent(r)
            /\ Go("ending")
            /\ UNCHANGED <<outcome, settled, journals, tracked>>
         \/ /\ StillCurrent(r) /\ ~settling.ok
            /\ settled' = settled \cup {r.seq}
            /\ Tell({r.seq})
            /\ Go("answering")
            /\ UNCHANGED <<journals, tracked>>
         \/ /\ StillCurrent(r) /\ settling.ok
            /\ tracked' \in {tracked} \cup
                 {tracked \cup {r.item} : x \in {r.op} \cap Refreshes}
            /\ RollBack({r.seq})
            /\ Go("applied")
            /\ UNCHANGED <<outcome, settled>>
      /\ UNCHANGED <<sessionVars, called, posted, lines, starting, slots, settling,
                     speculative, completedSpeculative, doubtful, readVars>>
  BY DEF ApplyResult
<1>2. p \in SettlePlaces
  BY DEF SettlePlaces
<1>3. settling # None /\ r \in InFlight
  BY <1>0, <1>1, <1>2, SettlingAlone
<1>4. r.item \in Items /\ tracked \subseteq Items
  BY <1>0, <1>3 DEF Places, Placed, TypeOK
<1> HIDE DEF r, p
<1>5. r = settling.request
  BY DEF r
<1>6. CASE /\ ~StillCurrent(r) /\ Go("ending")
           /\ UNCHANGED <<outcome, settled, journals, tracked>>
  <2> DEFINE q == "ending"
  <2>1. /\ q \in {"applied", "answering", "ending"} /\ Go(q) /\ q = "ending"
        /\ UNCHANGED <<outcome, settled, ids, journal>> /\ tracked' \subseteq Items
    BY <1>4, <1>6 DEF journals
  <2> HIDE DEF q
  <2> QED
    BY <2>1, <1>1, <1>2, <1>5, <1>6, SettleStep
<1>7. CASE /\ StillCurrent(r) /\ ~settling.ok
           /\ settled' = settled \cup {r.seq} /\ Tell({r.seq}) /\ Go("answering")
           /\ UNCHANGED <<journals, tracked>>
  <2> DEFINE q == "answering"
  <2>1. /\ q \in {"applied", "answering", "ending"} /\ Go(q) /\ q = "answering"
        /\ UNCHANGED <<ids, journal>> /\ tracked' \subseteq Items
    BY <1>4, <1>7 DEF journals
  <2>2. r.seq \notin journal
    BY <1>0, <1>3, <1>5, <1>7 DEF Overlays
  <2> HIDE DEF q
  <2> QED
    BY <2>1, <2>2, <1>1, <1>2, <1>5, <1>7, SettleStep
<1>8. CASE /\ StillCurrent(r) /\ settling.ok
           /\ tracked' \in {tracked} \cup
                {tracked \cup {r.item} : x \in {r.op} \cap Refreshes}
           /\ RollBack({r.seq}) /\ Go("applied")
           /\ UNCHANGED <<outcome, settled>>
  <2> DEFINE q == "applied"
  <2>1. /\ q \in {"applied", "answering", "ending"} /\ Go(q) /\ q = "applied"
        /\ tracked' \subseteq Items
    BY <1>4, <1>8
  <2> HIDE DEF q
  <2> QED
    BY <2>1, <1>1, <1>2, <1>5, <1>8, SettleStep
<1> QED
  BY <1>1, <1>6, <1>7, <1>8

LEMMA AnswerInv == ASSUME MediaInv, Answer PROVE MediaInv'
<1> DEFINE r == settling.request
           p == "applied"
<1>0. TypeOK /\ Nested /\ Agreed /\ Places /\ Overlays
  BY DEF MediaInv, MutationsInv
<1>1. /\ At(p)
      /\ \/ /\ StillCurrent(r)
            /\ settled' = settled \cup {r.seq}
            /\ Tell({r.seq})
            /\ Go("answering")
         \/ /\ ~StillCurrent(r)
            /\ Go("ending")
            /\ UNCHANGED <<settled, outcome>>
      /\ UNCHANGED <<sessionVars, called, posted, lines, starting, slots, settling,
                     journals, speculative, completedSpeculative, doubtful, tracked,
                     readVars>>
  BY DEF Answer
<1>2. p \in SettlePlaces
  BY DEF SettlePlaces
<1>3. settling # None /\ r.seq \notin journal
  <2>1. settling # None
    BY <1>0, <1>1, <1>2, SettlingAlone
  <2>2. Reached({"applied"})
    BY <1>0, <1>1, Here
  <2> QED
    BY <2>1, <2>2, <1>0 DEF Overlays
<1>4. tracked' \subseteq Items /\ UNCHANGED <<ids, journal>>
  BY <1>0, <1>1 DEF TypeOK, journals
<1> HIDE DEF r, p
<1>5. r = settling.request
  BY DEF r
<1>6. UNCHANGED <<sessionVars, called, posted, lines, starting, slots, settling,
                  speculative, completedSpeculative, doubtful, readVars>>
  BY <1>1
<1>7. CASE /\ StillCurrent(r) /\ settled' = settled \cup {r.seq} /\ Tell({r.seq})
           /\ Go("answering")
  <2> DEFINE q == "answering"
  <2>1. q \in {"applied", "answering", "ending"} /\ Go(q) /\ q = "answering"
    BY <1>7
  <2> HIDE DEF q
  <2> QED
    BY <2>1, <1>1, <1>2, <1>3, <1>4, <1>5, <1>6, <1>7, SettleStep
<1>8. CASE ~StillCurrent(r) /\ Go("ending") /\ UNCHANGED <<settled, outcome>>
  <2> DEFINE q == "ending"
  <2>1. /\ q \in {"applied", "answering", "ending"} /\ Go(q) /\ q = "ending"
        /\ UNCHANGED <<outcome, settled, ids, journal>>
    BY <1>4, <1>8
  <2> HIDE DEF q
  <2> QED
    BY <2>1, <1>1, <1>2, <1>4, <1>5, <1>6, <1>8, SettleStep
<1> QED
  BY <1>1, <1>7, <1>8

\* A result that comes in takes its request from the slot to be settled.
LEMMA FinishMutationInv ==
  ASSUME MediaInv, NEW i \in Slots, NEW ok \in BOOLEAN, FinishMutation(i, ok)
  PROVE  MediaInv'
<1> DEFINE r == slots[i].active
           keep == StillCurrent(r) /\ ok
           p == IF StillCurrent(r) THEN "applying" ELSE "ending"
<1>0. /\ TypeOK /\ Numbered /\ Nested /\ MutationsInv
      /\ LinesInv /\ Places /\ Placed /\ Sited /\ Marks /\ Fence /\ Agreed /\ Overlays
      /\ Doubts /\ Room
  BY DEF MediaInv, MutationsInv, Places
<1>1. /\ Quiet /\ slots[i].at = "running"
      /\ settling' = [request |-> r, ok |-> ok]
      /\ Call(p)
      /\ IF keep THEN UNCHANGED journals ELSE RollBack({r.seq})
      /\ Clear(i)
      /\ UNCHANGED <<sessionVars, called, outcome, posted, lines, starting, fates,
                     tracked, readVars>>
  BY DEF FinishMutation
<1>2. /\ UNCHANGED <<session, fenced, shuttingDown, starting, waiting, running, settled>>
      /\ UNCHANGED <<speculative, completedSpeculative, doubtful, reads, latest, settledReads>>
      /\ UNCHANGED <<called, outcome, posted, tracked>>
  BY <1>1 DEF sessionVars, readVars, lines, fates
<1>3. /\ turn = <<>> /\ (\A places : ~Reached(places)) /\ settling = None /\ starting = {}
      /\ HalfWay = {}
  <2>1. turn = <<>> /\ \A places : ~Reached(places)
    BY <1>0, <1>1, NowhereWhenQuiet
  <2> QED
    BY <2>1, <1>0 DEF Agreed
<1>4. r # None /\ r \in InFlight /\ r \in InLanes /\ r \in Requests
  BY <1>0, <1>1, InFlightRuns DEF Sited
<1>5. /\ slots' \in [Slots -> [active : Requests \cup {None},
                               at : {"free", "refused", "opening", "running"}]]
      /\ slots'[i].active = None /\ slots'[i].at = "free"
      /\ \A j \in Slots \ {i} : slots'[j] = slots[j]
      /\ InLanes' = InLanes \ {r}
      /\ FreeSlots' = FreeSlots \cup {i}
      /\ \A j, k \in Slots :
           slots'[j].active = slots'[k].active /\ slots'[j].active # None => j = k
      /\ \A j \in Slots : slots'[j].active = None <=> slots'[j].at = "free"
  BY <1>0, <1>1, <1>4, ClearLeaves
<1>6. ~keep => r.seq \notin journal'
  <2>1. ASSUME r.seq \in journal PROVE r.seq \in ids
    <3>1. PICK x \in InFlight : x.seq = r.seq /\ (r.seq \in ids \/ Opening(x))
      BY <2>1, <1>0 DEF Overlays
    <3>2. ~Opening(x)
      BY <1>3 DEF Opening, HalfWay
    <3> QED
      BY <3>1, <3>2
  <2> QED
    BY <2>1, <1>1 DEF RollBack
<1>7. /\ journal' \subseteq journal /\ ids' \subseteq ids
      /\ \A s \in ids : s # r.seq => s \in ids'
      /\ keep => ids' = ids /\ journal' = journal
  <2>1. CASE keep
    BY <2>1, <1>1 DEF journals
  <2>2. CASE ~keep
    <3>1. RollBack({r.seq})
      BY <2>2, <1>1
    <3> HIDE DEF r, keep
    <3> QED
      BY <2>2, <3>1 DEF RollBack
  <2> QED
    BY <2>1, <2>2
<1>8. ~StillCurrent(r) => r.seq \in settled
  BY <1>0, <1>4, UnwantedIsTold
<1>9. /\ p \in {"applying", "ending"} /\ p \in TurnPlaces /\ p \in SettlePlaces
      /\ p \notin DispatchPlaces /\ (p = "ending" => r.seq \in settled)
  BY <1>8 DEF TurnPlaces, Emitting, SettlePlaces, DispatchPlaces
<1> HIDE DEF r, keep, p
<1>10. /\ settling' # None /\ settling'.request = r /\ settling'.ok = ok
       /\ settling' \in [request : Requests, ok : BOOLEAN]
  <2>1. settling' \in [request : Requests, ok : BOOLEAN]
    BY <1>1, <1>4
  <2>2. settling' # None
    BY <2>1, MediaAssumption
  <2> QED
    BY <2>1, <2>2, <1>1
<1>11. InFlight' = InFlight
  <2>1. \A x : x \in InFlight <=> x \in InLanes
    BY <1>3, SlotsAre
  <2>2. \A x : x \in InFlight' <=> x \in InLanes' \/ x = r
    BY <1>10, SlotsAre
  <2>3. \A x : x \in InFlight' <=> x \in InFlight
    BY <2>1, <2>2, <1>4, <1>5
  <2> QED
    BY <2>3
<1>12. /\ Queued' = Queued /\ Pending' = Pending /\ ActiveItems' = ActiveItems
       /\ Untold' = Untold /\ OpenMutations' = OpenMutations
  BY <1>2, <1>11 DEF Queued, Pending, ActiveItems, Untold, OpenMutations
<1>13. HalfWay' = {}
  <2>1. \A j \in Slots : j \notin HalfWay'
    BY <1>3, <1>5 DEF HalfWay
  <2> QED
    BY <2>1 DEF HalfWay
<1>14. /\ LinesInv' /\ Placed' /\ Sited' /\ Marks' /\ Fence' /\ Room'
  <2>1. LinesInv' /\ Placed' /\ Fence'
    BY <1>0, <1>2, <1>11, <1>12 DEF LinesInv, Placed, Fence
  <2>2. Sited'
    BY <1>5, <1>10 DEF Sited
  <2>3. Marks'
    BY <1>0, <1>2, <1>11, <1>13 DEF Marks, Seqs, HalfWay
  <2>4. Room'
    BY <1>0, <1>2, <1>5, RoomStays
  <2> QED
    BY <2>1, <2>2, <2>3, <2>4
<1>15. /\ Nested' /\ turn' \in Seq(TurnPlaces)
       /\ \A places : Reached(places)' <=> p \in places
       /\ Reached({"reading"}) => Reached({"reading"})'
  BY <1>0, <1>1, <1>3, <1>9, NestedCall, TurnCalls
<1>16. Agreed'
  <2>1. Reached(SettlePlaces)' /\ ~Reached(DispatchPlaces)'
    BY <1>9, <1>15
  <2>2. Reached({"answering", "ending"})' => r.seq \in settled'
    BY <1>2, <1>9, <1>15
  <2> QED
    BY <2>1, <2>2, <1>2, <1>3, <1>10, <1>13 DEF Agreed
<1>17. Overlays'
  <2>1. ASSUME NEW s \in journal'
        PROVE  \E x \in InFlight' : /\ x.seq = s /\ x.op \in Optimistic
                                    /\ (s \in ids' /\ s \notin settled') \/ Opening(x)'
    <3>1. PICK x \in InFlight : /\ x.seq = s /\ x.op \in Optimistic
                                /\ (s \in ids /\ s \notin settled) \/ Opening(x)
      BY <1>0, <1>7 DEF Overlays
    <3>2. ~Opening(x)
      BY <1>3 DEF Opening, HalfWay
    <3>3. s \in ids'
      BY <3>1, <3>2, <1>6, <1>7
    <3> QED
      BY <3>1, <3>2, <3>3, <1>2, <1>11
  <2>2. ~Reached({"applied"})'
    BY <1>9, <1>15
  <2>3. ~ok => ~keep
    BY DEF keep
  <2> QED
    BY <2>1, <2>2, <2>3, <1>0, <1>2, <1>6, <1>10, <1>12 DEF Overlays
<1>18. Doubts'
  BY <1>0, <1>2, <1>11, <1>12, <1>13 DEF Doubts, Seqs
<1>19. TypeOK'
  <2>1. ids' \subseteq 1..MaxRequests /\ journal' \subseteq 1..MaxRequests
    BY <1>0, <1>7 DEF TypeOK
  <2> QED
    BY <2>1, <1>0, <1>2, <1>5, <1>10, <1>15 DEF TypeOK, TurnPlaces
<1>20. MutationsInv' /\ Pending' \subseteq Pending
  BY <1>12, <1>14, <1>16, <1>17, <1>18 DEF MutationsInv, Places
<1>21. UNCHANGED <<sessionVars, called, outcome, readVars>>
  BY <1>1
<1> QED
  BY <1>12, <1>15, <1>19, <1>20, <1>21, SilentStep

\* The request that has been settled leaves, and what it left in doubt is noted.
LEMMA EndMutationInv == ASSUME MediaInv, EndMutation PROVE MediaInv'
<1> DEFINE r == settling.request
<1>0. /\ TypeOK /\ Numbered /\ Nested /\ MutationsInv
      /\ LinesInv /\ Places /\ Placed /\ Sited /\ Marks /\ Fence /\ Agreed /\ Overlays
      /\ Doubts /\ Room
  BY DEF MediaInv, MutationsInv, Places
<1>1. /\ At("answering") \/ At("ending")
      /\ speculative' = speculative \ {r.seq}
      /\ completedSpeculative' = (completedSpeculative \/ (Unattended(r) /\ fenced))
      /\ doubtful' = IF Unattended(r) /\ ~fenced THEN doubtful \ {r.seq} ELSE doubtful
      /\ settled' = settled \ {r.seq}
      /\ Scheduler!Finish(r.item)
      /\ settling' = None
      /\ Post(<<"dispatch", "pump">>)
      /\ Return
      /\ UNCHANGED <<sessionVars, called, outcome, starting, slots, journals,
                     tracked, readVars>>
  BY DEF EndMutation
<1>2. /\ UNCHANGED <<session, fenced, shuttingDown, starting, slots, ids, journal, tracked>>
      /\ UNCHANGED <<reads, latest, settledReads, called, outcome>>
  BY <1>1 DEF sessionVars, readVars, journals
<1>3. PICK p \in {"answering", "ending"} : At(p)
  BY <1>1
<1>4. p \in SettlePlaces
  BY DEF SettlePlaces
<1>5. /\ settling # None /\ ~Reached(DispatchPlaces) /\ starting = {} /\ HalfWay = {}
      /\ turn # <<>> /\ turn[Len(turn)] = p
      /\ r \in InFlight /\ r \notin InLanes
      /\ InFlight \subseteq InLanes \cup {r}
  BY <1>0, <1>3, <1>4, SettlingAlone
<1>6. r.seq \in settled
  <2>1. Reached({"answering", "ending"})
    BY <1>0, <1>3, Here
  <2> QED
    BY <2>1, <1>0, <1>5 DEF Agreed
<1> HIDE DEF r
<1>7. /\ InLanes' = InLanes /\ FreeSlots' = FreeSlots /\ HalfWay' = {}
  BY <1>2, <1>5 DEF InLanes, FreeSlots, HalfWay
<1>8. InFlight' = InFlight \ {r}
  BY <1>1, <1>5, <1>7, SlotsAre
<1>9. starting' = starting \ {r}
  BY <1>2, <1>5
<1>10. /\ waiting' = waiting /\ Queued' = Queued /\ Pending' \subseteq Pending /\ LinesInv'
       /\ running' \in [Items -> Requests \cup {None}]
       /\ Placed'
       /\ settled' \subseteq Seqs(InFlight)'
       /\ Untold' = Untold \ {r} /\ OpenMutations' = OpenMutations \ {r}
       /\ \A j, k \in ActiveItems' :
            running'[j].op \in Optimistic /\ running'[k].op \in Optimistic => j = k
       /\ \A q \in starting' \cup InFlight' : q.seq # r.seq
  BY <1>0, <1>1, <1>5, <1>8, <1>9, RequestLeaves
<1>11. OpenMutations' = OpenMutations /\ Untold' = Untold
  <2>1. r \notin Untold /\ r \notin Queued /\ r \notin starting
    BY <1>0, <1>5, <1>6, Apart DEF Untold
  <2> QED
    BY <2>1, <1>10 DEF OpenMutations
<1>12. Sited' /\ Marks' /\ Fence' /\ Room'
  <2>1. Sited'
    BY <1>0, <1>1, <1>2 DEF Sited
  <2>2. Marks'
    BY <1>7, <1>10 DEF Marks, HalfWay
  <2>3. Fence'
    BY <1>0, <1>2, <1>10, <1>11 DEF Fence
  <2>4. Room'
    BY <1>0, <1>2, <1>7, RoomStays
  <2> QED
    BY <2>1, <2>2, <2>3, <2>4
<1>13. /\ Nested' /\ turn' \in Seq(TurnPlaces)
       /\ \A places : ~Reached(places)'
  BY <1>0, <1>1, <1>4, <1>5, NestedReturn, TurnReturns
<1>14. ~Reached({"reading"})
  <2>1. ASSUME Reached({"reading"}) PROVE FALSE
    <3>1. PICK i \in 1..Len(turn) : turn[i] = "reading"
      BY <2>1 DEF Reached
    <3>2. i = 1
      BY <3>1, <1>0 DEF Nested
    <3>3. Len(turn) \in 1..Len(turn)
      BY <1>0, <1>3, Here
    <3>4. Len(turn) = 1
      BY <3>3, <1>0, <1>4, <1>5 DEF Nested
    <3> QED
      BY <3>1, <3>2, <3>4, <1>5
  <2> QED
    BY <2>1
<1>15. Agreed'
  BY <1>1, <1>2, <1>5, <1>7, <1>13 DEF Agreed
<1>16. Overlays'
  <2>1. ASSUME NEW s \in journal'
        PROVE  \E x \in InFlight' : /\ x.seq = s /\ x.op \in Optimistic
                                    /\ (s \in ids' /\ s \notin settled') \/ Opening(x)'
    <3>1. PICK x \in InFlight : /\ x.seq = s /\ x.op \in Optimistic
                                /\ (s \in ids /\ s \notin settled) \/ Opening(x)
      BY <1>0, <1>2 DEF Overlays
    <3>2. ~Opening(x)
      BY <1>5 DEF Opening, HalfWay
    <3>3. x # r
      BY <3>1, <3>2, <1>6
    <3> QED
      BY <3>1, <3>2, <3>3, <1>1, <1>2, <1>8
  <2> QED
    BY <2>1, <1>1, <1>10 DEF Overlays
<1>17. r.seq \in doubtful => Unattended(r)
  BY <1>0, <1>5 DEF Doubts, Unattended
<1>18. Doubts'
  <2>1. doubtful' \subseteq doubtful
    BY <1>1
  <2>2. doubtful' \subseteq 1..called' /\ Seqs(Queued \cup starting)' \cap doubtful' = {}
    BY <2>1, <1>0, <1>2, <1>10 DEF Doubts, Seqs
  <2>3. \A q \in InFlight' : q.seq \in doubtful' =>
          q.seq \in speculative' /\ q.generation = session'.generation
    BY <2>1, <1>0, <1>1, <1>2, <1>8, <1>10 DEF Doubts
  <2>4. doubtful' \subseteq Seqs(InFlight)' \/ shuttingDown' \/ (fenced' /\ completedSpeculative')
    <3>1. CASE fenced
      <4>1. CASE r.seq \in doubtful
        BY <3>1, <4>1, <1>1, <1>2, <1>17
      <4>2. CASE r.seq \notin doubtful
        <5>1. doubtful \subseteq Seqs(InFlight) => doubtful' \subseteq Seqs(InFlight)'
          BY <4>2, <2>1, <1>8 DEF Seqs
        <5> QED
          BY <5>1, <1>0, <1>1, <1>2 DEF Doubts
      <4> QED
        BY <4>1, <4>2
    <3>2. CASE ~fenced
      <4>1. doubtful \subseteq Seqs(InFlight) \/ shuttingDown
        BY <3>2, <1>0 DEF Doubts
      <4>2. r.seq \notin doubtful'
        BY <3>2, <1>1, <1>17
      <4>3. doubtful \subseteq Seqs(InFlight) => doubtful' \subseteq Seqs(InFlight)'
        BY <4>2, <2>1, <1>8 DEF Seqs
      <4> QED
        BY <4>1, <4>3, <1>2
    <3> QED
      BY <3>1, <3>2
  <2> QED
    BY <2>2, <2>3, <2>4, <1>7 DEF Doubts
<1>19. TypeOK'
  <2>1. settled' \subseteq 1..MaxRequests /\ speculative' \subseteq 1..MaxRequests
        /\ doubtful' \subseteq 1..MaxRequests /\ completedSpeculative' \in BOOLEAN
    BY <1>0, <1>1 DEF TypeOK
  <2>2. posted' \in Seq({"dispatch", "pump"})
    <3>1. <<"dispatch", "pump">> \in Seq({"dispatch", "pump"})
      OBVIOUS
    <3> QED
      BY <3>1, <1>0, <1>1, PostIs
  <2> QED
    BY <2>1, <2>2, <1>0, <1>1, <1>2, <1>10, <1>13 DEF TypeOK, TurnPlaces
<1>20. MutationsInv'
  BY <1>10, <1>12, <1>15, <1>16, <1>18 DEF MutationsInv, Places
<1>21. UNCHANGED <<sessionVars, called, outcome, readVars>>
  BY <1>1
<1> QED
  BY <1>10, <1>11, <1>13, <1>14, <1>19, <1>20, <1>21, SilentStep

-----------------------------------------------------------------------------
\* A new mutation joins the line of its item.
LEMMA SubmitLeaves ==
  ASSUME TypeOK, Numbered, LinesInv, NEW item \in Items, NEW m \in Requests,
         m.item = item, m.op \in MutationOps, m.seq = called + 1, Scheduler!Submit(item, m)
  PROVE  /\ waiting' \in [Items -> Seq(Requests)] /\ running' = running
         /\ Queued' = Queued \cup {m} /\ Pending' = Pending \cup {m}
         /\ LinesInv'
<1>1. /\ waiting' = [waiting EXCEPT ![item] = Append(@, m)] /\ running' = running
      /\ waiting \in [Items -> Seq(Requests)] /\ called \in Nat
  BY DEF Scheduler!Submit, TypeOK
<1> DEFINE w == waiting[item]
<1>2. w \in Seq(Requests)
  BY <1>1
<1>3. /\ \A k \in Items \ {item} : waiting'[k] = waiting[k]
      /\ waiting'[item] = Append(w, m)
  BY <1>1
<1>4. waiting' \in [Items -> Seq(Requests)]
  BY <1>1, <1>2
<1>5. /\ Len(w) \in Nat /\ Len(Append(w, m)) = Len(w) + 1
      /\ \A i \in 1..Len(w) : Append(w, m)[i] = w[i]
      /\ Append(w, m)[Len(w) + 1] = m
  BY <1>2
<1>6. \A s \in Seq(Requests) : ToSet(s) = {s[i] : i \in 1..Len(s)}
  BY DEF ToSet
<1>7. ToSet(Append(w, m)) = ToSet(w) \cup {m}
  <2> DEFINE z == Append(w, m)
  <2>1. z \in Seq(Requests) /\ w \in Seq(Requests)
    BY <1>2
  <2>2. /\ Len(w) \in Nat /\ Len(z) = Len(w) + 1
        /\ \A i \in 1..Len(w) : z[i] = w[i]
        /\ z[Len(w) + 1] = m
    BY <1>5
  <2> HIDE DEF w, z
  <2>3. ToSet(z) = {z[i] : i \in 1..Len(z)} /\ ToSet(w) = {w[i] : i \in 1..Len(w)}
    BY <2>1, <1>6
  <2>4. \A i : i \in 1..Len(z) <=> i \in 1..Len(w) \/ i = Len(w) + 1
    BY <2>2
  <2>5. \A x : x \in ToSet(z) <=> x \in ToSet(w) \/ x = m
    BY <2>2, <2>3, <2>4
  <2>6. ToSet(z) = ToSet(w) \cup {m}
    BY <2>5
  <2> QED
    BY <2>6 DEF z
<1> DEFINE line == Append(w, m)
<1>8. waiting'[item] = line /\ ToSet(line) = ToSet(waiting[item]) \cup {m}
      /\ Len(line) = Len(w) + 1 /\ (\A i \in 1..Len(w) : line[i] = w[i]) /\ line[Len(w) + 1] = m
  BY <1>3, <1>5, <1>7
<1> HIDE DEF line
<1>9. Queued' = Queued \cup {m}
  <2>1. \A x : x \in Queued' <=> \E k \in Items : x \in ToSet(waiting'[k])
    BY DEF Queued
  <2>2. \A x : x \in Queued <=> \E k \in Items : x \in ToSet(waiting[k])
    BY DEF Queued
  <2>3. \A x : x \in Queued' <=> x \in Queued \/ x = m
    BY <2>1, <2>2, <1>3, <1>8
  <2> QED
    BY <2>3
<1>10. ActiveItems' = ActiveItems
  BY <1>1 DEF ActiveItems
<1>11. Pending' = Pending \cup {m}
  BY <1>1, <1>9, <1>10 DEF Pending, Queued
<1>12. \A i \in 1..Len(w) : w[i].seq \in Nat /\ w[i].seq < m.seq
  <2>1. ASSUME NEW i \in 1..Len(w) PROVE w[i].seq \in Nat /\ w[i].seq < m.seq
    <3>1. w[i] \in Queued
      BY <1>2, <1>6 DEF Queued
    <3>2. w[i].seq \in 1..called
      BY <3>1 DEF Numbered, Held, Pending, Queued
    <3> QED
      BY <3>2, <1>1
  <2> QED
    BY <2>1
<1>13. running[item] # None => running[item].seq < m.seq
  <2>1. running[item] # None => running[item].seq \in 1..called
    BY DEF Numbered, Held, Pending, ActiveItems
  <2> QED
    BY <2>1, <1>1
<1> HIDE DEF w
<1>14. LinesInv'
  <2>1. \A k \in Items : \A i \in 1..Len(waiting'[k]) :
          waiting'[k][i].item = k /\ waiting'[k][i].op \in MutationOps
    <3>1. \A i \in 1..Len(line) : line[i].item = item /\ line[i].op \in MutationOps
      BY <1>5, <1>8 DEF LinesInv, w
    <3> QED
      BY <3>1, <1>3, <1>8 DEF LinesInv
  <2>2. \A k \in Items : \A i, j \in 1..Len(waiting'[k]) :
          i < j => waiting'[k][i].seq < waiting'[k][j].seq
    <3>1. \A i, j \in 1..Len(line) : i < j => line[i].seq < line[j].seq
      <4>1. \A i, j \in 1..Len(w) : i < j => w[i].seq < w[j].seq
        BY DEF LinesInv, w
      <4> QED
        BY <4>1, <1>5, <1>8, <1>12
    <3> QED
      BY <3>1, <1>3, <1>8 DEF LinesInv
  <2>3. \A k \in Items : running'[k] # None =>
          \A i \in 1..Len(waiting'[k]) : running'[k].seq < waiting'[k][i].seq
    <3>1. running[item] # None => \A i \in 1..Len(line) : running[item].seq < line[i].seq
      <4>1. running[item] # None => \A i \in 1..Len(w) : running[item].seq < w[i].seq
        BY DEF LinesInv, w
      <4> QED
        BY <4>1, <1>5, <1>8, <1>13
    <3> QED
      BY <3>1, <1>1, <1>3, <1>8 DEF LinesInv
  <2>4. \A k \in Items :
          running'[k] # None => running'[k].item = k /\ running'[k].op \in MutationOps
    BY <1>1 DEF LinesInv
  <2> QED
    BY <2>1, <2>2, <2>3, <2>4 DEF LinesInv
<1> QED
  BY <1>1, <1>4, <1>9, <1>11, <1>14

\* The reads that a new mutation supersedes.
Fenced(m) ==
  {r \in OpenReads : \E l \in Lanes : \/ FencesActive(l, m) /\ r = reads[l].active
                                      \/ DropsQueued(l, m) /\ r = reads[l].queued}

LEMMA FenceLeaves ==
  ASSUME TypeOK, Numbered, ReadsInv, NEW m, m.seq = called + 1, FenceReads(m), UNCHANGED fenced
  PROVE  /\ \A l \in Lanes : /\ reads'[l].active = reads[l].active /\ reads'[l].at = reads[l].at
                             /\ reads'[l].queued = IF DropsQueued(l, m) THEN None
                                                   ELSE reads[l].queued
         /\ reads' \in [Lanes -> [active : Requests \cup {None}, queued : Requests \cup {None},
                                  at : {"none", "bridge", "result", "told"}]]
         /\ latest' \in [Lanes -> 0..MaxRequests]
         /\ settledReads' \subseteq 1..MaxRequests
         /\ \A x : x \in ReadsHeld' => x \in ReadsHeld
         /\ Superseded(m) = Seqs(Fenced(m))
         /\ \A x : x \in OpenReads' <=> x \in OpenReads /\ x \notin Fenced(m)
         /\ \A l \in Lanes : LaneInv(l)'
         /\ \A s \in settledReads' :
              \E l \in Lanes : reads'[l].active # None /\ reads'[l].active.seq = s
         /\ ReadsHalfWay' = ReadsHalfWay
<1>1. /\ latest' = [l \in Lanes |->
            IF FencesActive(l, m) \/ (DropsQueued(l, m) /\ AcceptsLatest(reads[l].queued))
            THEN 0 ELSE latest[l]]
      /\ reads' = [l \in Lanes |->
            IF DropsQueued(l, m) THEN [reads[l] EXCEPT !.queued = None] ELSE reads[l]]
      /\ settledReads' = settledReads
            \cup {reads[l].active.seq : l \in {k \in Lanes : FencesActive(k, m)}}
  BY DEF FenceReads
<1>2. \A l \in Lanes :
        /\ reads[l] \in [active : Requests \cup {None}, queued : Requests \cup {None},
                         at : {"none", "bridge", "result", "told"}]
        /\ [reads[l] EXCEPT !.queued = None] =
             [active |-> reads[l].active, at |-> reads[l].at, queued |-> None]
  BY LaneChanges DEF TypeOK
<1>3. \A l \in Lanes : /\ reads'[l].active = reads[l].active /\ reads'[l].at = reads[l].at
                       /\ reads'[l].queued = IF DropsQueued(l, m) THEN None ELSE reads[l].queued
  <2>1. ASSUME NEW l \in Lanes
        PROVE  /\ reads'[l].active = reads[l].active /\ reads'[l].at = reads[l].at
               /\ reads'[l].queued = IF DropsQueued(l, m) THEN None ELSE reads[l].queued
    <3>1. CASE DropsQueued(l, m)
      <4>1. reads'[l] = [active |-> reads[l].active, at |-> reads[l].at, queued |-> None]
        BY <3>1, <1>1, <1>2
      <4> QED
        BY <4>1, <3>1
    <3>2. CASE ~DropsQueued(l, m)
      BY <3>2, <1>1
    <3> QED
      BY <3>1, <3>2
  <2> QED
    BY <2>1
<1>4. reads' \in [Lanes -> [active : Requests \cup {None}, queued : Requests \cup {None},
                            at : {"none", "bridge", "result", "told"}]]
  <2>1. \A l \in Lanes : reads'[l] \in [active : Requests \cup {None}, queued : Requests \cup {None},
                                        at : {"none", "bridge", "result", "told"}]
    <3>1. ASSUME NEW l \in Lanes
          PROVE  reads'[l] \in [active : Requests \cup {None}, queued : Requests \cup {None},
                                at : {"none", "bridge", "result", "told"}]
      <4>1. CASE DropsQueued(l, m)
        <5>1. reads'[l] = [active |-> reads[l].active, at |-> reads[l].at, queued |-> None]
          BY <4>1, <1>1, <1>2
        <5>2. /\ reads[l].active \in Requests \cup {None}
              /\ reads[l].at \in {"none", "bridge", "result", "told"}
          BY LaneTypes
        <5> QED
          BY <5>1, <5>2
      <4>2. CASE ~DropsQueued(l, m)
        BY <4>2, <1>1, <1>2
      <4> QED
        BY <4>1, <4>2
    <3> QED
      BY <3>1
  <2> QED
    BY <2>1, <1>1
<1>5. latest' \in [Lanes -> 0..MaxRequests]
  <2>1. 0 \in 0..MaxRequests
    BY CalledBound
  <2> QED
    BY <2>1, <1>1 DEF TypeOK
<1>6. \A l \in Lanes : FencesActive(l, m) =>
        reads[l].active # None /\ reads[l].active.seq \in 1..called
  BY ReadNumbers DEF FencesActive
<1>7. \A l \in Lanes : DropsQueued(l, m) => reads[l].queued # None
  BY DEF DropsQueued
<1>8. settledReads' \subseteq 1..MaxRequests
  BY <1>1, <1>6, CalledBound DEF TypeOK
<1>9. \A s : s \in settledReads' <=>
        s \in settledReads \/ \E l \in Lanes : FencesActive(l, m) /\ s = reads[l].active.seq
  BY <1>1
<1>10. \A x : x \in ReadsHeld' => x \in ReadsHeld
  BY <1>3, HeldReads
<1> HIDE DEF FenceReads
<1>11. \A x : x \in Fenced(m) <=>
         \E l \in Lanes : \/ /\ FencesActive(l, m) /\ x = reads[l].active
                             /\ x.seq \notin settledReads
                          \/ DropsQueued(l, m) /\ x = reads[l].queued
  <2>1. \A l \in Lanes : FencesActive(l, m) /\ reads[l].active.seq \notin settledReads
          => reads[l].active \in OpenReads
    BY <1>6, OpenReadsAre
  <2>2. \A l \in Lanes : DropsQueued(l, m) => reads[l].queued \in OpenReads
    BY <1>7, ReadNumbers, OpenReadsAre
  <2>3. \A x \in OpenReads : x.seq \notin settledReads
    BY OpenReadsAre
  <2> QED
    BY <2>1, <2>2, <2>3 DEF Fenced
<1>12. Superseded(m) = Seqs(Fenced(m))
  <2>1. \A s : s \in Superseded(m) <=>
          \E l \in Lanes : \/ FencesActive(l, m) /\ s = reads[l].active.seq /\ s \notin settledReads
                           \/ DropsQueued(l, m) /\ s = reads[l].queued.seq
    BY DEF Superseded
  <2>2. \A s : s \in Seqs(Fenced(m)) <=> \E x \in Fenced(m) : s = x.seq
    BY DEF Seqs
  <2>3. \A s : s \in Superseded(m) <=> s \in Seqs(Fenced(m))
    BY <2>1, <2>2, <1>11
  <2> QED
    BY <2>3
<1>13. \A x : x \in OpenReads' <=> x \in OpenReads /\ x \notin Fenced(m)
  <2>1. ASSUME NEW x, x \in OpenReads' PROVE x \in OpenReads /\ x \notin Fenced(m)
    <3>1. PICK k \in Lanes : x = reads'[k].active \/ x = reads'[k].queued
      BY <2>1, OpenReadsAre
    <3>2. x # None /\ x.seq \notin settledReads'
      BY <2>1, OpenReadsAre
    <3>3. x \in OpenReads
      BY <3>1, <3>2, <1>3, <1>9, OpenReadsAre
    <3>4. ASSUME NEW l \in Lanes, DropsQueued(l, m), x = reads[l].queued PROVE FALSE
      BY <3>1, <3>2, <3>4, <1>3, ReadNumbers DEF ReadsInv, LaneInv
    <3> QED
      BY <3>2, <3>3, <3>4, <1>9, <1>11
  <2>2. ASSUME NEW x, x \in OpenReads, x \notin Fenced(m) PROVE x \in OpenReads'
    <3>1. PICK k \in Lanes : x = reads[k].active \/ x = reads[k].queued
      BY <2>2, OpenReadsAre
    <3>2. x # None /\ x.seq \notin settledReads /\ x \in Held
      BY <2>2, OpenReadsAre DEF OpenReads, Held
    <3>3. x.seq \notin settledReads'
      <4>1. ASSUME NEW l \in Lanes, FencesActive(l, m), x.seq = reads[l].active.seq PROVE FALSE
        <5>1. reads[l].active \in Held
          BY <4>1, <1>6, ReadNumbers
        <5>2. x = reads[l].active
          BY <4>1, <5>1, <3>2 DEF Numbered
        <5> QED
          BY <4>1, <5>2, <3>2, <2>2, <1>11
      <4> QED
        BY <4>1, <3>2, <1>9
    <3>4. x = reads'[k].active \/ x = reads'[k].queued
      BY <3>1, <2>2, <1>3, <1>11
    <3> QED
      BY <3>2, <3>3, <3>4, OpenReadsAre
  <2> QED
    BY <2>1, <2>2
<1>14. \A l \in Lanes : LaneInv(l)'
  <2>1. ASSUME NEW l \in Lanes PROVE LaneInv(l)'
    <3>1. LaneInv(l)
      BY DEF ReadsInv
    <3>2. /\ reads'[l].active = reads[l].active /\ reads'[l].at = reads[l].at
          /\ reads'[l].queued \in {None, reads[l].queued}
      BY <1>3
    <3>3. reads[l].active.seq \in settledReads => reads[l].active.seq \in settledReads'
      BY <1>9
    <3> QED
      BY <3>1, <3>2, <3>3 DEF LaneInv
  <2> QED
    BY <2>1
<1>15. \A s \in settledReads' :
         \E l \in Lanes : reads'[l].active # None /\ reads'[l].active.seq = s
  BY <1>3, <1>6, <1>9 DEF ReadsInv
<1>16. ReadsHalfWay' = ReadsHalfWay
  BY <1>3 DEF ReadsHalfWay
<1> QED
  BY <1>3, <1>4, <1>5, <1>8, <1>10, <1>12, <1>13, <1>14, <1>15, <1>16

\* No read that is still current conflicts with the mutation that fenced them.
LEMMA FenceParts ==
  ASSUME TypeOK, Numbered, ReadsInv, NoReadBesideConflict, UNCHANGED sessionVars,
         NEW m, m.seq = called + 1, FenceReads(m), Pending' = Pending \cup {m},
         \A l \in Lanes : reads'[l].active = reads[l].active
  PROVE  NoReadBesideConflict'
<1>1. UNCHANGED <<session, fenced, shuttingDown>>
  BY DEF sessionVars
<1>2. /\ \A l \in Lanes : latest'[l] =
           IF FencesActive(l, m) \/ (DropsQueued(l, m) /\ AcceptsLatest(reads[l].queued))
           THEN 0 ELSE latest[l]
      /\ settledReads \subseteq settledReads'
  BY DEF FenceReads
<1> HIDE DEF FenceReads
<1>3. ASSUME NEW l \in Lanes, NEW a, a = reads'[l].active, a # None, StillCurrentRead(a)'
      PROVE  ~BlockedByMutation(a)'
  <2>1. a = reads[l].active /\ a.op = l /\ a.seq \in 1..called
    BY <1>3, ReadNumbers DEF ReadsInv, LaneInv
  <2>2. a.seq # 0 /\ a.seq < m.seq
    BY <2>1, CalledBound
  <2>3. latest'[l] = a.seq
    BY <1>3, <2>1 DEF StillCurrentRead, AcceptsLatest
  <2>4. latest[l] = a.seq /\ ~FencesActive(l, m)
    BY <2>2, <2>3, <1>2
  <2>5. StillCurrentRead(a) /\ AcceptsLatest(a)
    BY <1>1, <1>2, <1>3, <2>1, <2>4
    DEF StillCurrentRead, AcceptsLatest, AcceptsSession, ActiveSession
  <2>6. ~BlockedByMutation(a)
    BY <1>3, <2>1, <2>5 DEF NoReadBesideConflict
  <2>7. ~Conflicts(a, m)
    BY <1>3, <2>1, <2>2, <2>4, <2>5 DEF FencesActive
  <2>8. \A x \in Pending : ~Conflicts(a, x)
    BY <2>6 DEF BlockedByMutation
  <2> QED
    BY <2>7, <2>8 DEF BlockedByMutation
<1> QED
  BY <1>3, ConflictIntro

LEMMA TellTypes ==
  ASSUME TypeOK, NEW S, Tell(S)
  PROVE  outcome' \in [1..MaxRequests -> Nat]
<1>1. outcome \in [1..MaxRequests -> Nat]
  BY DEF TypeOK
<1> QED
  BY <1>1 DEF Tell

LEMMA SubmitMutationInv ==
  ASSUME MediaInv, NEW item \in Items, NEW op \in MutationOps, SubmitMutation(item, op)
  PROVE  MediaInv'
<1> DEFINE m == Request(item, op)
<1>0. /\ TypeOK /\ Numbered /\ Accounts /\ Nested /\ MutationsInv /\ ReadsInv
      /\ NoReadBesideConflict
      /\ LinesInv /\ Places /\ Placed /\ Sited /\ Marks /\ Fence /\ Agreed /\ Overlays
      /\ Doubts /\ Room
  BY DEF MediaInv, MutationsInv, Places
<1>1. /\ Listening /\ called < MaxRequests /\ called' = called + 1
      /\ UNCHANGED <<sessionVars, posted, starting, slots, settling, journals, fates, tracked>>
      /\ \/ /\ ~ActiveSession \/ Cardinality(Pending) >= MaxPending
            /\ Tell({m.seq})
            /\ UNCHANGED <<turn, lines, readVars>>
         \/ /\ ActiveSession /\ Cardinality(Pending) < MaxPending
            /\ Scheduler!Submit(item, m)
            /\ FenceReads(m)
            /\ Tell(Superseded(m))
            /\ Call(IF Superseded(m) = {} THEN "submitted" ELSE "told")
  BY Zenon DEF SubmitMutation
<1>2. /\ UNCHANGED <<session, fenced, shuttingDown, posted, starting, slots, settling>>
      /\ UNCHANGED <<ids, journal, settled, speculative, completedSpeculative, doubtful>>
      /\ UNCHANGED <<tracked>>
  BY <1>1 DEF sessionVars, journals, fates
<1>3. /\ m \in Requests /\ m # None /\ m.seq = called + 1 /\ m.op = op /\ m.item = item
      /\ m.generation = session.generation /\ called' \in 0..MaxRequests
  BY <1>0, <1>1, NewRequest
<1>4. m \notin Held
  BY <1>0, <1>3, CalledBound DEF Numbered
<1>5. outcome' \in [1..MaxRequests -> Nat]
  BY <1>0, <1>1, TellTypes
<1> HIDE DEF m
<1>6. CASE Tell({m.seq}) /\ UNCHANGED <<turn, lines, readVars>>
  <2>1. UNCHANGED <<waiting, running, reads, latest, settledReads>>
    BY <1>6 DEF lines, readVars
  <2>2. /\ Pending' = Pending /\ OpenMutations' = OpenMutations
        /\ OpenReads' = OpenReads /\ ReadsHeld' = ReadsHeld
    BY <2>1, <1>2, MutationsStay, ReadsStay
  <2>3. MutationsInv'
    <3>1. UNCHANGED <<sessionVars, mutationVars>>
      BY <1>1, <1>6 DEF mutationVars
    <3> QED
      BY <3>1, <1>0, <1>1, <1>6, MutationsKept DEF Reached
  <2>4. ReadsInv' /\ NoReadBesideConflict' /\ Nested'
    BY <2>1, <2>2, <1>0, <1>1, <1>2, <1>6, ReadsKept, NoConflictKept DEF Reached, Nested
  <2>5. Numbered'
    BY <2>2, <1>0, <1>1, NumberedStays DEF Held
  <2>6. Accounts'
    <3>1. (OpenMutations \cup OpenReads)' = (OpenMutations \cup OpenReads \cup {m}) \ {m}
      BY <2>2, <1>0, <1>4, OpenIsHeld
    <3>2. {m.seq} = Seqs({m})
      BY DEF Seqs
    <3> QED
      BY <3>1, <3>2, <1>0, <1>1, <1>3, <1>6, AccountsStep
  <2>7. TypeOK'
    BY <2>1, <1>0, <1>2, <1>3, <1>5, <1>6 DEF TypeOK
  <2> QED
    BY <2>3, <2>4, <2>5, <2>6, <2>7 DEF MediaInv
<1>7. CASE /\ ActiveSession
           /\ Scheduler!Submit(item, m)
           /\ FenceReads(m)
           /\ Tell(Superseded(m))
           /\ Call(IF Superseded(m) = {} THEN "submitted" ELSE "told")
  <2>1. /\ waiting' \in [Items -> Seq(Requests)] /\ running' = running
        /\ Queued' = Queued \cup {m} /\ Pending' = Pending \cup {m}
        /\ LinesInv'
    BY <1>0, <1>3, <1>7, SubmitLeaves
  <2>2. /\ InLanes' = InLanes /\ InFlight' = InFlight /\ Untold' = Untold /\ HalfWay' = HalfWay
        /\ FreeSlots' = FreeSlots /\ ActiveItems' = ActiveItems
        /\ OpenMutations' = OpenMutations \cup {m}
    <3>1. /\ InLanes' = InLanes /\ InFlight' = InFlight /\ HalfWay' = HalfWay
          /\ FreeSlots' = FreeSlots /\ ActiveItems' = ActiveItems
      BY <2>1, <1>2 DEF InLanes, InFlight, HalfWay, FreeSlots, ActiveItems
    <3>2. Untold' = Untold
      BY <3>1, <1>2 DEF Untold
    <3> QED
      BY <3>1, <3>2, <2>1, <1>2 DEF OpenMutations
  <2> DEFINE p == IF Superseded(m) = {} THEN "submitted" ELSE "told"
  <2>3. /\ p \in TurnPlaces /\ Call(p) /\ p \notin {"reading", "applied"}
        /\ p \notin SettlePlaces /\ p \notin DispatchPlaces /\ p \notin {"answering", "ending"}
        /\ p \notin {"refused", "opening"}
    BY <1>7 DEF TurnPlaces, Emitting, SettlePlaces, DispatchPlaces
  <2> HIDE DEF p
  <2>4. turn = <<>> \/ turn[Len(turn)] \in Emitting
    BY <1>0, <1>1, Here, NowhereWhenQuiet DEF Listening
  <2>5. /\ Nested' /\ turn' \in Seq(TurnPlaces)
        /\ \A places : Reached(places)' <=> Reached(places) \/ p \in places
    BY <2>3, <2>4, <1>0, NestedCall, TurnCalls
  <2>6. Places' /\ Marks' /\ Room'
    BY <2>1, <2>2, <1>0, <1>2 DEF Places, Placed, Sited, Marks, Room, Seqs
  <2>7. Fence'
    <3>1. ~fenced
      BY <1>7 DEF ActiveSession
    <3> QED
      BY <3>1, <2>2, <1>0, <1>2, <1>3 DEF Fence
  <2>8. Agreed'
    <3>1. /\ Reached(SettlePlaces)' <=> Reached(SettlePlaces)
          /\ Reached(DispatchPlaces)' <=> Reached(DispatchPlaces)
          /\ Reached({"answering", "ending"})' <=> Reached({"answering", "ending"})
      BY <2>3, <2>5
    <3>2. ASSUME NEW i \in HalfWay' PROVE \A q : q = slots'[i].at => Reached({q})'
      BY <3>2, <2>2, <2>5, <1>0, <1>2 DEF Agreed
    <3> QED
      BY <3>1, <3>2, <2>2, <1>0, <1>2 DEF Agreed
  <2>9. Overlays'
    <3>1. Reached({"applied"})' <=> Reached({"applied"})
      BY <2>3, <2>5
    <3> QED
      BY <3>1, <2>1, <2>2, <1>0, <1>2 DEF Overlays, Opening
  <2>10. Doubts'
    <3>1. 1..called \subseteq 1..called' /\ m.seq \notin 1..called
      BY <1>0, <1>1, <1>3, CalledBound
    <3>2. m.seq \notin doubtful
      BY <3>1, <1>0 DEF Doubts
    <3>3. Seqs(Queued \cup starting)' = Seqs(Queued \cup starting) \cup {m.seq}
      BY <2>1, <1>2 DEF Seqs
    <3>4. Seqs(InFlight)' = Seqs(InFlight)
      BY <2>2 DEF Seqs
    <3> QED
      BY <3>1, <3>2, <3>3, <3>4, <2>2, <1>0, <1>2 DEF Doubts
  <2>11. MutationsInv'
    BY <2>1, <2>6, <2>7, <2>8, <2>9, <2>10 DEF MutationsInv
  <2>12. /\ \A l \in Lanes : reads'[l].active = reads[l].active
         /\ reads' \in [Lanes -> [active : Requests \cup {None}, queued : Requests \cup {None},
                                  at : {"none", "bridge", "result", "told"}]]
         /\ latest' \in [Lanes -> 0..MaxRequests]
         /\ settledReads' \subseteq 1..MaxRequests
         /\ \A x : x \in ReadsHeld' => x \in ReadsHeld
         /\ Superseded(m) = Seqs(Fenced(m))
         /\ \A x : x \in OpenReads' <=> x \in OpenReads /\ x \notin Fenced(m)
         /\ \A l \in Lanes : LaneInv(l)'
         /\ \A s \in settledReads' :
              \E l \in Lanes : reads'[l].active # None /\ reads'[l].active.seq = s
         /\ ReadsHalfWay' = ReadsHalfWay
    BY <1>0, <1>2, <1>3, <1>7, FenceLeaves
  <2>13. ReadsInv'
    <3>1. Reached({"reading"})' <=> Reached({"reading"})
      BY <2>3, <2>5
    <3> QED
      BY <3>1, <2>12, <1>0 DEF ReadsInv
  <2>14. NoReadBesideConflict'
    BY <2>1, <2>12, <1>0, <1>1, <1>3, <1>7, FenceParts
  <2>15. Numbered'
    <3>1. Held' \subseteq Held \cup {m}
      BY <2>1, <2>12 DEF Held
    <3> QED
      BY <3>1, <1>0, <1>1, <1>3, NumberedStep
  <2>16. Accounts'
    <3> DEFINE X == Fenced(m)
    <3>1. X \subseteq OpenReads /\ m \notin OpenReads
      BY <1>4 DEF Fenced, OpenReads, Held
    <3>2. OpenMutations \cap OpenReads = {}
      BY <1>0, InFlightRuns, ReadOpsAre DEF OpenReads
    <3>3. Tell(Seqs(X))
      BY <2>12, <1>7
    <3>4. \A x : x \in OpenReads' <=> x \in OpenReads /\ x \notin X
      BY <2>12
    <3> HIDE DEF X
    <3>5. (OpenMutations \cup OpenReads)' = (OpenMutations \cup OpenReads \cup {m}) \ X
      BY <3>1, <3>2, <3>4, <2>2
    <3> QED
      BY <3>1, <3>3, <3>5, <1>0, <1>1, <1>3, AccountsStep
  <2>17. TypeOK'
    BY <2>1, <2>5, <2>12, <1>0, <1>2, <1>3, <1>5 DEF TypeOK, TurnPlaces
  <2> QED
    BY <2>5, <2>11, <2>13, <2>14, <2>15, <2>16, <2>17 DEF MediaInv
<1> QED
  BY <1>1, <1>6, <1>7

-----------------------------------------------------------------------------
\* A transition or the shutdown tells everybody, and drops what waits.
LEMMA ResetReads ==
  ASSUME TypeOK, Numbered, ReadsInv, Reset
  PROVE  /\ reads' \in [Lanes -> [active : Requests \cup {None}, queued : Requests \cup {None},
                                  at : {"none", "bridge", "result", "told"}]]
         /\ latest' \in [Lanes -> 0..MaxRequests]
         /\ settledReads' \subseteq 1..MaxRequests
         /\ ReadsHeld' \subseteq ReadsHeld
         /\ OpenReads' = {}
         /\ \A l \in Lanes : LaneInv(l)'
         /\ \A s \in settledReads' :
              \E l \in Lanes : reads'[l].active # None /\ reads'[l].active.seq = s
         /\ ReadsHalfWay' = ReadsHalfWay
         /\ UnreadSeqs = Seqs(OpenReads)
<1>1. /\ latest' = [l \in Lanes |-> 0]
      /\ reads' = [l \in Lanes |-> [reads[l] EXCEPT !.queued = None]]
      /\ settledReads' = settledReads \cup
           {reads[l].active.seq : l \in {k \in Lanes : reads[k].active # None}}
  BY DEF Reset
<1>2. \A l \in Lanes : reads'[l] = [active |-> reads[l].active, at |-> reads[l].at, queued |-> None]
  <2>1. \A l \in Lanes : [reads[l] EXCEPT !.queued = None] =
          [active |-> reads[l].active, at |-> reads[l].at, queued |-> None]
    BY LaneChanges DEF TypeOK
  <2> QED
    BY <2>1, <1>1
<1>3. \A l \in Lanes : /\ reads'[l].active = reads[l].active /\ reads'[l].at = reads[l].at
                       /\ reads'[l].queued = None
  <2>1. ASSUME NEW l \in Lanes
        PROVE  /\ reads'[l].active = reads[l].active /\ reads'[l].at = reads[l].at
               /\ reads'[l].queued = None
    <3>1. reads'[l] = [active |-> reads[l].active, at |-> reads[l].at, queued |-> None]
      BY <1>2
    <3> QED
      BY <3>1
  <2> QED
    BY <2>1
<1>4. reads' \in [Lanes -> [active : Requests \cup {None}, queued : Requests \cup {None},
                            at : {"none", "bridge", "result", "told"}]]
  <2>1. \A l \in Lanes : /\ reads[l].active \in Requests \cup {None}
                         /\ reads[l].at \in {"none", "bridge", "result", "told"}
    BY LaneTypes
  <2>2. \A l \in Lanes : reads'[l] \in [active : Requests \cup {None}, queued : Requests \cup {None},
                                        at : {"none", "bridge", "result", "told"}]
    <3>1. ASSUME NEW l \in Lanes
          PROVE  reads'[l] \in [active : Requests \cup {None}, queued : Requests \cup {None},
                                at : {"none", "bridge", "result", "told"}]
      <4>1. reads'[l] = [active |-> reads[l].active, at |-> reads[l].at, queued |-> None]
        BY <1>2
      <4> QED
        BY <4>1, <2>1
    <3> QED
      BY <3>1
  <2> QED
    BY <2>2, <1>1
<1>5. latest' \in [Lanes -> 0..MaxRequests]
  <2>1. 0 \in 0..MaxRequests
    BY CalledBound
  <2> QED
    BY <2>1, <1>1
<1>6. \A s : s \in settledReads' <=>
        s \in settledReads \/ \E l \in Lanes : reads[l].active # None /\ s = reads[l].active.seq
  BY <1>1
<1>7. \A l \in Lanes : reads[l].active # None => reads[l].active.seq \in 1..called
  BY ReadNumbers
<1>8. settledReads' \subseteq 1..MaxRequests
  <2>1. 1..called \subseteq 1..MaxRequests
    BY CalledBound
  <2>2. settledReads \subseteq 1..MaxRequests
    BY DEF TypeOK
  <2> SUFFICES ASSUME NEW s \in settledReads', s \notin settledReads
               PROVE  s \in 1..MaxRequests
    BY <2>2
  <2>3. PICK l \in Lanes : reads[l].active # None /\ s = reads[l].active.seq
    BY <1>6
  <2>4. s \in 1..called
    BY <2>3, <1>7
  <2> QED
    BY <2>1, <2>4
<1> HIDE DEF Reset
<1>9. ReadsHeld' \subseteq ReadsHeld /\ OpenReads' = {}
  <2>1. \A x : x \in ReadsHeld' => x \in ReadsHeld
    BY <1>3, HeldReads
  <2>2. \A x : x \notin OpenReads'
    BY <1>3, <1>6, OpenReadsAre
  <2> QED
    BY <2>1, <2>2
<1>10. \A l \in Lanes : LaneInv(l)'
  <2>1. ASSUME NEW l \in Lanes PROVE LaneInv(l)'
    <3>1. LaneInv(l)
      BY DEF ReadsInv
    <3>2. reads[l].active # None => reads[l].active.seq \in settledReads'
      BY <1>6
    <3> QED
      BY <3>1, <3>2, <1>3, <1>6 DEF LaneInv
  <2> QED
    BY <2>1
<1>11. \A s \in settledReads' :
         \E l \in Lanes : reads'[l].active # None /\ reads'[l].active.seq = s
  BY <1>3, <1>6 DEF ReadsInv
<1>12. ReadsHalfWay' = ReadsHalfWay
  BY <1>3 DEF ReadsHalfWay
<1>13. UnreadSeqs = Seqs(OpenReads)
  <2>1. \A s : s \in UnreadSeqs <=> \E x \in ReadsHeld : s = x.seq /\ s \notin settledReads
    BY DEF UnreadSeqs, ReadsHeld, Seqs
  <2>2. \A s : s \in Seqs(OpenReads) <=> \E x \in ReadsHeld : s = x.seq /\ s \notin settledReads
    BY DEF OpenReads, Seqs
  <2>3. \A s : s \in UnreadSeqs <=> s \in Seqs(OpenReads)
    BY <2>1, <2>2
  <2> QED
    BY <2>3
<1> QED
  BY <1>4, <1>5, <1>8, <1>9, <1>10, <1>11, <1>12, <1>13

LEMMA ResetLeaves ==
  ASSUME TypeOK, LinesInv, Reset, UNCHANGED <<starting, slots, settling>>
  PROVE  /\ running' = running /\ waiting' \in [Items -> Seq(Requests)]
         /\ Queued' = {} /\ LinesInv' /\ Pending' \subseteq Pending
         /\ InLanes' = InLanes /\ InFlight' = InFlight /\ HalfWay' = HalfWay
         /\ FreeSlots' = FreeSlots /\ ActiveItems' = ActiveItems
         /\ Untold' = {} /\ OpenMutations' = starting
         /\ settled' = settled \cup Seqs(Untold)
         /\ ids' = ids \ Seqs(Untold) /\ journal' = journal \ (ids \cap Seqs(Untold))
<1>1. /\ waiting' = [k \in Items |-> <<>>] /\ running' = running
      /\ settled' = settled \cup Seqs(Untold)
      /\ ids' = ids \ Seqs(Untold) /\ journal' = journal \ (ids \cap Seqs(Untold))
  BY DEF Reset, Scheduler!WithdrawAll, RollBack
<1>2. waiting' \in [Items -> Seq(Requests)]
  BY <1>1
<1>3. Queued' = {}
  <2>1. \A k \in Items : ToSet(waiting'[k]) = {}
    BY <1>1 DEF ToSet
  <2> QED
    BY <2>1 DEF Queued
<1>4. /\ InLanes' = InLanes /\ InFlight' = InFlight /\ HalfWay' = HalfWay
      /\ FreeSlots' = FreeSlots /\ ActiveItems' = ActiveItems
  BY <1>1 DEF InLanes, InFlight, HalfWay, FreeSlots, ActiveItems
<1>5. Pending' \subseteq Pending
  BY <1>1, <1>3, <1>4 DEF Pending, Queued
<1>6. LinesInv'
  <2>1. \A k \in Items : waiting'[k] = <<>> /\ Len(waiting'[k]) = 0
    BY <1>1
  <2> QED
    BY <2>1, <1>1 DEF LinesInv
<1>7. Untold' = {}
  <2>1. \A r : r \notin Untold'
    BY <1>1, <1>4 DEF Untold, Seqs
  <2> QED
    BY <2>1
<1>8. OpenMutations' = starting
  BY <1>3, <1>7 DEF OpenMutations
<1> QED
  BY <1>1, <1>2, <1>3, <1>4, <1>5, <1>6, <1>7, <1>8

LEMMA ResetInv ==
  ASSUME MediaInv, Reset, UNCHANGED <<session, called, turn, posted, starting, slots, settling>>,
         fenced' = TRUE, shuttingDown' \in BOOLEAN, completedSpeculative' = completedSpeculative,
         speculative' \subseteq 1..MaxRequests, doubtful' \subseteq 1..MaxRequests,
         tracked' \subseteq Items, Doubts'
  PROVE  MediaInv'
<1>0. /\ TypeOK /\ Numbered /\ Accounts /\ Nested /\ MutationsInv /\ ReadsInv
      /\ LinesInv /\ Places /\ Placed /\ Sited /\ Marks /\ Fence /\ Agreed /\ Overlays
      /\ Room
  BY DEF MediaInv, MutationsInv, Places
<1>1. /\ running' = running /\ waiting' \in [Items -> Seq(Requests)]
      /\ Queued' = {} /\ LinesInv' /\ Pending' \subseteq Pending
      /\ InLanes' = InLanes /\ InFlight' = InFlight /\ HalfWay' = HalfWay
      /\ FreeSlots' = FreeSlots /\ ActiveItems' = ActiveItems
      /\ Untold' = {} /\ OpenMutations' = starting
      /\ settled' = settled \cup Seqs(Untold)
      /\ ids' = ids \ Seqs(Untold) /\ journal' = journal \ (ids \cap Seqs(Untold))
  BY <1>0, ResetLeaves
<1>2. /\ reads' \in [Lanes -> [active : Requests \cup {None}, queued : Requests \cup {None},
                               at : {"none", "bridge", "result", "told"}]]
      /\ latest' \in [Lanes -> 0..MaxRequests]
      /\ settledReads' \subseteq 1..MaxRequests
      /\ ReadsHeld' \subseteq ReadsHeld
      /\ OpenReads' = {}
      /\ \A l \in Lanes : LaneInv(l)'
      /\ \A s \in settledReads' :
           \E l \in Lanes : reads'[l].active # None /\ reads'[l].active.seq = s
      /\ ReadsHalfWay' = ReadsHalfWay
      /\ UnreadSeqs = Seqs(OpenReads)
  BY <1>0, ResetReads
<1>3. Tell(UnreadSeqs \cup Seqs(Queued \cup Untold))
  BY DEF Reset
<1> HIDE DEF Reset
<1>4. Untold \subseteq InFlight /\ Untold \subseteq OpenMutations /\ Queued \subseteq OpenMutations
  BY DEF Untold, OpenMutations
<1>5. \A places : Reached(places)' <=> Reached(places)
  BY DEF Reached
<1>6. Nested'
  BY <1>0 DEF Nested
<1>7. Places' /\ Room' /\ Marks'
  <2>1. Places' /\ Room'
    BY <1>0, <1>1 DEF Places, Placed, Sited, Room
  <2>2. Marks'
    BY <1>0, <1>1, <1>4 DEF Marks, Seqs
  <2> QED
    BY <2>1, <2>2
<1>8. Fence'
  BY <1>0, <1>1 DEF Fence, OpenMutations
<1>9. Agreed'
  <2>1. ASSUME NEW i \in HalfWay' PROVE \A q : q = slots'[i].at => Reached({q})'
    BY <2>1, <1>0, <1>1, <1>5 DEF Agreed
  <2> QED
    BY <2>1, <1>0, <1>1, <1>5 DEF Agreed
<1>10. Overlays'
  <2>1. ASSUME NEW s \in journal'
        PROVE  \E r \in InFlight' : /\ r.seq = s /\ r.op \in Optimistic
                                    /\ (s \in ids' /\ s \notin settled') \/ Opening(r)'
    <3>1. PICK r \in InFlight : /\ r.seq = s /\ r.op \in Optimistic
                                /\ (s \in ids /\ s \notin settled) \/ Opening(r)
      BY <2>1, <1>0, <1>1 DEF Overlays
    <3>2. s \notin ids \cap Seqs(Untold)
      BY <2>1, <1>1
    <3>3. s \notin settled => r \in Untold /\ s \in Seqs(Untold)
      BY <3>1 DEF Untold, Seqs
    <3>4. Opening(r)
      BY <3>1, <3>2, <3>3
    <3> QED
      BY <3>1, <3>4, <1>1 DEF Opening
  <2>2. journal' \subseteq journal
    BY <1>1
  <2> QED
    BY <2>1, <2>2, <1>0, <1>1, <1>5 DEF Overlays
<1>11. MutationsInv'
  BY <1>1, <1>7, <1>8, <1>9, <1>10 DEF MutationsInv
<1>12. ReadsInv'
  BY <1>0, <1>2, <1>5 DEF ReadsInv
<1>13. NoReadBesideConflict'
  BY DEF NoReadBesideConflict, StillCurrentRead, AcceptsSession, ActiveSession
<1>14. Numbered'
  <2>1. Held' \subseteq Held
    BY <1>1, <1>2 DEF Held
  <2> QED
    BY <2>1, <1>0, NumberedStays
<1>15. Accounts'
  <2> DEFINE X == OpenReads \cup Queued \cup Untold
  <2>1. Tell(Seqs(X))
    <3>1. Seqs(X) = UnreadSeqs \cup Seqs(Queued \cup Untold)
      BY <1>2 DEF Seqs
    <3> QED
      BY <3>1, <1>3
  <2>2. X \subseteq OpenMutations \cup OpenReads
    BY <1>4
  <2>3. starting \cap X = {}
    <3>1. starting \cap (Queued \cup Untold) = {}
      BY <1>0, <1>4, Apart
    <3>2. starting \cap OpenReads = {}
      BY <1>0, InFlightRuns, ReadOpsAre DEF OpenReads
    <3> QED
      BY <3>1, <3>2
  <2>4. OpenMutations = Queued \cup starting \cup Untold
    BY DEF OpenMutations
  <2>5. (OpenMutations \cup OpenReads)' = (OpenMutations \cup OpenReads) \ X
    BY <2>3, <2>4, <1>1, <1>2
  <2> HIDE DEF X
  <2> QED
    BY <2>1, <2>2, <2>5, <1>0, AccountsFall
<1>16. TypeOK'
  <2>1. outcome' \in [1..MaxRequests -> Nat]
    BY <1>0, <1>3, TellTypes
  <2>2. settled' \subseteq 1..MaxRequests /\ ids' \subseteq 1..MaxRequests
        /\ journal' \subseteq 1..MaxRequests
    <3>1. \A r \in InFlight : r.seq \in 1..MaxRequests
      BY <1>0, Apart, CalledBound
    <3>2. Seqs(Untold) \subseteq 1..MaxRequests
      BY <3>1, <1>4 DEF Seqs
    <3>3. settled \subseteq 1..MaxRequests /\ ids \subseteq 1..MaxRequests
          /\ journal \subseteq 1..MaxRequests
      BY <1>0 DEF TypeOK
    <3> QED
      BY <3>2, <3>3, <1>1
  <2> QED
    BY <2>1, <2>2, <1>0, <1>1, <1>2 DEF TypeOK
<1> QED
  BY <1>6, <1>11, <1>12, <1>13, <1>14, <1>15, <1>16 DEF MediaInv

LEMMA TransitionStartedInv == ASSUME MediaInv, SessionTransitionStarted PROVE MediaInv'
<1>0. /\ TypeOK /\ Numbered /\ LinesInv /\ Places /\ Placed /\ Sited /\ Marks /\ Fence /\ Doubts
  BY DEF MediaInv, MutationsInv, Places
<1>1. /\ ~fenced /\ ~shuttingDown /\ fenced' = TRUE
      /\ Reset
      /\ speculative' = speculative \cup Seqs(Untold)
      /\ doubtful' = doubtful \cup Seqs(Sent)
      /\ UNCHANGED <<session, shuttingDown, called, turnVars, starting, slots,
                     settling, completedSpeculative, tracked>>
  BY DEF SessionTransitionStarted
<1>2. UNCHANGED <<session, called, turn, posted, starting, slots, settling>>
  BY <1>1 DEF turnVars
<1>3. /\ Queued' = {} /\ InFlight' = InFlight /\ HalfWay' = HalfWay
  BY <1>0, <1>1, <1>2, ResetLeaves
<1>4. Sent \subseteq Untold /\ Untold \subseteq InFlight /\ Untold \subseteq OpenMutations
  BY DEF Sent, Untold, OpenMutations
<1>5. \A r \in InFlight : r.seq \in 1..called /\ r \in Requests
  BY <1>0, Apart
<1>6. /\ speculative' \subseteq 1..MaxRequests /\ doubtful' \subseteq 1..MaxRequests
      /\ tracked' \subseteq Items /\ shuttingDown' \in BOOLEAN
  <2>1. Seqs(Untold) \subseteq 1..called /\ Seqs(Sent) \subseteq 1..called
    BY <1>4, <1>5 DEF Seqs
  <2>2. 1..called \subseteq 1..MaxRequests
    BY <1>0, CalledBound
  <2>3. speculative \subseteq 1..MaxRequests /\ doubtful \subseteq 1..MaxRequests
    BY <1>0 DEF TypeOK
  <2>4. tracked \subseteq Items /\ shuttingDown \in BOOLEAN
    BY <1>0 DEF TypeOK
  <2> QED
    BY <2>1, <2>2, <2>3, <2>4, <1>1
<1>7. Doubts'
  <2>1. doubtful \subseteq Seqs(InFlight)
    BY <1>0, <1>1 DEF Doubts
  <2>2. doubtful' \subseteq 1..called'
    BY <1>0, <1>1, <1>2, <1>4, <1>5 DEF Doubts, Seqs
  <2>3. Seqs(Queued \cup starting)' \cap doubtful' = {}
    <3>1. ASSUME NEW r \in starting, r.seq \in doubtful' PROVE FALSE
      <4>1. r.seq \notin doubtful
        BY <1>0 DEF Doubts, Seqs
      <4>2. PICK q \in Sent : r.seq = q.seq
        BY <3>1, <4>1, <1>1 DEF Seqs
      <4> QED
        BY <4>2, <1>0, <1>4, Apart
    <3> QED
      BY <3>1, <1>2, <1>3 DEF Seqs
  <2>4. ASSUME NEW i \in HalfWay' PROVE slots'[i].active.seq \notin doubtful'
    <3>1. i \in HalfWay /\ i \in Slots /\ slots[i].at \in {"refused", "opening"}
      BY <1>3 DEF HalfWay
    <3> DEFINE r == slots[i].active
    <3>2. r # None /\ r \in InFlight
      BY <3>1, <1>0, InFlightRuns DEF Sited
    <3>3. slots[i] = [active |-> r, at |-> slots[i].at]
      BY <3>1, <1>0, SlotTypes
    <3>4. r.seq \notin doubtful
      BY <3>1, <1>0 DEF Doubts
    <3>5. r \notin Sent
      <4>1. CASE slots[i].at = "refused"
        BY <4>1, <3>1, <1>0 DEF Marks, Sent, Untold
      <4>2. CASE slots[i].at = "opening"
        BY <4>2, <3>1, <3>3 DEF Sent
      <4> QED
        BY <4>1, <4>2, <3>1
    <3> HIDE DEF r
    <3>6. \A q \in Sent : q.seq # r.seq
      BY <3>2, <3>5, <1>0, <1>4, Apart
    <3>7. r.seq \notin doubtful'
      BY <3>4, <3>6, <1>1 DEF Seqs
    <3> QED
      BY <3>7, <1>2 DEF r
  <2>5. ASSUME NEW r \in InFlight', r.seq \in doubtful'
        PROVE  r.seq \in speculative' /\ r.generation = session'.generation
    <3>1. CASE r.seq \in doubtful
      BY <3>1, <1>0, <1>1, <1>2, <1>3 DEF Doubts
    <3>2. CASE r.seq \in Seqs(Sent)
      <4>1. PICK q \in Sent : r.seq = q.seq
        BY <3>2 DEF Seqs
      <4>2. r = q
        BY <4>1, <1>0, <1>3, <1>4, Apart
      <4> QED
        BY <4>1, <4>2, <1>0, <1>1, <1>2, <1>4 DEF Fence, Seqs
    <3> QED
      BY <3>1, <3>2, <2>5, <1>1
  <2>6. doubtful' \subseteq Seqs(InFlight)'
    BY <2>1, <1>1, <1>3, <1>4 DEF Seqs
  <2> QED
    BY <2>2, <2>3, <2>4, <2>5, <2>6 DEF Doubts
<1> QED
  BY <1>1, <1>2, <1>6, <1>7, ResetInv

LEMMA ShutdownInv == ASSUME MediaInv, Shutdown PROVE MediaInv'
<1>0. TypeOK /\ LinesInv /\ Doubts
  BY DEF MediaInv, MutationsInv
<1>1. /\ shuttingDown' = TRUE /\ fenced' = TRUE
      /\ Reset
      /\ tracked' = {}
      /\ UNCHANGED <<session, called, turnVars, starting, slots, settling,
                     speculative, completedSpeculative, doubtful>>
  BY DEF Shutdown
<1>2. UNCHANGED <<session, called, turn, posted, starting, slots, settling>>
  BY <1>1 DEF turnVars
<1>3. /\ Queued' = {} /\ InFlight' = InFlight /\ HalfWay' = HalfWay
  BY <1>0, <1>1, <1>2, ResetLeaves
<1>4. /\ speculative' \subseteq 1..MaxRequests /\ doubtful' \subseteq 1..MaxRequests
      /\ tracked' \subseteq Items /\ shuttingDown' \in BOOLEAN
  BY <1>0, <1>1 DEF TypeOK
<1>5. Doubts'
  <2>1. Seqs(Queued \cup starting)' \cap doubtful' = {}
    BY <1>0, <1>1, <1>3 DEF Doubts, Seqs
  <2> QED
    BY <2>1, <1>0, <1>1, <1>3 DEF Doubts
<1> QED
  BY <1>1, <1>2, <1>4, <1>5, ResetInv

-----------------------------------------------------------------------------
\* Behind the fence nobody waits.
LEMMA BehindFence ==
  ASSUME MediaInv, Quiet, fenced
  PROVE  /\ Queued = {} /\ Untold = {} /\ starting = {} /\ OpenMutations = {}
         /\ \A l \in Lanes : reads[l].active # None => reads[l].active.seq \in settledReads
<1>0. TypeOK /\ Fence /\ Agreed /\ ReadsInv
  BY DEF MediaInv, MutationsInv
<1>1. starting = {}
  BY <1>0, NowhereWhenQuiet DEF Agreed
<1>2. Queued = {} /\ Untold = {}
  BY <1>0 DEF Fence
<1> QED
  BY <1>0, <1>1, <1>2 DEF OpenMutations, ReadsInv, LaneInv

LEMMA FenceOpens ==
  ASSUME MediaInv, Quiet, fenced, shuttingDown' = FALSE, fenced' \in BOOLEAN,
         session' \in [generation : 0..MaxGeneration, connected : BOOLEAN],
         ~fenced' => session'.connected,
         completedSpeculative' = FALSE, speculative' \subseteq 1..MaxRequests,
         doubtful' \subseteq doubtful, doubtful' \subseteq Seqs(InFlight),
         \A r \in InFlight : r.seq \in doubtful' =>
           r.seq \in speculative' /\ r.generation = session'.generation,
         tracked' \subseteq Items, posted' \in Seq({"dispatch", "pump"}),
         UNCHANGED <<called, outcome, turn, lines, starting, slots, settling, journals,
                     settled, readVars>>
  PROVE  MediaInv'
<1>0. /\ TypeOK /\ Numbered /\ Accounts /\ Nested /\ MutationsInv /\ ReadsInv
      /\ LinesInv /\ Places /\ Placed /\ Sited /\ Marks /\ Fence /\ Agreed /\ Overlays
      /\ Doubts /\ Room
  BY DEF MediaInv, MutationsInv, Places
<1>1. /\ UNCHANGED <<called, outcome, turn, starting, slots, settling, settled>>
      /\ UNCHANGED <<waiting, running, ids, journal, reads, latest, settledReads>>
  BY DEF lines, journals, readVars
<1>2. /\ Queued' = Queued /\ InFlight' = InFlight /\ InLanes' = InLanes
      /\ Pending' = Pending /\ ActiveItems' = ActiveItems
      /\ FreeSlots' = FreeSlots /\ HalfWay' = HalfWay
      /\ Untold' = Untold /\ OpenMutations' = OpenMutations
      /\ ReadsHeld' = ReadsHeld /\ OpenReads' = OpenReads /\ ReadsHalfWay' = ReadsHalfWay
  BY <1>1, MutationsStay, ReadsStay
<1>3. /\ Queued = {} /\ Untold = {} /\ OpenMutations = {}
      /\ \A l \in Lanes : reads[l].active # None => reads[l].active.seq \in settledReads
  BY BehindFence
<1>4. \A places : Reached(places)' <=> Reached(places)
  BY <1>1 DEF Reached
<1>5. LinesInv' /\ Places' /\ Marks' /\ Room'
  <2>1. LinesInv'
    BY <1>0, <1>1 DEF LinesInv
  <2>2. Placed'
    BY <1>0, <1>1, <1>2 DEF Placed
  <2>3. Sited'
    BY <1>0, <1>1, <1>2 DEF Sited
  <2>4. Marks'
    BY <1>0, <1>1, <1>2 DEF Marks, Seqs
  <2>5. Room'
    BY <1>0, <1>1, <1>2 DEF Room
  <2> QED
    BY <2>1, <2>2, <2>3, <2>4, <2>5 DEF Places
<1>6. Fence'
  BY <1>2, <1>3 DEF Fence
<1>7. Agreed'
  <2>1. ASSUME NEW i \in HalfWay' PROVE \A q : q = slots'[i].at => Reached({q})'
    BY <2>1, <1>0, <1>1, <1>2, <1>4 DEF Agreed
  <2> QED
    BY <2>1, <1>0, <1>1, <1>2, <1>4 DEF Agreed
<1>8. Overlays'
  BY <1>0, <1>1, <1>2, <1>4 DEF Overlays, Opening
<1>9. Doubts'
  <2>1. Seqs(InFlight)' = Seqs(InFlight)
        /\ Seqs(Queued \cup starting)' = Seqs(Queued \cup starting)
    BY <1>1, <1>2 DEF Seqs
  <2> QED
    BY <2>1, <1>0, <1>1, <1>2 DEF Doubts
<1>10. MutationsInv'
  BY <1>5, <1>6, <1>7, <1>8, <1>9 DEF MutationsInv
<1>11. ReadsInv'
  <2>1. \A l \in Lanes : LaneInv(l)'
    BY <1>0, <1>1 DEF ReadsInv, LaneInv
  <2> QED
    BY <2>1, <1>0, <1>1, <1>2, <1>4 DEF ReadsInv
<1>12. NoReadBesideConflict'
  BY <1>1, <1>3 DEF NoReadBesideConflict, StillCurrentRead
<1>13. Numbered' /\ Accounts' /\ Nested'
  <2>1. Numbered'
    BY <1>0, <1>1, <1>2, NumberedStays DEF Held
  <2>2. Accounts'
    BY <1>0, <1>1, <1>2, AccountsStay
  <2>3. Nested'
    BY <1>0, <1>1 DEF Nested
  <2> QED
    BY <2>1, <2>2, <2>3
<1>14. TypeOK'
  BY <1>0, <1>1 DEF TypeOK
<1> QED
  BY <1>10, <1>11, <1>12, <1>13, <1>14 DEF MediaInv

LEMMA TransitionAbortedInv == ASSUME MediaInv, SessionTransitionAborted PROVE MediaInv'
<1>0. TypeOK /\ Doubts
  BY DEF MediaInv, MutationsInv
<1>1. /\ Quiet /\ fenced /\ ~shuttingDown /\ session.connected
      /\ fenced' = FALSE
      /\ completedSpeculative' = FALSE
      /\ doubtful' = IF completedSpeculative THEN doubtful \cap Seqs(InFlight) ELSE doubtful
      /\ Post(<<"dispatch", "pump">>)
      /\ UNCHANGED <<session, shuttingDown, called, outcome, turn, lines, starting,
                     slots, settling, journals, settled, speculative, tracked, readVars>>
  BY DEF SessionTransitionAborted
<1>2. doubtful' \subseteq doubtful /\ doubtful' \subseteq Seqs(InFlight)
  BY <1>0, <1>1 DEF Doubts
<1>3. posted' \in Seq({"dispatch", "pump"})
  <2>1. <<"dispatch", "pump">> \in Seq({"dispatch", "pump"})
    OBVIOUS
  <2> QED
    BY <2>1, <1>0, <1>1, PostIs
<1>4. \A r \in InFlight : r.seq \in doubtful' =>
        r.seq \in speculative' /\ r.generation = session'.generation
  BY <1>0, <1>1, <1>2 DEF Doubts
<1>5. /\ shuttingDown' = FALSE /\ fenced' \in BOOLEAN /\ session'.connected
      /\ session' \in [generation : 0..MaxGeneration, connected : BOOLEAN]
      /\ speculative' \subseteq 1..MaxRequests /\ tracked' \subseteq Items
  BY <1>0, <1>1 DEF TypeOK
<1> QED
  BY <1>1, <1>2, <1>3, <1>4, <1>5, FenceOpens

LEMMA CommittedInv == ASSUME MediaInv, SessionCommitted PROVE MediaInv'
<1>0. TypeOK
  BY DEF MediaInv
<1>1. /\ Quiet /\ fenced /\ ~shuttingDown /\ session.generation < MaxGeneration
      /\ \E connected \in BOOLEAN :
           session' = [generation |-> session.generation + 1, connected |-> connected]
      /\ fenced' = ~session'.connected
      /\ speculative' = {} /\ completedSpeculative' = FALSE /\ doubtful' = {}
      /\ tracked' = {}
      /\ Post(IF session'.connected THEN <<"dispatch", "pump">> ELSE <<>>)
      /\ UNCHANGED <<shuttingDown, called, outcome, turn, lines, starting, slots,
                     settling, journals, settled, readVars>>
  BY DEF SessionCommitted
<1>2. session' \in [generation : 0..MaxGeneration, connected : BOOLEAN]
  <2>1. session.generation \in 0..MaxGeneration /\ MaxGeneration \in Nat
    BY <1>0, MediaAssumption DEF TypeOK
  <2>2. session.generation + 1 \in 0..MaxGeneration
    BY <2>1, <1>1
  <2>3. PICK connected \in BOOLEAN :
          session' = [generation |-> session.generation + 1, connected |-> connected]
    BY <1>1
  <2> QED
    BY <2>2, <2>3
<1>3. posted' \in Seq({"dispatch", "pump"})
  <2> DEFINE calls == IF session'.connected THEN <<"dispatch", "pump">> ELSE <<>>
  <2>1. calls \in Seq({"dispatch", "pump"})
    <3>1. <<>> \in Seq({"dispatch", "pump"}) /\ <<"dispatch", "pump">> \in Seq({"dispatch", "pump"})
      OBVIOUS
    <3> QED
      BY <3>1
  <2>2. Post(calls)
    BY <1>1
  <2> HIDE DEF calls
  <2> QED
    BY <2>1, <2>2, <1>0, PostIs
<1>4. fenced' \in BOOLEAN /\ (~fenced' => session'.connected) /\ shuttingDown' = FALSE
  BY <1>0, <1>1, <1>2 DEF TypeOK
<1>5. /\ doubtful' \subseteq doubtful /\ doubtful' \subseteq Seqs(InFlight)
      /\ \A r \in InFlight : r.seq \in doubtful' =>
           r.seq \in speculative' /\ r.generation = session'.generation
      /\ speculative' \subseteq 1..MaxRequests /\ tracked' \subseteq Items
  BY <1>1
<1> QED
  BY <1>1, <1>2, <1>3, <1>4, <1>5, FenceOpens

-----------------------------------------------------------------------------
\* MediaInv is inductive: one step for each thing that can happen.
LEMMA MediaStep == MediaInv /\ [Next]_vars => MediaInv'
<1> SUFFICES ASSUME MediaInv, [Next]_vars PROVE MediaInv'
  OBVIOUS
<1>1. ASSUME NEW p \in Menu, SubmitRead(p[1], p[2]) \/ SubmitMutation(p[1], p[2])
      PROVE  MediaInv'
  <2>1. p[1] \in Items /\ p[2] \in ReadOps \cup MutationOps
    BY MediaAssumption
  <2>2. CASE SubmitRead(p[1], p[2])
    <3>1. p[2] \in Lanes
      BY <2>2 DEF SubmitRead, Lanes
    <3> QED
      BY <3>1, <2>1, <2>2, SubmitReadInv
  <2>3. CASE SubmitMutation(p[1], p[2])
    <3>1. p[2] \in MutationOps
      BY <2>3 DEF SubmitMutation
    <3> QED
      BY <3>1, <2>1, <2>3, SubmitMutationInv
  <2> QED
    BY <1>1, <2>2, <2>3
<1>2. CASE Proceed
  <2>1. ASSUME NEW l \in Lanes, AnswerRead(l) \/ EndRead(l) PROVE MediaInv'
    BY <2>1, AnswerReadInv, EndReadInv
  <2>2. ASSUME NEW r \in starting, StartNext(r) PROVE MediaInv'
    BY <2>2, StartNextInv
  <2>3. ASSUME NEW i \in Slots, RefusedDone(i) \/ Opened(i) PROVE MediaInv'
    BY <2>3, RefusedDoneInv, OpenedInv
  <2>4. ASSUME Dispatch \/ EndDispatch PROVE MediaInv'
    BY <2>4, DispatchInv, EndDispatchInv
  <2>5. ASSUME ApplyResult \/ Answer \/ EndMutation PROVE MediaInv'
    BY <2>5, ApplyResultInv, AnswerInv, EndMutationInv
  <2> QED
    BY <1>2, <2>1, <2>2, <2>3, <2>4, <2>5 DEF Proceed
<1>3. CASE Timer
  BY <1>3, PumpInv, DispatchLaterInv DEF Timer
<1>4. ASSUME NEW l \in Lanes, FinishRead(l) PROVE MediaInv'
  BY <1>4, FinishReadInv
<1>5. ASSUME NEW i \in Slots, NEW ok \in BOOLEAN, FinishMutation(i, ok) PROVE MediaInv'
  BY <1>5, FinishMutationInv
<1>6. ASSUME \/ SessionTransitionStarted \/ SessionTransitionAborted \/ SessionCommitted
             \/ Shutdown
      PROVE  MediaInv'
  BY <1>6, TransitionStartedInv, TransitionAbortedInv, CommittedInv, ShutdownInv
<1>7. ASSUME NEW item \in Items, RefreshEnds(item) PROVE MediaInv'
  BY <1>7, RefreshEndsInv
<1>8. CASE UNCHANGED vars
  <2>0. TypeOK /\ Numbered /\ Accounts /\ Nested /\ MutationsInv /\ ReadsInv
        /\ NoReadBesideConflict
    BY DEF MediaInv
  <2>1. UNCHANGED <<sessionVars, called, outcome, turnVars, mutationVars, readVars>>
    BY <1>8 DEF vars
  <2>2. UNCHANGED <<session, fenced, shuttingDown, called, outcome, turn, posted>>
    BY <2>1 DEF sessionVars, turnVars
  <2>3. UNCHANGED <<waiting, running, starting, slots, settling, ids, journal, settled>>
    BY <2>1 DEF mutationVars, lines, journals, fates
  <2>4. UNCHANGED <<speculative, completedSpeculative, doubtful, tracked>>
    BY <2>1 DEF mutationVars, fates
  <2>5. UNCHANGED <<reads, latest, settledReads>>
    BY <2>1 DEF readVars
  <2>6. TypeOK'
    BY <2>0, <2>2, <2>3, <2>4, <2>5 DEF TypeOK
  <2>7. Nested' /\ \A places : Reached(places)' <=> Reached(places)
    BY <2>0, <2>2 DEF Nested, Reached
  <2>8. MutationsInv'
    BY <2>0, <2>1, <2>2, <2>7, MutationsKept
  <2>9. Pending' = Pending /\ OpenMutations' = OpenMutations
    BY <2>3, MutationsStay
  <2> QED
    BY <2>1, <2>2, <2>6, <2>7, <2>8, <2>9, SilentStep
<1> QED
  BY <1>1, <1>2, <1>3, <1>4, <1>5, <1>6, <1>7, <1>8 DEF Next

LEMMA MediaInvHolds == Spec => []MediaInv
  BY MediaStarts, MediaStep, PTL DEF Spec

\* The journal holds the overlay of the one optimistic mutation that runs.
LEMMA OneInJournal ==
  ASSUME MediaInv
  PROVE  OneOverlay
<1>0. /\ TypeOK /\ Accounts /\ LinesInv /\ Places /\ Placed /\ Sited /\ Overlays /\ Numbered
      /\ ReadsInv
  BY DEF MediaInv, MutationsInv, Places
<1>1. \A s \in journal : \E r \in InFlight :
        /\ r.seq = s /\ r.op \in Optimistic
        /\ (s \in ids /\ s \notin settled) \/ Opening(r)
  BY <1>0 DEF Overlays
<1>2. \A s, t \in journal : s = t
  <2>1. ASSUME NEW s \in journal, NEW t \in journal PROVE s = t
    <3>1. PICK r \in InFlight : r.seq = s /\ r.op \in Optimistic
      BY <1>1
    <3>2. PICK q \in InFlight : q.seq = t /\ q.op \in Optimistic
      BY <1>1
    <3>3. /\ r.item \in ActiveItems /\ running[r.item] = r
          /\ q.item \in ActiveItems /\ running[q.item] = q
      BY <1>0, InFlightRuns
    <3>4. r.item = q.item
      BY <3>1, <3>2, <3>3, <1>0 DEF Overlays
    <3> QED
      BY <3>1, <3>2, <3>3, <3>4
  <2> QED
    BY <2>1
<1>3. Cardinality(journal) <= 1
  <2>1. CASE journal = {}
    BY <2>1, FS_EmptySet
  <2>2. CASE journal # {}
    <3>1. PICK s : s \in journal
      BY <2>2
    <3>2. journal = {s}
      BY <3>1, <1>2
    <3> QED
      BY <3>2, FS_Singleton
  <2> QED
    BY <2>1, <2>2
<1>4. ASSUME NEW s \in journal
      PROVE  s \in Unanswered \/ \E i \in Slots : slots[i].at = "opening" /\ slots[i].active.seq = s
  <2>1. PICK r \in InFlight : r.seq = s /\ ((s \in ids /\ s \notin settled) \/ Opening(r))
    BY <1>1
  <2>2. CASE Opening(r)
    BY <2>1, <2>2 DEF Opening
  <2>3. CASE s \notin settled
    <3>1. r \in OpenMutations
      BY <2>1, <2>3 DEF OpenMutations, Untold
    <3>2. s \in Seqs(OpenMutations \cup OpenReads)
      BY <3>1, <2>1 DEF Seqs
    <3>3. s \in 1..called /\ s \in 1..MaxRequests
      BY <2>1, <1>0, Apart, CalledBound
    <3>4. outcome[s] = 0
      BY <3>2, <3>3, <1>0 DEF Accounts
    <3> QED
      BY <3>3, <3>4 DEF Unanswered
  <2> QED
    BY <2>1, <2>2, <2>3
<1> QED
  BY <1>3, <1>4 DEF OneOverlay

\* Callers get their one answer, none is forgotten, overlays and lanes are
\* taken one at a time and current reads meet no conflicting mutation, for any
\* menu, number of lanes, requests, handlers and transitions.
THEOREM MediaAccountsForRequests == Spec => []RequestsAccountedFor
<1>1. MediaInv => RequestsAccountedFor
  <2> SUFFICES ASSUME MediaInv PROVE RequestsAccountedFor
    OBVIOUS
  <2>0. /\ TypeOK /\ Accounts /\ Agreed /\ Room /\ NoReadBesideConflict
    BY DEF MediaInv, MutationsInv
  <2>1. AnsweredOnce
    BY <2>0 DEF Accounts, AnsweredOnce
  <2>2. NothingLost
    <3>1. ASSUME NEW s \in Unanswered
          PROVE  s \in Seqs(Queued \cup starting \cup Untold) \cup UnreadSeqs
      <4>1. s \in 1..called /\ outcome[s] = 0 /\ s \in 1..MaxRequests
        BY <2>0, CalledBound DEF Unanswered
      <4>2. s \in Seqs(OpenMutations \cup OpenReads)
        BY <4>1, <2>0 DEF Accounts
      <4>3. PICK r \in OpenMutations \cup OpenReads : s = r.seq
        BY <4>2 DEF Seqs
      <4>4. CASE r \in OpenMutations
        BY <4>3, <4>4 DEF OpenMutations, Seqs
      <4>5. CASE r \in OpenReads
        BY <4>3, <4>5 DEF OpenReads, ReadsHeld, UnreadSeqs, Seqs
      <4> QED
        BY <4>3, <4>4, <4>5
    <3> QED
      BY <3>1 DEF NothingLost
  <2>3. OneOverlay
    BY OneInJournal
  <2>4. FreeLane
    BY <2>0 DEF FreeLane, Room
  <2> QED
    BY <2>0, <2>1, <2>2, <2>3, <2>4 DEF RequestsAccountedFor
<1> QED
  BY <1>1, MediaInvHolds, PTL

\* When a session goes on, no mutation that the server may have done for a
\* caller told otherwise is left without reconciliation.
THEOREM MediaReconcilesDoubt == Spec => []DoubtIsReconciled
<1>1. MediaInv => DoubtIsReconciled
  BY DEF MediaInv, MutationsInv, Doubts, DoubtIsReconciled
<1> QED
  BY <1>1, MediaInvHolds, PTL
-----------------------------------------------------------------------------
(* The scheduler's proofs.                                                  *)

\* The scheduler counts as this module does.
LEMMA LinesCount ==
  /\ Lines!Cardinality(Lines!ActiveKeys) = Cardinality(Lines!ActiveKeys)
  /\ (Lines!Cardinality(Lines!ActiveKeys))' = Cardinality(Lines!ActiveKeys')
  BY DEF Lines!Cardinality, Cardinality, Lines!IsFiniteSet, IsFiniteSet

(* No key is listed twice, and the keys listed (in either list, while         *)
(* takeQueuedIf moves them from one to the other) are those that wait for a   *)
(* slot; the key under the cursor is in neither list.                        *)
ReadyInv ==
  /\ Lines!Distinct(ready) /\ Lines!Distinct(kept)
  /\ Lines!Listed(ready) \cap Lines!Listed(kept) = {}
  /\ \A k \in Keys : k \in Lines!Listed(ready) \cup Lines!Listed(kept)
                     <=> active[k] = None /\ queues[k] # <<>> /\ k # cursor

PhaseInv ==
  /\ pc \in {"idle", "takeReady"} => kept = <<>> /\ cursor = None
  /\ pc = "filterReady" /\ cursor # None => active[cursor] = None
  /\ pc = "filterActive" => /\ ready = <<>>
                            /\ unfiltered \subseteq Lines!ActiveKeys
                            /\ cursor # None => active[cursor] # None

(* The keys takeReady has looked at and put back are at the end of the list,  *)
(* and what blocked them blocks them still.                                  *)
ScanInv ==
  pc = "takeReady" =>
    \A i \in 1..Len(ready) : i > remaining
                               => ~ Lines!AgreesWithActive(Head(queues[ready[i]]))

SlotInv == IsFiniteSet(Lines!ActiveKeys) /\ Lines!ActiveSetLegal

SchedulerInv == Lines!TypeOK /\ ReadyInv /\ PhaseInv /\ ScanInv /\ SlotInv
-----------------------------------------------------------------------------
LEMMA ListedAppend ==
  ASSUME NEW S, NEW s \in Seq(S), NEW x \in S
  PROVE  Lines!Listed(Append(s, x)) = Lines!Listed(s) \cup {x}
BY DEF Lines!Listed

LEMMA ListedTail ==
  ASSUME NEW S, NEW s \in Seq(S), s # <<>>, Lines!Distinct(s)
  PROVE  /\ Lines!Listed(Tail(s)) = Lines!Listed(s) \ {Head(s)}
         /\ Head(s) \in Lines!Listed(s)
         /\ Lines!Distinct(Tail(s))
BY DEF Lines!Listed, Lines!Distinct

LEMMA DistinctAppend ==
  ASSUME NEW S, NEW s \in Seq(S), NEW x \in S, Lines!Distinct(s), x \notin Lines!Listed(s)
  PROVE  Lines!Distinct(Append(s, x))
BY DEF Lines!Listed, Lines!Distinct

LEMMA ListedEmpty == Lines!Listed(<<>>) = {} /\ Lines!Distinct(<<>>)
BY DEF Lines!Listed, Lines!Distinct

LEMMA SchedulerStarts == Lines!Init => SchedulerInv
<1> SUFFICES ASSUME Lines!Init PROVE SchedulerInv
    OBVIOUS
<1>1. Lines!TypeOK
  BY DEF Lines!Init, Lines!TypeOK
<1>2. ReadyInv /\ PhaseInv /\ ScanInv
  BY ListedEmpty DEF Lines!Init, ReadyInv, PhaseInv, ScanInv
<1>3. SlotInv
  <2>1. Lines!ActiveKeys = {}
    BY DEF Lines!Init, Lines!ActiveKeys
  <2> QED
    BY <2>1, FS_EmptySet, LinesAssumption, LinesCount
    DEF SlotInv, Lines!ActiveSetLegal, Lines!SchedulerAssumption
<1> QED
  BY <1>1, <1>2, <1>3 DEF SchedulerInv

LEMMA EnqueueInv ==
  ASSUME SchedulerInv, NEW k \in Keys, NEW r \in Payloads, Lines!Enqueue(k, r)
  PROVE  SchedulerInv'
<1> USE DEF SchedulerInv, Lines!Enqueue, Lines!calls
<1>1. Lines!TypeOK'
  BY DEF Lines!TypeOK
<1>2. kept = <<>> /\ cursor = None /\ kept' = <<>> /\ cursor' = None
  BY DEF PhaseInv
<1>3. ReadyInv'
  <2>0. queues'[k] # <<>> /\ \A j \in Keys \ {k} : queues'[j] = queues[j]
    BY DEF Lines!TypeOK
  <2>1. CASE queues[k] = <<>> /\ active[k] = None
    <3>1. k \notin Lines!Listed(ready)
      BY <2>1 DEF ReadyInv
    <3>2. Lines!Distinct(ready') /\ Lines!Listed(ready') = Lines!Listed(ready) \cup {k}
      BY <2>1, <3>1, ListedAppend, DistinctAppend DEF ReadyInv, Lines!TypeOK
    <3> QED
      BY <2>0, <2>1, <3>2, <1>2, ListedEmpty, LinesAssumption
      DEF ReadyInv, Lines!SchedulerAssumption
  <2>2. CASE ~ (queues[k] = <<>> /\ active[k] = None)
    BY <2>0, <2>2, <1>2 DEF ReadyInv
  <2> QED
    BY <2>1, <2>2
<1>4. PhaseInv' /\ ScanInv' /\ SlotInv'
  BY DEF PhaseInv, ScanInv, SlotInv, Lines!ActiveSetLegal, Lines!ActiveKeys, Lines!Agrees
<1> QED
  BY <1>1, <1>3, <1>4

LEMMA CompleteInv ==
  ASSUME SchedulerInv, NEW k \in Keys, Lines!Complete(k)
  PROVE  SchedulerInv'
<1> USE DEF SchedulerInv, Lines!Complete, Lines!calls
<1>1. Lines!TypeOK'
  BY DEF Lines!TypeOK
<1>2. kept = <<>> /\ cursor = None /\ kept' = <<>> /\ cursor' = None
  BY DEF PhaseInv
<1>3. ReadyInv'
  <2>1. k \notin Lines!Listed(ready)
    BY DEF ReadyInv
  <2>2. CASE queues[k] # <<>>
    <3>1. Lines!Distinct(ready') /\ Lines!Listed(ready') = Lines!Listed(ready) \cup {k}
      BY <2>1, <2>2, ListedAppend, DistinctAppend DEF ReadyInv, Lines!TypeOK
    <3> QED
      BY <2>2, <3>1, <1>2, ListedEmpty, LinesAssumption
      DEF ReadyInv, Lines!TypeOK, Lines!SchedulerAssumption
  <2>3. CASE queues[k] = <<>>
    BY <2>3, <1>2 DEF ReadyInv, Lines!TypeOK
  <2> QED
    BY <2>2, <2>3
<1>4. PhaseInv' /\ ScanInv'
  BY DEF PhaseInv, ScanInv
<1>5. SlotInv'
  <2>1. Lines!ActiveKeys' = Lines!ActiveKeys \ {k} /\ k \in Lines!ActiveKeys
    BY DEF Lines!ActiveKeys, Lines!TypeOK
  <2>2. IsFiniteSet(Lines!ActiveKeys') /\ Cardinality(Lines!ActiveKeys') = Cardinality(Lines!ActiveKeys) - 1
    BY <2>1, FS_RemoveElement DEF SlotInv
  <2>3. Cardinality(Lines!ActiveKeys) \in Nat
    BY FS_CardinalityType DEF SlotInv
  <2>4. \A i, j \in Lines!ActiveKeys' : i # j => Lines!Agrees(active'[i], active'[j])
    BY <2>1 DEF SlotInv, Lines!ActiveSetLegal, Lines!TypeOK, Lines!ActiveKeys
  <2> QED
    BY <2>2, <2>3, <2>4, LinesAssumption, LinesCount
    DEF SlotInv, Lines!ActiveSetLegal, Lines!Agrees, Lines!SchedulerAssumption
<1> QED
  BY <1>1, <1>3, <1>4, <1>5

LEMMA ScanKeyInv ==
  ASSUME SchedulerInv, Lines!ScanKey
  PROVE  SchedulerInv'
<1> USE DEF SchedulerInv
<1>0. PICK k \in Keys : k = Head(ready)
  BY HeadTailProperties DEF Lines!TypeOK, Lines!ScanKey, Lines!ScanGoesOn
<1>1. /\ k \in Keys
      /\ k \in Lines!Listed(ready)
      /\ Lines!Listed(Tail(ready)) = Lines!Listed(ready) \ {k}
      /\ Lines!Distinct(Tail(ready))
      /\ Tail(ready) \in Seq(Keys)
  <2>1. ready \in Seq(Keys) /\ ready # <<>>
    BY DEF Lines!TypeOK, Lines!ScanKey, Lines!ScanGoesOn
  <2> QED
    BY <1>0, <2>1, ListedTail, HeadTailProperties DEF ReadyInv
<1>2. active[k] = None /\ queues[k] # <<>>
  BY <1>1 DEF ReadyInv
<1>3. Head(queues[k]) \in Payloads /\ Tail(queues[k]) \in Seq(Payloads)
  BY <1>1, <1>2, HeadTailProperties DEF Lines!TypeOK
<1>4. kept = <<>> /\ cursor = None /\ kept' = <<>> /\ cursor' = None
  BY DEF PhaseInv, Lines!ScanKey
<1>5. PhaseInv'
  BY <1>4 DEF PhaseInv, Lines!ScanKey
<1>6. remaining \in Nat /\ remaining' \in Nat /\ remaining' = remaining - 1
  BY DEF Lines!TypeOK, Lines!ScanKey, Lines!ScanGoesOn
<1>7. CASE /\ ~ Lines!AgreesWithActive(Head(queues[k]))
           /\ ready' = Append(Tail(ready), k)
           /\ UNCHANGED <<queues, active>>
  <2>1. Lines!TypeOK'
    BY <1>1, <1>6, <1>7 DEF Lines!TypeOK, Lines!ScanKey
  <2>2. ReadyInv'
    <3>1. Lines!Distinct(ready') /\ Lines!Listed(ready') = Lines!Listed(ready)
      <4>1. PICK rest \in Seq(Keys) : /\ ready' = Append(rest, k)
                                      /\ Lines!Listed(rest) = Lines!Listed(ready) \ {k}
                                      /\ Lines!Distinct(rest)
        BY <1>1, <1>7
      <4>2. Lines!Listed(ready') = Lines!Listed(rest) \cup {k} /\ Lines!Distinct(ready')
        BY <1>1, <4>1, ListedAppend, DistinctAppend
      <4> QED
        BY <1>1, <4>1, <4>2
    <3> QED
      BY <3>1, <1>4, <1>7 DEF ReadyInv
  <2>3. ScanInv'
    <3>1. Lines!AgreesWithActive(Head(queues[k])) <=> Lines!AgreesWithActive(Head(queues[k]))'
      BY <1>7 DEF Lines!AgreesWithActive, Lines!ActiveKeys, Lines!Agrees
    <3> SUFFICES ASSUME NEW i \in 1..Len(ready'), i > remaining'
                 PROVE  ~ Lines!AgreesWithActive(Head(queues[ready'[i]]))
      BY <1>7 DEF ScanInv, Lines!AgreesWithActive, Lines!ActiveKeys, Lines!Agrees
    <3>2. /\ Len(ready') = Len(ready) /\ Len(ready) \in Nat \ {0}
          /\ ready'[Len(ready)] = k
          /\ \A n \in 1..(Len(ready) - 1) : ready'[n] = ready[n + 1]
      <4>1. ready \in Seq(Keys) /\ ready # <<>>
        BY DEF Lines!TypeOK, Lines!ScanKey, Lines!ScanGoesOn
      <4> QED
        BY <4>1, <1>1, <1>7
    <3>3. CASE i = Len(ready)
      BY <1>7, <3>2, <3>3
    <3>4. CASE i < Len(ready)
      <4>1. ready'[i] = ready[i + 1] /\ i + 1 \in 1..Len(ready) /\ i + 1 > remaining
        BY <1>6, <3>2, <3>4
      <4> QED
        BY <4>1 DEF ScanInv, Lines!ScanKey
    <3> QED
      BY <3>2, <3>3, <3>4
  <2>4. SlotInv'
    BY <1>7 DEF SlotInv, Lines!ActiveSetLegal, Lines!ActiveKeys, Lines!Agrees
  <2> QED
    BY <2>1, <2>2, <2>3, <2>4, <1>5
<1>8. CASE /\ Lines!AgreesWithActive(Head(queues[k]))
           /\ ready' = Tail(ready)
           /\ active' = [active EXCEPT ![k] = Head(queues[k])]
           /\ queues' = [queues EXCEPT ![k] = Tail(@)]
  <2>1. Lines!TypeOK'
    BY <1>1, <1>3, <1>6, <1>8 DEF Lines!TypeOK, Lines!ScanKey
  <2>2. active'[k] # None /\ \A j \in Keys \ {k} : active'[j] = active[j] /\ queues'[j] = queues[j]
    BY <1>1, <1>3, <1>8, LinesAssumption DEF Lines!TypeOK, Lines!SchedulerAssumption
  <2>3. ReadyInv'
    BY <1>1, <1>4, <1>8, <2>2 DEF ReadyInv
  <2>4. ScanInv'
    <3> SUFFICES ASSUME NEW i \in 1..Len(ready'), i > remaining'
                 PROVE  (~ Lines!AgreesWithActive(Head(queues[ready[i]])))'
      BY DEF ScanInv
    <3>1. /\ ready'[i] = ready[i + 1] /\ i + 1 \in 1..Len(ready) /\ i + 1 > remaining
          /\ ready[i + 1] \in Keys /\ ready[i + 1] # k
      <4>1. ready \in Seq(Keys) /\ ready # <<>>
        BY DEF Lines!TypeOK, Lines!ScanKey, Lines!ScanGoesOn
      <4>2. ready'[i] = ready[i + 1] /\ i + 1 \in 1..Len(ready) /\ ready[i + 1] \in Keys
        BY <4>1, <1>8
      <4> QED
        BY <4>1, <4>2, <1>0, <1>6 DEF ReadyInv, Lines!Distinct
    <3> DEFINE j == ready[i + 1]
    <3>2. ~ Lines!AgreesWithActive(Head(queues[j]))
      BY <3>1 DEF ScanInv, Lines!ScanKey
    <3>3. Head(queues[j]) \in Payloads
      <4>1. j \in Lines!Listed(ready)
        BY <3>1 DEF Lines!Listed
      <4>2. queues[j] \in Seq(Payloads) /\ queues[j] # <<>>
        BY <4>1, <3>1 DEF ReadyInv, Lines!TypeOK
      <4> QED
        BY <4>2, HeadTailProperties
    <3>4. PICK a \in Lines!ActiveKeys : ~ Lines!Agrees(Head(queues[j]), active[a])
      BY <3>2 DEF Lines!AgreesWithActive
    <3>5. a \in Lines!ActiveKeys' /\ active'[a] = active[a] /\ queues'[j] = queues[j]
      BY <1>2, <2>2, <3>1, <3>4 DEF Lines!ActiveKeys
    <3> QED
      BY <3>1, <3>4, <3>5 DEF Lines!AgreesWithActive, Lines!Agrees
  <2>5. SlotInv'
    <3>1. Lines!ActiveKeys' = Lines!ActiveKeys \cup {k} /\ k \notin Lines!ActiveKeys
      BY <1>1, <1>2, <2>2 DEF Lines!ActiveKeys
    <3>2. IsFiniteSet(Lines!ActiveKeys') /\ Cardinality(Lines!ActiveKeys') = Cardinality(Lines!ActiveKeys) + 1
      BY <3>1, FS_AddElement DEF SlotInv
    <3>3. Cardinality(Lines!ActiveKeys) \in Nat
      BY FS_CardinalityType DEF SlotInv
    <3>4. \A i, j \in Lines!ActiveKeys' : i # j => Lines!Agrees(active'[i], active'[j])
      BY <1>8, <2>2, <3>1
      DEF SlotInv, Lines!ActiveSetLegal, Lines!AgreesWithActive, Lines!Agrees,
          Lines!ActiveKeys, Lines!TypeOK
    <3> QED
      BY <3>2, <3>3, <3>4, LinesAssumption, LinesCount
      DEF Lines!ScanKey, Lines!ScanGoesOn, SlotInv, Lines!ActiveSetLegal, Lines!Agrees,
          Lines!SchedulerAssumption
  <2> QED
    BY <2>1, <2>3, <2>4, <2>5, <1>5
<1> QED
  BY <1>0, <1>2, <1>7, <1>8 DEF Lines!ScanKey

LEMMA TakeQueuedInv ==
  ASSUME SchedulerInv, Lines!TakeQueued
  PROVE  SchedulerInv'
<1> USE DEF SchedulerInv, Lines!TakeQueued, Lines!calls
<1>1. Lines!TypeOK'
  BY DEF Lines!TypeOK
<1>2. kept = <<>> /\ kept' = <<>>
  BY DEF PhaseInv
<1>3. ReadyInv' /\ PhaseInv' /\ ScanInv'
  BY <1>2, ListedEmpty DEF ReadyInv, PhaseInv, ScanInv
<1>4. SlotInv'
  BY DEF SlotInv, Lines!ActiveSetLegal, Lines!ActiveKeys, Lines!Agrees
<1> QED
  BY <1>1, <1>3, <1>4

(* The steps that only move between calls and loops. *)
LEMMA ControlInv ==
  ASSUME SchedulerInv,
         \/ Lines!TakeReady
         \/ Lines!ScanReturn
         \/ \E D \in SUBSET Payloads : Lines!TakeQueuedIf(D)
  PROVE  SchedulerInv'
<1> USE DEF SchedulerInv
<1>1. SlotInv' = SlotInv /\ UNCHANGED <<queues, active, ready, cursor>>
  BY DEF Lines!TakeReady, Lines!ScanReturn, Lines!TakeQueuedIf, SlotInv, Lines!ActiveSetLegal,
         Lines!ActiveKeys, Lines!Agrees
<1>2. CASE Lines!TakeReady
  <2>1. Lines!TypeOK' /\ PhaseInv' /\ ReadyInv'
    BY <1>2 DEF Lines!TakeReady, Lines!TypeOK, PhaseInv, ReadyInv
  <2>2. ScanInv'
    BY <1>2 DEF Lines!TakeReady, Lines!TypeOK, ScanInv
  <2> QED
    BY <1>1, <2>1, <2>2
<1>3. CASE Lines!ScanReturn
  BY <1>1, <1>3 DEF Lines!ScanReturn, Lines!TypeOK, PhaseInv, ReadyInv, ScanInv
<1>4. CASE \E D \in SUBSET Payloads : Lines!TakeQueuedIf(D)
  <2>1. kept = <<>> /\ kept' = <<>>
    BY <1>4 DEF Lines!TakeQueuedIf, PhaseInv
  <2>2. Lines!TypeOK' /\ PhaseInv' /\ ScanInv'
    BY <1>4, <2>1 DEF Lines!TakeQueuedIf, Lines!TypeOK, PhaseInv, ScanInv
  <2>3. ReadyInv'
    BY <1>1, <2>1 DEF ReadyInv
  <2> QED
    BY <1>1, <2>2, <2>3
<1> QED
  BY <1>2, <1>3, <1>4

LEMMA FilterNextReadyInv ==
  ASSUME SchedulerInv, Lines!FilterNextReady
  PROVE  SchedulerInv'
<1> USE DEF SchedulerInv
<1>1. PICK k \in Keys : k = Head(ready)
  BY HeadTailProperties DEF Lines!TypeOK, Lines!FilterNextReady
<1>2. /\ k \in Keys
      /\ k \in Lines!Listed(ready)
      /\ Lines!Listed(ready') = Lines!Listed(ready) \ {k}
      /\ Lines!Distinct(ready')
      /\ ready' \in Seq(Keys)
  <2>1. ready \in Seq(Keys) /\ ready # <<>> /\ ready' = Tail(ready)
    BY DEF Lines!TypeOK, Lines!FilterNextReady
  <2> QED
    BY <1>1, <2>1, ListedTail, HeadTailProperties DEF ReadyInv
<1>3. active[k] = None /\ queues[k] # <<>>
  BY <1>2 DEF ReadyInv
<1>4. /\ cursor = None /\ cursor' = k /\ retained' = <<>> /\ pc = "filterReady"
      /\ UNCHANGED <<queues, active, pc, remaining, discard, kept, unfiltered>>
  BY <1>1, <1>3 DEF Lines!FilterNextReady
<1>5. Lines!TypeOK'
  BY <1>2, <1>4 DEF Lines!TypeOK
<1>6. ReadyInv'
  BY <1>2, <1>4, LinesAssumption DEF ReadyInv, Lines!SchedulerAssumption
<1>7. PhaseInv' /\ ScanInv'
  BY <1>3, <1>4 DEF PhaseInv, ScanInv
<1>8. SlotInv'
  BY <1>4 DEF SlotInv, Lines!ActiveSetLegal, Lines!ActiveKeys, Lines!Agrees
<1> QED
  BY <1>5, <1>6, <1>7, <1>8

LEMMA FilterControlInv ==
  ASSUME SchedulerInv, \/ Lines!FilterActiveKeys
                       \/ \E k \in Keys : Lines!FilterNextActive(k)
                       \/ Lines!FilterRequest
  PROVE  SchedulerInv'
<1> USE DEF SchedulerInv
<1>1. CASE Lines!FilterActiveKeys
  <2>1. Lines!TypeOK' /\ PhaseInv' /\ ScanInv'
    BY <1>1 DEF Lines!FilterActiveKeys, Lines!TypeOK, PhaseInv, ScanInv, Lines!ActiveKeys
  <2>2. ReadyInv' /\ SlotInv'
    BY <1>1 DEF Lines!FilterActiveKeys, ReadyInv, SlotInv, Lines!ActiveSetLegal,
                Lines!ActiveKeys, Lines!Agrees
  <2> QED
    BY <2>1, <2>2
<1>2. CASE \E k \in Keys : Lines!FilterNextActive(k)
  <2>1. PICK k \in Keys : Lines!FilterNextActive(k)
    BY <1>2
  <2>2. active[k] # None
    BY <2>1 DEF Lines!FilterNextActive, PhaseInv, Lines!ActiveKeys
  <2>3. Lines!TypeOK' /\ PhaseInv' /\ ScanInv'
    BY <2>1, <2>2 DEF Lines!FilterNextActive, Lines!TypeOK, PhaseInv, ScanInv, Lines!ActiveKeys
  <2>4. ReadyInv' /\ SlotInv'
    BY <2>1, <2>2, LinesAssumption
    DEF Lines!FilterNextActive, ReadyInv, SlotInv, Lines!ActiveSetLegal, Lines!ActiveKeys,
        Lines!Agrees,
        Lines!SchedulerAssumption
  <2> QED
    BY <2>3, <2>4
<1>3. CASE Lines!FilterRequest
  <2>1. cursor \in Keys /\ pc \notin {"idle", "takeReady"}
    BY <1>3 DEF Lines!FilterRequest, Lines!TypeOK, PhaseInv
  <2>2. Head(queues[cursor]) \in Payloads /\ Tail(queues[cursor]) \in Seq(Payloads)
    BY <1>3, <2>1, HeadTailProperties DEF Lines!FilterRequest, Lines!TypeOK
  <2>3. Lines!TypeOK' /\ PhaseInv' /\ ScanInv'
    BY <1>3, <2>1, <2>2 DEF Lines!FilterRequest, Lines!TypeOK, PhaseInv, ScanInv,
                            Lines!ActiveKeys
  <2>4. ReadyInv' /\ SlotInv'
    BY <1>3, <2>1 DEF Lines!FilterRequest, Lines!TypeOK, ReadyInv, SlotInv,
                      Lines!ActiveSetLegal, Lines!ActiveKeys, Lines!Agrees
  <2> QED
    BY <2>3, <2>4
<1> QED
  BY <1>1, <1>2, <1>3

LEMMA FilterStoreInv ==
  ASSUME SchedulerInv, Lines!FilterStore
  PROVE  SchedulerInv'
<1> USE DEF SchedulerInv
<1>1. PICK k \in Keys : k = cursor
  BY DEF Lines!FilterStore, Lines!TypeOK
<1>2. /\ k \in Keys /\ k # None /\ k \notin Lines!Listed(ready) /\ k \notin Lines!Listed(kept)
      /\ pc \notin {"idle", "takeReady"}
  BY <1>1, LinesAssumption DEF Lines!FilterStore, ReadyInv, Lines!TypeOK, PhaseInv,
                               Lines!SchedulerAssumption
<1>3. /\ queues'[k] = retained
      /\ \A j \in Keys \ {k} : queues'[j] = queues[j]
      /\ cursor' = None /\ UNCHANGED <<active, ready, pc, unfiltered>>
  BY <1>1 DEF Lines!FilterStore, Lines!TypeOK
<1>4. Lines!TypeOK' /\ PhaseInv' /\ ScanInv' /\ SlotInv'
  <2>1. Lines!TypeOK'
    BY <1>1 DEF Lines!FilterStore, Lines!TypeOK
  <2> QED
    BY <2>1, <1>2, <1>3
    DEF PhaseInv, ScanInv, SlotInv, Lines!ActiveSetLegal, Lines!ActiveKeys, Lines!Agrees
<1>5. CASE pc = "filterReady" /\ retained # <<>>
  <2>1. kept' = Append(kept, k) /\ active[k] = None
    BY <1>1, <1>2, <1>5 DEF Lines!FilterStore, PhaseInv
  <2>2. Lines!Listed(kept') = Lines!Listed(kept) \cup {k} /\ Lines!Distinct(kept')
    BY <1>2, <2>1, ListedAppend, DistinctAppend DEF Lines!TypeOK, ReadyInv
  <2>3. ReadyInv'
    BY <1>1, <1>2, <1>3, <1>5, <2>1, <2>2, LinesAssumption
    DEF ReadyInv, Lines!SchedulerAssumption
  <2> QED
    BY <2>3, <1>4
<1>6. CASE ~ (pc = "filterReady" /\ retained # <<>>)
  <2>1. kept' = kept /\ (queues'[k] = <<>> \/ active[k] # None)
    BY <1>1, <1>2, <1>3, <1>6 DEF Lines!FilterStore, PhaseInv, Lines!TypeOK
  <2>2. ReadyInv'
    BY <1>1, <1>2, <1>3, <2>1, LinesAssumption DEF ReadyInv, Lines!SchedulerAssumption
  <2> QED
    BY <2>2, <1>4
<1> QED
  BY <1>5, <1>6

LEMMA FilterReturnInv ==
  ASSUME SchedulerInv, Lines!FilterReturn
  PROVE  SchedulerInv'
<1> USE DEF SchedulerInv
<1>1. ready = <<>> /\ cursor = None
  BY DEF Lines!FilterReturn, PhaseInv
<1>2. Lines!TypeOK' /\ PhaseInv' /\ ScanInv' /\ SlotInv'
  BY DEF Lines!FilterReturn, Lines!TypeOK, PhaseInv, ScanInv, SlotInv, Lines!ActiveSetLegal,
         Lines!ActiveKeys, Lines!Agrees
<1>3. ReadyInv'
  BY <1>1, ListedEmpty DEF Lines!FilterReturn, ReadyInv
<1> QED
  BY <1>2, <1>3

LEMMA SchedulerStep == SchedulerInv /\ [Lines!Next]_(Lines!vars) => SchedulerInv'
<1> SUFFICES ASSUME SchedulerInv, [Lines!Next]_(Lines!vars) PROVE SchedulerInv'
    OBVIOUS
<1>1. CASE \E k \in Keys, r \in Payloads : Lines!Enqueue(k, r)
  BY <1>1, EnqueueInv
<1>2. CASE \E k \in Keys : Lines!Complete(k)
  BY <1>2, CompleteInv
<1>3. CASE Lines!TakeQueued
  BY <1>3, TakeQueuedInv
<1>4. CASE Lines!TakeReady \/ Lines!ScanReturn \/ \E D \in SUBSET Payloads : Lines!TakeQueuedIf(D)
  BY <1>4, ControlInv
<1>5. CASE Lines!ScanKey
  BY <1>5, ScanKeyInv
<1>6. CASE Lines!Filtering
  <2>1. CASE Lines!FilterNextReady
    BY <2>1, FilterNextReadyInv
  <2>2. ASSUME \/ Lines!FilterActiveKeys
               \/ \E k \in Keys : Lines!FilterNextActive(k)
               \/ Lines!FilterRequest
        PROVE  SchedulerInv'
    BY <2>2, FilterControlInv
  <2>3. CASE Lines!FilterStore
    BY <2>3, FilterStoreInv
  <2>4. CASE Lines!FilterReturn
    BY <2>4, FilterReturnInv
  <2> QED
    BY <1>6, <2>1, <2>2, <2>3, <2>4 DEF Lines!Filtering
<1>7. CASE UNCHANGED Lines!vars
  BY <1>7 DEF Lines!vars, SchedulerInv, Lines!TypeOK, ReadyInv, PhaseInv, ScanInv, SlotInv,
              Lines!ActiveSetLegal,
              Lines!AgreesWithActive, Lines!ActiveKeys, Lines!Agrees
<1> QED
  BY <1>1, <1>2, <1>3, <1>4, <1>5, <1>6, <1>7 DEF Lines!Next

(* The inductive invariant holds in every reachable state. *)
THEOREM SchedulerInvariant == Lines!Spec => []SchedulerInv
BY SchedulerStarts, SchedulerStep, PTL DEF Lines!Spec

(* Every variable of the scheduler keeps its type. *)
THEOREM TypeCorrect == Lines!Spec => []Lines!TypeOK
<1>1. SchedulerInv => Lines!TypeOK
  BY DEF SchedulerInv
<1> QED
  BY <1>1, SchedulerInvariant, PTL

(* Between calls m_readyKeys names, once each, exactly the keys with waiting  *)
(* requests and no active one: no key is stranded, none is listed twice.      *)
THEOREM ReadyListCorrect == Lines!Spec => []Lines!ReadyListExact
<1>1. ASSUME SchedulerInv, pc = "idle"
      PROVE  /\ Lines!Distinct(ready)
             /\ Lines!Listed(ready) = {k \in Keys : active[k] = None /\ queues[k] # <<>>}
  <2>1. Lines!Listed(kept) = {} /\ cursor = None
    BY <1>1, ListedEmpty DEF SchedulerInv, PhaseInv
  <2>2. Lines!Listed(ready) \subseteq Keys
    BY <1>1 DEF SchedulerInv, Lines!TypeOK, Lines!Listed
  <2> QED
    BY <1>1, <2>1, <2>2, LinesAssumption DEF SchedulerInv, ReadyInv, Lines!SchedulerAssumption
<1>2. SchedulerInv => Lines!ReadyListExact
  BY <1>1 DEF Lines!ReadyListExact
<1> QED
  BY <1>2, SchedulerInvariant, PTL

(* m_active never exceeds its slots and never holds incompatible requests.    *)
THEOREM ActiveSetCorrect == Lines!Spec => []Lines!ActiveSetLegal
<1>1. SchedulerInv => Lines!ActiveSetLegal
  BY DEF SchedulerInv, SlotInv
<1> QED
  BY <1>1, SchedulerInvariant, PTL

(* takeReady returns only when nothing that is ready could run. *)
THEOREM TakeReadyCorrect == Lines!Spec => Lines!TakeReadyLeavesNothing
<1> DEFINE Full == Lines!Cardinality(Lines!ActiveKeys) = MaxActiveKeys
           AllBlocked == \A k \in Keys : active[k] = None /\ queues[k] # <<>>
                                          => ~ Lines!AgreesWithActive(Head(queues[k]))
<1>1. ASSUME SchedulerInv, Lines!ScanReturn PROVE Full \/ AllBlocked
  <2>1. CASE ~ (Cardinality(Lines!ActiveKeys) < MaxActiveKeys)
    <3>1. Cardinality(Lines!ActiveKeys) \in Nat /\ Cardinality(Lines!ActiveKeys) <= MaxActiveKeys
      BY <1>1, FS_CardinalityType, LinesCount DEF SchedulerInv, SlotInv, Lines!ActiveSetLegal
    <3> QED
      BY <2>1, <3>1, LinesAssumption, LinesCount DEF Lines!SchedulerAssumption
  <2>2. CASE ready = <<>> \/ ~ (remaining > 0)
    <3> SUFFICES ASSUME NEW k \in Keys, active[k] = None, queues[k] # <<>>
                 PROVE  ~ Lines!AgreesWithActive(Head(queues[k]))
      OBVIOUS
    <3>1. k \in Lines!Listed(ready)
      BY <1>1, LinesAssumption, ListedEmpty
      DEF SchedulerInv, ReadyInv, PhaseInv, Lines!ScanReturn, Lines!SchedulerAssumption
    <3>2. PICK i \in 1..Len(ready) : ready[i] = k
      BY <3>1 DEF Lines!Listed
    <3>3. i > remaining
      BY <1>1, <2>2, <3>2 DEF SchedulerInv, Lines!TypeOK
    <3> QED
      BY <1>1, <3>2, <3>3 DEF SchedulerInv, ScanInv, Lines!ScanReturn
  <2> QED
    BY <1>1, <2>1, <2>2, LinesCount DEF Lines!ScanReturn, Lines!ScanGoesOn
<1>2. SchedulerInv /\ [Lines!Next]_(Lines!vars) => [Lines!ScanReturn => Full \/ AllBlocked]_(Lines!vars)
  BY <1>1
<1> QED
  BY <1>2, SchedulerInvariant, PTL DEF Lines!Spec, Lines!TakeReadyLeavesNothing
-----------------------------------------------------------------------------
LEMMA WaitingIdle ==
  ASSUME Lines!TypeOK, cursor = None
  PROVE  Lines!Waiting = queues
BY LinesAssumption DEF Lines!Waiting, Lines!TypeOK, Lines!SchedulerAssumption

LEMMA MoveHead ==
  \A S : \A s, q \in Seq(S) : q # <<>> => Append(s, Head(q)) \o Tail(q) = s \o q
OBVIOUS

LEMMA DropHead ==
  ASSUME NEW S, NEW s \in Seq(S), NEW q \in Seq(S), q # <<>>,
         NEW t, t = Tail(q), NEW w, w = s \o q, NEW n, n = Len(s) + 1
  PROVE  s \o t = Lines!Fifo!RemoveAt(w, n) /\ n \in 1..Len(w)
<1>1. SubSeq(w, 1, n - 1) = s
  OBVIOUS
<1>2. SubSeq(w, n + 1, Len(w)) = t
  OBVIOUS
<1>3. n \in 1..Len(w)
  OBVIOUS
<1>4. Lines!Fifo!RemoveAt(w, n) = SubSeq(w, 1, n - 1) \o SubSeq(w, n + 1, Len(w))
  BY Zenon DEF Lines!Fifo!RemoveAt
<1>5. s \o t = Lines!Fifo!RemoveAt(w, n)
  BY <1>1, <1>2, <1>4, Zenon
<1> QED
  BY <1>3, <1>5

(* The refinement mapping takes initial states to initial states and every     *)
(* step to a step of KeyedFifo or to a stutter.                               *)
LEMMA RefinementInit == Lines!Init => Lines!Fifo!Init
BY LinesAssumption DEF Lines!Init, Lines!Fifo!Init, Lines!Waiting, Lines!SchedulerAssumption

LEMMA RefinementStep ==
  ASSUME SchedulerInv, SchedulerInv', [Lines!Next]_(Lines!vars)
  PROVE  [Lines!Fifo!Next]_<<Lines!Waiting, active>>
<1> USE DEF SchedulerInv
<1>1. CASE \E k \in Keys, r \in Payloads : Lines!Enqueue(k, r)
  <2>1. PICK k \in Keys, r \in Payloads : Lines!Enqueue(k, r)
    BY <1>1
  <2>2. cursor = None /\ cursor' = None
    BY <2>1 DEF Lines!Enqueue, Lines!calls, PhaseInv
  <2>3. Lines!Waiting = queues /\ Lines!Waiting' = queues'
    BY <2>2, LinesAssumption DEF Lines!Waiting, Lines!TypeOK, Lines!SchedulerAssumption
  <2>4. Lines!Fifo!Submit(k, r)
    BY <2>1, <2>3 DEF Lines!Enqueue, Lines!calls, Lines!Fifo!Submit
  <2> QED
    BY <2>1, <2>4 DEF Lines!Fifo!Next
<1>2. CASE \E k \in Keys : Lines!Complete(k)
  <2>1. PICK k \in Keys : Lines!Complete(k)
    BY <1>2
  <2>2. Lines!Waiting' = Lines!Waiting
    BY <2>1 DEF Lines!Complete, Lines!calls, Lines!Waiting
  <2>3. Lines!Fifo!Finish(k)
    BY <2>1, <2>2 DEF Lines!Complete, Lines!Fifo!Finish
  <2> QED
    BY <2>1, <2>3 DEF Lines!Fifo!Next
<1>3. CASE Lines!TakeQueued
  <2>1. Lines!Waiting' = [k \in Keys |-> <<>>] /\ UNCHANGED active
    BY <1>3, LinesAssumption
    DEF Lines!TakeQueued, Lines!calls, PhaseInv, Lines!Waiting, Lines!SchedulerAssumption
  <2> QED
    BY <2>1 DEF Lines!Fifo!WithdrawAll, Lines!Fifo!Next
<1>4. CASE Lines!TakeReady \/ Lines!ScanReturn \/ \E D \in SUBSET Payloads : Lines!TakeQueuedIf(D)
  BY <1>4 DEF Lines!TakeReady, Lines!ScanReturn, Lines!TakeQueuedIf, Lines!Waiting
<1>5. CASE Lines!ScanKey
  <2>1. PICK k \in Keys : k = Head(ready)
    BY <1>5, HeadTailProperties DEF Lines!TypeOK, Lines!ScanKey, Lines!ScanGoesOn
  <2>2. Lines!Waiting = queues /\ Lines!Waiting' = queues'
    <3>1. cursor = None /\ cursor' = None
      BY <1>5 DEF Lines!ScanKey, PhaseInv
    <3> QED
      BY <3>1, LinesAssumption DEF Lines!Waiting, Lines!TypeOK, Lines!SchedulerAssumption
  <2>3. CASE UNCHANGED <<queues, active>>
    BY <2>2, <2>3
  <2>4. CASE /\ active[k] = None /\ queues[k] # <<>>
             /\ Lines!AgreesWithActive(Head(queues[k]))
             /\ active' = [active EXCEPT ![k] = Head(queues[k])]
             /\ queues' = [queues EXCEPT ![k] = Tail(@)]
    <3>1. Lines!Fifo!RunningKeys = Lines!ActiveKeys /\ Cardinality(Lines!ActiveKeys) < MaxActiveKeys
      BY <1>5, LinesCount DEF Lines!ScanKey, Lines!ScanGoesOn, Lines!ActiveKeys,
                              Lines!Fifo!RunningKeys
    <3>2. \A j \in Lines!ActiveKeys : Lines!Fifo!Agrees(Head(queues[k]), active[j])
      BY <2>4 DEF Lines!AgreesWithActive, Lines!Agrees, Lines!Fifo!Agrees
    <3>3. Lines!Fifo!Cardinality(Lines!Fifo!RunningKeys) = Cardinality(Lines!ActiveKeys)
      BY <3>1 DEF Lines!Fifo!Cardinality, Cardinality
    <3>4. Lines!Fifo!Start(k)
      BY <2>2, <2>4, <3>1, <3>2, <3>3 DEF Lines!Fifo!Start
    <3> QED
      BY <3>4 DEF Lines!Fifo!Next
  <2> QED
    BY <1>5, <2>1, <2>3, <2>4 DEF Lines!ScanKey
<1>6. CASE Lines!FilterNextReady \/ \E k \in Keys : Lines!FilterNextActive(k)
  <2>1. Lines!Waiting' = Lines!Waiting
    <3>1. cursor = None /\ retained' = <<>> /\ queues' = queues /\ queues \in [Keys -> Seq(Payloads)]
      BY <1>6 DEF Lines!FilterNextReady, Lines!FilterNextActive, Lines!TypeOK
    <3>2. Lines!Waiting = queues
      BY <3>1, WaitingIdle
    <3>3. \A k \in Keys : retained' \o queues'[k] = queues[k]
      BY <3>1
    <3> QED
      BY <3>1, <3>2, <3>3 DEF Lines!Waiting
  <2> QED
    BY <1>6, <2>1 DEF Lines!FilterNextReady, Lines!FilterNextActive
<1>7. CASE Lines!FilterActiveKeys \/ Lines!FilterReturn
  BY <1>7 DEF Lines!FilterActiveKeys, Lines!FilterReturn, Lines!Waiting
<1>8. CASE Lines!FilterRequest
  <2>1. PICK k \in Keys : k = cursor
    BY <1>8 DEF Lines!FilterRequest, Lines!TypeOK
  <2>2. /\ queues[k] \in Seq(Payloads) /\ queues[k] # <<>> /\ retained \in Seq(Payloads)
        /\ queues' = [queues EXCEPT ![k] = Tail(@)] /\ cursor' = k
        /\ UNCHANGED active
    BY <1>8, <2>1 DEF Lines!FilterRequest, Lines!TypeOK
  <2>3. CASE retained' = Append(retained, Head(queues[k]))
    <3>1. retained' \o queues'[k] = retained \o queues[k]
      <4>1. queues'[k] = Tail(queues[k])
        BY <2>2 DEF Lines!TypeOK
      <4>2. \A s, q \in Seq(Payloads) :
              q # <<>> => Append(s, Head(q)) \o Tail(q) = s \o q
        BY MoveHead
      <4> QED
        BY <2>2, <2>3, <4>1, <4>2
    <3>2. Lines!Waiting' = Lines!Waiting
      BY <2>1, <2>2, <3>1 DEF Lines!Waiting, Lines!TypeOK
    <3> QED
      BY <2>2, <3>2
  <2>4. CASE retained' = retained
    <3>1. /\ retained' \o queues'[k] = Lines!Fifo!RemoveAt(retained \o queues[k], Len(retained) + 1)
          /\ Len(retained) + 1 \in 1..Len(retained \o queues[k])
      <4>1. queues'[k] = Tail(queues[k])
        BY <2>2 DEF Lines!TypeOK
      <4>2. \A s, q \in Seq(Payloads) :
              q # <<>> => /\ s \o Tail(q) = Lines!Fifo!RemoveAt(s \o q, Len(s) + 1)
                          /\ Len(s) + 1 \in 1..Len(s \o q)
        BY DropHead
      <4> QED
        BY <2>2, <2>4, <4>1, <4>2
    <3>2. /\ Lines!Waiting[k] = retained \o queues[k]
          /\ Lines!Waiting' = [Lines!Waiting EXCEPT ![k] = retained' \o queues'[k]]
      BY <2>1, <2>2 DEF Lines!Waiting, Lines!TypeOK
    <3>3. Lines!Fifo!Withdraw(k, Len(retained) + 1)
      BY <2>2, <3>1, <3>2 DEF Lines!Fifo!Withdraw
    <3> QED
      BY <3>1, <3>2, <3>3 DEF Lines!Fifo!Next
  <2> QED
    BY <1>8, <2>1, <2>3, <2>4 DEF Lines!FilterRequest
<1>9. CASE Lines!FilterStore
  <2>1. PICK k \in Keys : k = cursor
    BY <1>9 DEF Lines!FilterStore, Lines!TypeOK
  <2>2. /\ queues[k] = <<>> /\ retained \in Seq(Payloads)
        /\ queues' = [queues EXCEPT ![k] = retained] /\ cursor' = None
        /\ UNCHANGED active
    BY <1>9, <2>1 DEF Lines!FilterStore, Lines!TypeOK
  <2>3. retained \o queues[k] = retained
    BY <2>2
  <2>4. Lines!Waiting' = Lines!Waiting
    BY <2>1, <2>2, <2>3, LinesAssumption DEF Lines!Waiting, Lines!TypeOK,
                                             Lines!SchedulerAssumption
  <2> QED
    BY <2>2, <2>4
<1>10. CASE UNCHANGED Lines!vars
  BY <1>10 DEF Lines!vars, Lines!Waiting
<1> QED
  BY <1>1, <1>2, <1>3, <1>4, <1>5, <1>6, <1>7, <1>8, <1>9, <1>10 DEF Lines!Next, Lines!Filtering

(* The scheduler implements one FIFO line of requests per key. *)
THEOREM SchedulerImplementsFifo == Lines!Spec => ImplementsFifo
<1>1. SchedulerInv /\ SchedulerInv' /\ [Lines!Next]_(Lines!vars) => [Lines!Fifo!Next]_<<Lines!Waiting, active>>
  BY RefinementStep
<1> QED
  BY <1>1, RefinementInit, SchedulerInvariant, PTL
  DEF Lines!Spec, ImplementsFifo, Lines!ImplementsFifo, Lines!Fifo!Spec,
      Lines!Fifo!vars
==============================================================================
