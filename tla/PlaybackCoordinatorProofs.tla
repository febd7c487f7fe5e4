--------------------- MODULE PlaybackCoordinatorProofs ---------------------
(***************************************************************************)
(* Theorems about the preparation lane and the report lane of              *)
(* PlaybackCoordinator, and about the way of a report from the page to the *)
(* backend in PlaybackReporting, for every number of calls, transitions,   *)
(* report sessions and reports.                                            *)
(***************************************************************************)
EXTENDS PlaybackReporting, FiniteSetTheorems, SequenceTheorems, TLAPS

(* No call is in two places at once. *)
OnePlace ==
  /\ activePrepare # NoRequest =>
       /\ activePrepare \notin {queuedPrepare, afterStop}
       /\ activePrepare \notin timers
  /\ queuedPrepare # NoRequest =>
       /\ queuedPrepare # afterStop
       /\ queuedPrepare \notin timers
  /\ afterStop # NoRequest => afterStop \notin timers

HeldUnanswered == \A r \in Requests : Held(r) => outcome[r] = 0

FutureUnanswered == \A r \in Requests : called < r => outcome[r] = 0

(* Every call later than x is answered or is a switch that still waits. *)
NoneNewer(x) ==
  x # NoRequest =>
    \A r \in Requests : x < r /\ r <= called =>
      outcome[r] # 0 \/ r = afterStop \/ r \in timers

(* The request that runs is the newest of the lane and its answer would be    *)
(* accepted now; nothing behind it is newer than the lane's token; a live     *)
(* switch is newer than all of the lane; no token is live behind the fence.   *)
LaneIsNewest ==
  /\ activePrepare # NoRequest => Available /\ AcceptsLatest(activePrepare)
  /\ queuedPrepare # NoRequest => Available /\ queuedPrepare <= latest
  /\ afterStopSerial # NoRequest => latest < afterStopSerial
  /\ fenced => latest = NoRequest
  /\ NoneNewer(latest)
  /\ NoneNewer(afterStopSerial)

FenceStaysClosed == shuttingDown => fenced

Settlement ==
  /\ OnePlace
  /\ HeldUnanswered
  /\ FutureUnanswered
  /\ AnsweredOnce
  /\ NewestNeverLost

IInv == /\ FlagsTypeOK
        /\ CallsTypeOK
        /\ FenceStaysClosed
        /\ NothingCrossesFence
        /\ LaneIsNewest
        /\ ResultIsOfActive
        /\ Settlement
-----------------------------------------------------------------------------
LEMMA InitIInv == Init => IInv
<1> SUFFICES ASSUME Init PROVE IInv
  OBVIOUS
<1> USE PlaybackAssumption DEF Init, NoRequest, Requests
<1>1. FlagsTypeOK
  <2>1. session \in [generation : 0..MaxGeneration, connected : BOOLEAN]
    OBVIOUS
  <2>2. fenced \in BOOLEAN /\ shuttingDown \in BOOLEAN /\ prepareDone \in BOOLEAN
    OBVIOUS
  <2> QED BY <2>1, <2>2 DEF FlagsTypeOK
<1>2. CallsTypeOK
  BY DEF CallsTypeOK
<1>3. FenceStaysClosed /\ NothingCrossesFence /\ ResultIsOfActive
  BY DEF FenceStaysClosed, NothingCrossesFence, ResultIsOfActive
<1>4. LaneIsNewest
  BY DEF LaneIsNewest, NoneNewer
<1>5. Settlement
  BY DEF Settlement, OnePlace, HeldUnanswered, FutureUnanswered, AnsweredOnce,
         NewestNeverLost
<1> QED BY <1>1, <1>2, <1>3, <1>4, <1>5 DEF IInv

USE DEF NoRequest, Requests

(* prepareInContext, for a new call and for a timer whose serial is current. *)
LEMMA PrepareKeepsIInv ==
  ASSUME IInv, NEW r \in Requests, NEW v \in BOOLEAN,
         PrepareInContext(r, v),
         \/ r = called + 1 /\ called' = r /\ timers' = timers
         \/ r = afterStopSerial /\ r \in timers /\ timers' = timers \ {r} /\ called' = called
  PROVE  IInv'
<1> USE PlaybackAssumption DEF PrepareInContext, InvalidateAfterStop, sessionVars, laneVars
<1>1. /\ FlagsTypeOK /\ CallsTypeOK /\ FenceStaysClosed /\ NothingCrossesFence
      /\ LaneIsNewest /\ ResultIsOfActive /\ OnePlace /\ HeldUnanswered
      /\ FutureUnanswered /\ AnsweredOnce /\ NewestNeverLost
  BY DEF IInv, Settlement
<1>r. /\ r \notin {activePrepare, queuedPrepare, afterStop}
      /\ outcome[r] = 0
      /\ r \in 1..called' /\ called <= called' /\ called' \in 0..MaxRequests
  BY <1>1 DEF CallsTypeOK, LaneIsNewest, OnePlace, HeldUnanswered, FutureUnanswered, Held
<1>u. \A q \in {activePrepare, queuedPrepare, afterStop} :
         q # NoRequest => q \in Requests /\ outcome[q] = 0
  BY <1>1 DEF CallsTypeOK, HeldUnanswered, Held
<1>2. CASE ~(Available /\ v)
  <2>1. /\ Settle(r, afterStop, NoRequest)
        /\ UNCHANGED laneVars
    BY <1>2
  <2>2. /\ outcome' \in [Requests -> Nat]
        /\ \A q \in Requests :
             outcome'[q] = outcome[q] + Hit(r, q) + Hit(afterStop, q) + Hit(NoRequest, q)
    BY <1>1, <2>1 DEF Settle, Hit, CallsTypeOK
  <2>3. FlagsTypeOK'
    BY <1>1, <2>1 DEF FlagsTypeOK
  <2>4. CallsTypeOK'
    <3>2. timers' \subseteq 1..called'
      <4> SUFFICES ASSUME NEW t \in timers' PROVE t \in 1..called'
        OBVIOUS
      <4>1. t \in timers
        OBVIOUS
      <4> QED BY <1>1, <1>r, <4>1 DEF CallsTypeOK
    <3>3. /\ latest' \in 0..called' /\ latestGeneration' \in 0..MaxGeneration
          /\ activePrepare' \in 0..called' /\ queuedPrepare' \in 0..called'
          /\ prepareJob' \in 0..called'
          /\ afterStop' \in 0..called' /\ afterStopSerial' \in 0..called'
      BY <1>1, <1>r, <2>1 DEF CallsTypeOK
    <3> QED BY <1>r, <2>2, <3>2, <3>3 DEF CallsTypeOK
  <2>5. /\ FenceStaysClosed' /\ NothingCrossesFence' /\ ResultIsOfActive'
    BY <1>1, <2>1 DEF FenceStaysClosed, NothingCrossesFence, ResultIsOfActive
  <2>6. OnePlace' /\ HeldUnanswered' /\ FutureUnanswered' /\ AnsweredOnce' /\ NewestNeverLost'
    <3>1. OnePlace'
      BY <1>1, <2>1 DEF CallsTypeOK, OnePlace
    <3>2. HeldUnanswered'
      BY <1>1, <1>r, <2>1, <2>2 DEF CallsTypeOK, OnePlace, HeldUnanswered, Held, Hit
    <3>3. FutureUnanswered'
      BY <1>1, <2>1, <2>2 DEF CallsTypeOK, FutureUnanswered, Hit
    <3>4. AnsweredOnce'
      <4> SUFFICES ASSUME NEW q \in Requests PROVE outcome'[q] <= 1
        BY DEF AnsweredOnce
      <4>1. outcome[q] \in Nat /\ outcome[q] <= 1
        BY <1>1 DEF CallsTypeOK, AnsweredOnce
      <4>2. q \in {r, afterStop} => outcome[q] = 0
        BY <1>r, <1>u
      <4>3. /\ Hit(r, q) + Hit(afterStop, q) + Hit(NoRequest, q) \in {0, 1}
            /\ q \notin {r, afterStop} => Hit(r, q) + Hit(afterStop, q) + Hit(NoRequest, q) = 0
        BY <1>r DEF Hit
      <4> QED BY <2>2, <4>1, <4>2, <4>3 DEF Hit
    <3>5. NewestNeverLost'
      <4> SUFFICES ASSUME called' # 0, outcome'[called'] = 0, ~shuttingDown'
                   PROVE  Held(called)'
        BY DEF NewestNeverLost
      <4>1. called' \in Requests
        BY <1>r
      <4>2. outcome[called'] = 0 /\ called' \notin {r, afterStop}
        <5>1. outcome[called'] \in Nat
          BY <1>1, <4>1 DEF CallsTypeOK
        <5> QED BY <2>2, <4>1, <5>1 DEF Hit
      <4>3. called' = called /\ ~shuttingDown
        BY <4>2
      <4>4. Held(called)
        BY <1>1, <4>2, <4>3 DEF NewestNeverLost
      <4> QED BY <2>1, <4>2, <4>3, <4>4 DEF Held
    <3> QED BY <3>1, <3>2, <3>3, <3>4, <3>5
  <2>7. LaneIsNewest'
    BY <1>1, <2>1, <2>2
    DEF CallsTypeOK, LaneIsNewest, NoneNewer, Available, AcceptsLatest, Hit
  <2> QED BY <2>3, <2>4, <2>5, <2>6, <2>7 DEF IInv, Settlement
<1>3. CASE Available /\ v /\ (activePrepare # NoRequest \/ PrepareRunning)
  <2>1. /\ latest' = r /\ latestGeneration' = session.generation
        /\ activePrepare' = NoRequest
        /\ queuedPrepare' = r
        /\ UNCHANGED <<prepareJob, prepareDone>>
        /\ Settle(afterStop, activePrepare, queuedPrepare)
    BY <1>3 DEF SubmitPrepare
  <2>2. /\ outcome' \in [Requests -> Nat]
        /\ \A q \in Requests :
             outcome'[q] = outcome[q] + Hit(afterStop, q) + Hit(activePrepare, q) + Hit(queuedPrepare, q)
    BY <1>1, <2>1 DEF Settle, Hit, CallsTypeOK
  <2>3. FlagsTypeOK'
    BY <1>1, <2>1 DEF FlagsTypeOK
  <2>4. CallsTypeOK'
    <3>2. timers' \subseteq 1..called'
      <4> SUFFICES ASSUME NEW t \in timers' PROVE t \in 1..called'
        OBVIOUS
      <4>1. t \in timers
        OBVIOUS
      <4> QED BY <1>1, <1>r, <4>1 DEF CallsTypeOK
    <3>3. session.generation \in 0..MaxGeneration
      BY <1>1 DEF FlagsTypeOK
    <3>4. /\ latest' \in 0..called' /\ latestGeneration' \in 0..MaxGeneration
          /\ activePrepare' \in 0..called' /\ queuedPrepare' \in 0..called'
          /\ prepareJob' \in 0..called'
          /\ afterStop' \in 0..called' /\ afterStopSerial' \in 0..called'
      BY <1>1, <1>r, <2>1, <3>3 DEF CallsTypeOK
    <3> QED BY <1>r, <2>2, <3>2, <3>4 DEF CallsTypeOK
  <2>5. /\ FenceStaysClosed' /\ NothingCrossesFence' /\ ResultIsOfActive'
    BY <1>1, <1>3, <2>1 DEF FenceStaysClosed, NothingCrossesFence, ResultIsOfActive, Available
  <2>6. OnePlace' /\ HeldUnanswered' /\ FutureUnanswered' /\ AnsweredOnce' /\ NewestNeverLost'
    <3>1. OnePlace'
      BY <1>1, <2>1 DEF CallsTypeOK, OnePlace
    <3>2. HeldUnanswered'
      <4> SUFFICES ASSUME NEW q \in Requests, q = r \/ q \in timers'
                   PROVE  outcome'[q] = 0
        BY <2>1 DEF HeldUnanswered, Held
      <4>1. q \notin {activePrepare, queuedPrepare, afterStop} /\ outcome[q] = 0
        BY <1>1, <1>r DEF OnePlace, HeldUnanswered, Held
      <4> QED BY <2>2, <4>1 DEF Hit
    <3>3. FutureUnanswered'
      BY <1>1, <2>1, <2>2 DEF CallsTypeOK, FutureUnanswered, Hit
    <3>4. AnsweredOnce'
      <4> SUFFICES ASSUME NEW q \in Requests PROVE outcome'[q] <= 1
        BY DEF AnsweredOnce
      <4>1. CASE q \in {activePrepare, queuedPrepare, afterStop}
        <5>1. outcome[q] = 0
          BY <1>u, <4>1
        <5>2. Hit(afterStop, q) + Hit(activePrepare, q) + Hit(queuedPrepare, q) = 1
          BY <1>1, <4>1 DEF OnePlace, Hit, CallsTypeOK
        <5> QED BY <1>1, <2>2, <5>1, <5>2 DEF CallsTypeOK, Hit
      <4>2. CASE q \notin {activePrepare, queuedPrepare, afterStop}
        BY <1>1, <2>2, <4>2 DEF AnsweredOnce, CallsTypeOK, Hit
      <4> QED BY <4>1, <4>2
    <3>5. NewestNeverLost'
      BY <1>1, <2>1, <2>2 DEF CallsTypeOK, NewestNeverLost, Held, Hit
    <3> QED BY <3>1, <3>2, <3>3, <3>4, <3>5
  <2>7. LaneIsNewest'
    <3>1. Available'
      BY <1>3 DEF Available
    <3>2. NoneNewer(latest)'
      <4> SUFFICES ASSUME NEW q \in Requests, r < q, q <= called'
                   PROVE  outcome'[q] # 0 \/ q = afterStop' \/ q \in timers'
        BY <2>1 DEF NoneNewer
      <4>1. r = afterStopSerial /\ timers' = timers \ {r} /\ called' = called
        BY <1>1 DEF CallsTypeOK
      <4>2. outcome[q] # 0 \/ q = afterStop \/ q \in timers
        BY <1>1, <4>1 DEF LaneIsNewest, NoneNewer
      <4>3. outcome[q] \in Nat /\ outcome'[q] >= outcome[q] /\ (q = afterStop => outcome'[q] # 0)
        <5>1. /\ Hit(activePrepare, q) \in {0, 1} /\ Hit(queuedPrepare, q) \in {0, 1}
              /\ Hit(afterStop, q) \in {0, 1} /\ (q = afterStop => Hit(afterStop, q) = 1)
          BY DEF Hit
        <5>2. outcome[q] \in Nat
          BY <1>1 DEF CallsTypeOK
        <5> QED BY <2>2, <5>1, <5>2
      <4> QED BY <1>r, <4>1, <4>2, <4>3
    <3>3. ~ fenced'
      BY <3>1 DEF Available
    <3> QED BY <1>1, <1>r, <2>1, <3>1, <3>2, <3>3 DEF LaneIsNewest, NoneNewer, CallsTypeOK
  <2> QED BY <2>3, <2>4, <2>5, <2>6, <2>7 DEF IInv, Settlement
<1>4. CASE Available /\ v /\ activePrepare = NoRequest /\ ~PrepareRunning
  <2>1. /\ latest' = r /\ latestGeneration' = session.generation
        /\ activePrepare' = r /\ prepareJob' = r /\ prepareDone' = FALSE
        /\ UNCHANGED queuedPrepare
        /\ Settle(afterStop, NoRequest, NoRequest)
    BY <1>4 DEF SubmitPrepare, StartPrepare
  <2>2. /\ outcome' \in [Requests -> Nat]
        /\ \A q \in Requests : outcome'[q] = outcome[q] + Hit(afterStop, q)
    BY <1>1, <2>1 DEF Settle, Hit, CallsTypeOK
  <2>3. FlagsTypeOK'
    BY <1>1, <2>1 DEF FlagsTypeOK
  <2>4. CallsTypeOK'
    <3>2. timers' \subseteq 1..called'
      <4> SUFFICES ASSUME NEW t \in timers' PROVE t \in 1..called'
        OBVIOUS
      <4>1. t \in timers
        OBVIOUS
      <4> QED BY <1>1, <1>r, <4>1 DEF CallsTypeOK
    <3>3. session.generation \in 0..MaxGeneration
      BY <1>1 DEF FlagsTypeOK
    <3>4. /\ latest' \in 0..called' /\ latestGeneration' \in 0..MaxGeneration
          /\ activePrepare' \in 0..called' /\ queuedPrepare' \in 0..called'
          /\ prepareJob' \in 0..called'
          /\ afterStop' \in 0..called' /\ afterStopSerial' \in 0..called'
      BY <1>1, <1>r, <2>1, <3>3 DEF CallsTypeOK
    <3> QED BY <1>r, <2>2, <3>2, <3>4 DEF CallsTypeOK
  <2>5. /\ FenceStaysClosed' /\ NothingCrossesFence' /\ ResultIsOfActive'
    BY <1>1, <1>4, <2>1 DEF FenceStaysClosed, NothingCrossesFence, ResultIsOfActive, Available
  <2>6. OnePlace' /\ HeldUnanswered' /\ FutureUnanswered' /\ AnsweredOnce' /\ NewestNeverLost'
    <3>1. OnePlace'
      BY <1>1, <1>r, <2>1 DEF CallsTypeOK, OnePlace
    <3>2. HeldUnanswered'
      <4> SUFFICES ASSUME NEW q \in Requests, q = r \/ q = queuedPrepare \/ q \in timers'
                   PROVE  outcome'[q] = 0
        BY <2>1 DEF HeldUnanswered, Held
      <4>1. q # afterStop /\ outcome[q] = 0
        BY <1>1, <1>r DEF OnePlace, HeldUnanswered, Held
      <4> QED BY <2>2, <4>1 DEF Hit
    <3>3. FutureUnanswered'
      BY <1>1, <2>1, <2>2 DEF CallsTypeOK, FutureUnanswered, Hit
    <3>4. AnsweredOnce'
      <4> SUFFICES ASSUME NEW q \in Requests PROVE outcome'[q] <= 1
        BY DEF AnsweredOnce
      <4> QED BY <1>1, <1>u, <2>2 DEF AnsweredOnce, CallsTypeOK, Hit
    <3>5. NewestNeverLost'
      <4> SUFFICES ASSUME called' # 0, outcome'[called'] = 0, ~shuttingDown', called' # r
                   PROVE  called' = queuedPrepare' \/ called' \in timers'
        BY <2>1 DEF NewestNeverLost, Held
      <4>1. called' = called /\ called \in Requests /\ timers' = timers \ {r}
        BY <1>1 DEF CallsTypeOK
      <4>2. outcome[called] = 0 /\ called # afterStop
        BY <1>1, <2>2, <4>1 DEF CallsTypeOK, Hit
      <4> QED BY <1>1, <1>4, <2>1, <4>1, <4>2 DEF NewestNeverLost, Held
    <3> QED BY <3>1, <3>2, <3>3, <3>4, <3>5
  <2>7. LaneIsNewest'
    <3>1. Available'
      BY <1>4 DEF Available
    <3>2. NoneNewer(latest)'
      <4> SUFFICES ASSUME NEW q \in Requests, r < q, q <= called'
                   PROVE  outcome'[q] # 0 \/ q = afterStop' \/ q \in timers'
        BY <2>1 DEF NoneNewer
      <4>1. r = afterStopSerial /\ timers' = timers \ {r} /\ called' = called
        BY <1>1 DEF CallsTypeOK
      <4>2. outcome[q] # 0 \/ q = afterStop \/ q \in timers
        BY <1>1, <4>1 DEF LaneIsNewest, NoneNewer
      <4>3. outcome[q] \in Nat /\ outcome'[q] >= outcome[q] /\ (q = afterStop => outcome'[q] # 0)
        BY <1>1, <2>2 DEF CallsTypeOK, Hit
      <4> QED BY <1>r, <4>1, <4>2, <4>3
    <3>3. ~ fenced'
      BY <3>1 DEF Available
    <3>4. AcceptsLatest(activePrepare)'
      BY <2>1 DEF AcceptsLatest
    <3>5. queuedPrepare' <= latest'
      BY <1>1, <1>r, <2>1 DEF LaneIsNewest, CallsTypeOK
    <3> QED BY <2>1, <3>1, <3>2, <3>3, <3>4, <3>5 DEF LaneIsNewest, NoneNewer
  <2> QED BY <2>3, <2>4, <2>5, <2>6, <2>7 DEF IInv, Settlement
<1> QED BY <1>2, <1>3, <1>4

(* resetPreparation: cancelation, the fence and shutdown. *)
LEMMA ResetKeepsIInv ==
  ASSUME IInv, ResetPreparation, called' = called, session' = session,
         shuttingDown => shuttingDown', FlagsTypeOK', FenceStaysClosed'
  PROVE  IInv'
<1> USE PlaybackAssumption DEF ResetPreparation, InvalidateAfterStop
<1>1. /\ FlagsTypeOK /\ CallsTypeOK /\ LaneIsNewest /\ OnePlace /\ HeldUnanswered
      /\ FutureUnanswered /\ AnsweredOnce /\ NewestNeverLost
  BY DEF IInv, Settlement
<1>2. /\ outcome' \in [Requests -> Nat]
      /\ \A q \in Requests :
           outcome'[q] = outcome[q] + Hit(afterStop, q) + Hit(queuedPrepare, q)
                         + Hit(activePrepare, q)
  BY <1>1 DEF Settle, Hit, CallsTypeOK
<1>3. CallsTypeOK'
  BY <1>1, <1>2 DEF CallsTypeOK
<1>4. /\ NothingCrossesFence' /\ ResultIsOfActive' /\ LaneIsNewest'
  BY DEF NothingCrossesFence, ResultIsOfActive, LaneIsNewest, NoneNewer
<1>5. OnePlace' /\ HeldUnanswered' /\ FutureUnanswered'
  <2>1. OnePlace'
    BY DEF OnePlace
  <2>2. HeldUnanswered'
    <3> SUFFICES ASSUME NEW q \in Requests, q \in timers PROVE outcome'[q] = 0
      BY DEF HeldUnanswered, Held
    <3>1. q \notin {activePrepare, queuedPrepare, afterStop} /\ outcome[q] = 0
      BY <1>1 DEF OnePlace, HeldUnanswered, Held
    <3> QED BY <1>2, <3>1 DEF Hit
  <2>3. FutureUnanswered'
    BY <1>1, <1>2 DEF CallsTypeOK, FutureUnanswered, Hit
  <2> QED BY <2>1, <2>2, <2>3
<1>6. AnsweredOnce' /\ NewestNeverLost'
  <2>1. ASSUME NEW q \in Requests, q \in {activePrepare, queuedPrepare, afterStop}
        PROVE  outcome[q] = 0 /\ outcome'[q] = 1
    <3>1. outcome[q] = 0
      BY <1>1, <2>1 DEF HeldUnanswered, Held
    <3>2. Hit(afterStop, q) + Hit(queuedPrepare, q) + Hit(activePrepare, q) = 1
      BY <1>1, <2>1 DEF OnePlace, Hit, CallsTypeOK
    <3> QED BY <1>2, <3>1, <3>2 DEF Hit
  <2>2. ASSUME NEW q \in Requests, q \notin {activePrepare, queuedPrepare, afterStop}
        PROVE  outcome'[q] = outcome[q]
    BY <1>1, <1>2, <2>2 DEF CallsTypeOK, Hit
  <2>3. AnsweredOnce'
    BY <1>1, <2>1, <2>2 DEF AnsweredOnce
  <2>4. NewestNeverLost'
    <3> SUFFICES ASSUME called # 0, outcome'[called] = 0, ~shuttingDown'
                 PROVE  called \in timers
      BY DEF NewestNeverLost, Held
    <3>1. called \in Requests /\ ~shuttingDown
      BY <1>1 DEF CallsTypeOK
    <3>2. called \notin {activePrepare, queuedPrepare, afterStop} /\ outcome[called] = 0
      BY <2>1, <2>2, <3>1
    <3> QED BY <1>1, <3>1, <3>2 DEF NewestNeverLost, Held
  <2> QED BY <2>3, <2>4
<1> QED BY <1>3, <1>4, <1>5, <1>6 DEF IInv, Settlement

(* What the properties of the lane do not look at. *)
LEMMA OtherStepsKeepIInv ==
  ASSUME IInv, UNCHANGED <<session, fenced, shuttingDown, called, latest,
           latestGeneration, activePrepare, queuedPrepare, prepareJob, afterStop,
           afterStopSerial, timers, outcome>>,
         prepareDone' \in BOOLEAN
  PROVE  IInv'
<1>1. FlagsTypeOK' /\ CallsTypeOK'
  BY DEF IInv, FlagsTypeOK, CallsTypeOK
<1>2. FenceStaysClosed' /\ NothingCrossesFence' /\ ResultIsOfActive'
  BY DEF IInv, FenceStaysClosed, NothingCrossesFence, ResultIsOfActive
<1>3. LaneIsNewest'
  BY DEF IInv, LaneIsNewest, NoneNewer, Available, AcceptsLatest
<1>4. Settlement'
  BY DEF IInv, Settlement, OnePlace, HeldUnanswered, FutureUnanswered, AnsweredOnce,
         NewestNeverLost, Held
<1> QED BY <1>1, <1>2, <1>3, <1>4 DEF IInv

LEMMA SwitchKeepsIInv ==
  ASSUME IInv, NEW v \in BOOLEAN, SwitchTo(v)
  PROVE  IInv'
<1> USE PlaybackAssumption DEF SwitchTo, sessionVars, laneVars, switchVars
<1>1. /\ FlagsTypeOK /\ CallsTypeOK /\ FenceStaysClosed /\ NothingCrossesFence
      /\ LaneIsNewest /\ ResultIsOfActive /\ OnePlace /\ HeldUnanswered
      /\ FutureUnanswered /\ AnsweredOnce /\ NewestNeverLost
  BY DEF IInv, Settlement
<1>2. /\ called + 1 \in Requests /\ called' = called + 1 /\ called \in 0..MaxRequests
      /\ called + 1 \notin timers /\ outcome[called + 1] = 0
      /\ called + 1 \notin {activePrepare, queuedPrepare, afterStop, NoRequest}
  BY <1>1 DEF CallsTypeOK, FutureUnanswered
<1>3. FlagsTypeOK'
  BY <1>1 DEF FlagsTypeOK
<1>4. FenceStaysClosed' /\ ResultIsOfActive'
  BY <1>1 DEF FenceStaysClosed, ResultIsOfActive
<1>5. CASE ~(Available /\ v)
  <2>1. /\ UNCHANGED switchVars
        /\ Settle(called + 1, NoRequest, NoRequest)
    BY <1>5
  <2>2. /\ outcome' \in [Requests -> Nat]
        /\ outcome'[called + 1] = 1
        /\ \A q \in Requests : q # called + 1 => outcome'[q] = outcome[q]
    BY <1>1, <1>2, <2>1 DEF Settle, Hit, CallsTypeOK
  <2>3. CallsTypeOK'
    <3>1. timers' \subseteq 1..called'
      BY <1>1, <1>2, <2>1 DEF CallsTypeOK
    <3> QED BY <1>1, <1>2, <2>1, <2>2, <3>1 DEF CallsTypeOK
  <2>4. NothingCrossesFence' /\ OnePlace'
    BY <1>1, <2>1 DEF NothingCrossesFence, OnePlace
  <2>5. LaneIsNewest'
    BY <1>1, <1>2, <2>1, <2>2 DEF LaneIsNewest, NoneNewer, Available, AcceptsLatest, CallsTypeOK
  <2>6. HeldUnanswered' /\ FutureUnanswered' /\ AnsweredOnce' /\ NewestNeverLost'
    BY <1>1, <1>2, <2>1, <2>2
    DEF HeldUnanswered, FutureUnanswered, AnsweredOnce, NewestNeverLost, Held, CallsTypeOK
  <2> QED BY <1>3, <1>4, <2>3, <2>4, <2>5, <2>6 DEF IInv, Settlement
<1>6. CASE Available /\ v
  <2>1. /\ afterStopSerial' = called + 1
        /\ Settle(afterStop, NoRequest, NoRequest)
        /\ \/ afterStop' = called + 1 /\ timers' = timers
           \/ afterStop' = NoRequest /\ timers' = timers \cup {called + 1}
    BY <1>6
  <2>2. /\ outcome' \in [Requests -> Nat]
        /\ \A q \in Requests :
             /\ q # afterStop => outcome'[q] = outcome[q]
             /\ q = afterStop => outcome'[q] = outcome[q] + 1
    <3>1. afterStop \in Nat /\ outcome \in [Requests -> Nat]
      BY <1>1 DEF CallsTypeOK
    <3>2. outcome' = [q \in Requests |-> outcome[q] + Hit(afterStop, q)
                                         + Hit(NoRequest, q) + Hit(NoRequest, q)]
      BY <2>1 DEF Settle
    <3>3. \A q \in Requests : /\ Hit(NoRequest, q) = 0
                              /\ q # afterStop => Hit(afterStop, q) = 0
                              /\ q = afterStop => Hit(afterStop, q) = 1
      BY DEF Hit
    <3> QED BY <3>1, <3>2, <3>3
  <2>3. CallsTypeOK'
    <3>1. timers' \subseteq 1..called'
      <4> SUFFICES ASSUME NEW t \in timers' PROVE t \in 1..called'
        OBVIOUS
      <4>1. t \in timers \/ t = called + 1
        BY <2>1
      <4>2. t \in 1..called \/ t = called + 1
        BY <1>1, <4>1 DEF CallsTypeOK
      <4> HIDE DEF SwitchTo
      <4> QED BY <1>2, <4>2
    <3> QED BY <1>1, <1>2, <2>1, <2>2, <3>1 DEF CallsTypeOK
  <2>4. ~fenced /\ ~fenced' /\ Available'
    BY <1>6 DEF Available
  <2>5. NothingCrossesFence'
    BY <1>1, <2>4 DEF NothingCrossesFence
  <2>6. LaneIsNewest'
    <3>1. NoneNewer(latest)'
      <4> SUFFICES ASSUME latest # NoRequest, NEW q \in Requests, latest < q, q <= called'
                   PROVE  outcome'[q] # 0 \/ q = afterStop' \/ q \in timers'
        BY DEF NoneNewer
      <4>1. CASE q = called + 1
        BY <2>1, <4>1
      <4>2. CASE q # called + 1
        <5>1. q <= called
          BY <1>2, <4>2
        <5>2. outcome[q] # 0 \/ q = afterStop \/ q \in timers
          BY <1>1, <5>1 DEF LaneIsNewest, NoneNewer
        <5>3. outcome[q] \in Nat
          BY <1>1 DEF CallsTypeOK
        <5> QED BY <2>1, <2>2, <5>2, <5>3
      <4> QED BY <4>1, <4>2
    <3>2. NoneNewer(afterStopSerial)'
      BY <1>2, <2>1 DEF NoneNewer
    <3>3. latest' < afterStopSerial'
      BY <1>1, <1>2, <2>1 DEF CallsTypeOK
    <3>4. /\ activePrepare' # NoRequest => AcceptsLatest(activePrepare)'
          /\ queuedPrepare' # NoRequest => queuedPrepare' <= latest'
      BY <1>1 DEF LaneIsNewest, AcceptsLatest
    <3> QED BY <2>4, <3>1, <3>2, <3>3, <3>4 DEF LaneIsNewest
  <2>7. OnePlace'
    BY <1>1, <1>2, <2>1 DEF OnePlace
  <2>8. HeldUnanswered'
    <3> SUFFICES ASSUME NEW q \in Requests, Held(q)' PROVE outcome'[q] = 0
      BY DEF HeldUnanswered
    <3>1. q = called + 1 \/ q \in {activePrepare, queuedPrepare} \cup timers
      BY <2>1 DEF Held
    <3>2. q # afterStop /\ outcome[q] = 0
      BY <1>1, <1>2, <3>1 DEF OnePlace, HeldUnanswered, Held
    <3> QED BY <2>2, <3>2
  <2>9. FutureUnanswered' /\ NewestNeverLost'
    BY <1>1, <1>2, <2>1, <2>2 DEF FutureUnanswered, NewestNeverLost, Held, CallsTypeOK
  <2>10. AnsweredOnce'
    BY <1>1, <2>2 DEF AnsweredOnce, HeldUnanswered, Held, CallsTypeOK
  <2> QED BY <1>3, <1>4, <2>3, <2>5, <2>6, <2>7, <2>8, <2>9, <2>10 DEF IInv, Settlement
<1> QED BY <1>5, <1>6

LEMMA FinishPrepareKeepsIInv ==
  ASSUME IInv, FinishPrepare
  PROVE  IInv'
<1> USE PlaybackAssumption DEF FinishPrepare, sessionVars, switchVars
<1>1. /\ FlagsTypeOK /\ CallsTypeOK /\ FenceStaysClosed /\ NothingCrossesFence
      /\ LaneIsNewest /\ ResultIsOfActive /\ OnePlace /\ HeldUnanswered
      /\ FutureUnanswered /\ AnsweredOnce /\ NewestNeverLost
  BY DEF IInv, Settlement
(* Its answer is always accepted: the reset of a lane empties m_activePrepare. *)
<1>2. /\ outcome' \in [Requests -> Nat]
      /\ \A q \in Requests :
           /\ q # activePrepare => outcome'[q] = outcome[q]
           /\ q = activePrepare => outcome'[q] = outcome[q] + 1
  <2>1. activePrepare \in Nat /\ outcome \in [Requests -> Nat]
    BY <1>1 DEF CallsTypeOK
  <2>2. \A q \in Requests : /\ Hit(NoRequest, q) = 0
                            /\ q # activePrepare => Hit(activePrepare, q) = 0
                            /\ q = activePrepare => Hit(activePrepare, q) = 1
    BY DEF Hit
  <2>3. CASE Available /\ AcceptsLatest(activePrepare)
    <3>1. outcome' = [q \in Requests |-> outcome[q] + Hit(activePrepare, q)
                                         + Hit(NoRequest, q) + Hit(NoRequest, q)]
      BY <2>3 DEF Settle
    <3> QED BY <2>1, <2>2, <3>1
  <2>4. CASE ~(Available /\ AcceptsLatest(activePrepare))
    <3>1. activePrepare = NoRequest
      BY <1>1, <2>4 DEF LaneIsNewest
    <3> QED BY <2>1, <2>4, <3>1
  <2> QED BY <2>3, <2>4
<1>3. \/ /\ queuedPrepare' = NoRequest /\ queuedPrepare # NoRequest
         /\ Available /\ AcceptsLatest(queuedPrepare)
         /\ activePrepare' = queuedPrepare /\ prepareJob' = queuedPrepare
         /\ prepareDone' = FALSE
      \/ /\ queuedPrepare' = NoRequest /\ queuedPrepare # NoRequest
         /\ ~(Available /\ AcceptsLatest(queuedPrepare))
         /\ activePrepare' = NoRequest
         /\ prepareJob' = NoRequest /\ prepareDone' = FALSE
      \/ /\ queuedPrepare' = queuedPrepare
         /\ activePrepare' = NoRequest
         /\ prepareJob' = NoRequest /\ prepareDone' = FALSE
  BY DEF StartPrepare
<1>4. FlagsTypeOK'
  BY <1>1, <1>3 DEF FlagsTypeOK
<1>5. CallsTypeOK'
  <2>1. CallsTypeOK /\ outcome' \in [Requests -> Nat]
    BY <1>1, <1>2
  <2>2. UNCHANGED <<called, latest, latestGeneration, afterStop, afterStopSerial, timers>>
    OBVIOUS
  <2>3. {activePrepare', queuedPrepare', prepareJob'} \subseteq {queuedPrepare, NoRequest}
    BY <1>3
  <2> QED
    BY <2>1, <2>2, <2>3 DEF CallsTypeOK
<1>6. FenceStaysClosed' /\ NothingCrossesFence' /\ ResultIsOfActive'
  BY <1>1, <1>3 DEF FenceStaysClosed, NothingCrossesFence, ResultIsOfActive
<1>7. LaneIsNewest'
  <2>1. NoneNewer(latest)' /\ NoneNewer(afterStopSerial)'
    <3>1. \A q \in Requests : outcome[q] # 0 => outcome'[q] # 0
      BY <1>1, <1>2 DEF CallsTypeOK
    <3> QED BY <1>1, <3>1 DEF LaneIsNewest, NoneNewer
  <2>2. activePrepare' # NoRequest => Available' /\ AcceptsLatest(activePrepare)'
    BY <1>3 DEF Available, AcceptsLatest
  <2>3. queuedPrepare' # NoRequest => Available' /\ queuedPrepare' <= latest'
    BY <1>1, <1>3 DEF LaneIsNewest, Available
  <2> QED BY <1>1, <2>1, <2>2, <2>3 DEF LaneIsNewest
<1>8. OnePlace' /\ HeldUnanswered' /\ FutureUnanswered' /\ AnsweredOnce'
  <2>1. OnePlace'
    BY <1>1, <1>3 DEF OnePlace
  <2>2. HeldUnanswered'
    BY <1>1, <1>2, <1>3 DEF HeldUnanswered, OnePlace, Held
  <2>3. FutureUnanswered'
    BY <1>1, <1>2 DEF FutureUnanswered, CallsTypeOK
  <2>4. AnsweredOnce'
    BY <1>1, <1>2 DEF AnsweredOnce, HeldUnanswered, Held, CallsTypeOK
  <2> QED BY <2>1, <2>2, <2>3, <2>4
<1>9. NewestNeverLost'
  <2> SUFFICES ASSUME called # 0, outcome'[called] = 0, ~shuttingDown
               PROVE  Held(called)'
    BY DEF NewestNeverLost
  <2>1. called \in Requests
    BY <1>1 DEF CallsTypeOK
  <2>2. outcome[called] = 0 /\ called # activePrepare
    BY <1>1, <1>2, <2>1 DEF CallsTypeOK
  <2>3. called \in {queuedPrepare, afterStop} \cup timers
    BY <1>1, <2>2 DEF NewestNeverLost, Held
  (* The newest call in the queue still holds the token of the lane. *)
  <2>4. called = queuedPrepare => Available /\ AcceptsLatest(queuedPrepare)
    BY <1>1 DEF LaneIsNewest, CallsTypeOK, AcceptsLatest, NothingCrossesFence
  <2> QED BY <1>3, <2>1, <2>3, <2>4 DEF Held
<1> QED BY <1>4, <1>5, <1>6, <1>7, <1>8, <1>9 DEF IInv, Settlement

LEMMA TimerKeepsIInv ==
  ASSUME IInv, NEW r \in Requests, AfterStopTimer(r)
  PROVE  IInv'
<1> USE PlaybackAssumption
<1>1. /\ FlagsTypeOK /\ CallsTypeOK /\ FenceStaysClosed /\ NothingCrossesFence
      /\ LaneIsNewest /\ ResultIsOfActive /\ OnePlace /\ HeldUnanswered
      /\ FutureUnanswered /\ AnsweredOnce /\ NewestNeverLost
  BY DEF IInv, Settlement
<1>2. r \in timers /\ timers' = timers \ {r} /\ called' = called
  BY DEF AfterStopTimer
<1>3. CASE PrepareInContext(r, TRUE) /\ r = afterStopSerial
  BY <1>2, <1>3, PrepareKeepsIInv
<1>4. CASE /\ UNCHANGED <<session, fenced, shuttingDown, latest, latestGeneration,
                         activePrepare, queuedPrepare, prepareJob, prepareDone,
                         afterStop, afterStopSerial>>
           /\ \/ /\ Settle(r, NoRequest, NoRequest)
              \/ /\ UNCHANGED outcome
                 /\ shuttingDown
  <2>1. /\ outcome' \in [Requests -> Nat]
        /\ \A q \in Requests : q # r => outcome'[q] = outcome[q]
        /\ outcome'[r] = outcome[r] + 1 \/ (outcome'[r] = outcome[r] /\ shuttingDown)
    <3>1. CASE UNCHANGED outcome /\ shuttingDown
      BY <1>1, <3>1 DEF CallsTypeOK
    <3>2. CASE Settle(r, NoRequest, NoRequest)
      <4>1. outcome' = [q \in Requests |-> outcome[q] + Hit(r, q)
                                           + Hit(NoRequest, q) + Hit(NoRequest, q)]
        BY <3>2 DEF Settle
      <4>2. \A q \in Requests : /\ Hit(NoRequest, q) = 0
                                /\ q # r => Hit(r, q) = 0
                                /\ q = r => Hit(r, q) = 1
        BY DEF Hit
      <4>3. outcome \in [Requests -> Nat]
        BY <1>1 DEF CallsTypeOK
      <4> QED BY <4>1, <4>2, <4>3
    <3> QED BY <1>4, <3>1, <3>2
  <2>2. outcome[r] = 0 /\ r \notin {activePrepare, queuedPrepare, afterStop}
    BY <1>1, <1>2 DEF HeldUnanswered, OnePlace, Held
  <2>3. FlagsTypeOK'
    BY <1>1, <1>4 DEF FlagsTypeOK
  <2>4. CallsTypeOK'
    <3>1. timers' \subseteq 1..called'
      BY <1>1, <1>2 DEF CallsTypeOK
    <3> QED BY <1>1, <1>2, <1>4, <2>1, <3>1 DEF CallsTypeOK
  <2>5. FenceStaysClosed' /\ NothingCrossesFence' /\ ResultIsOfActive'
    BY <1>1, <1>4 DEF FenceStaysClosed, NothingCrossesFence, ResultIsOfActive
  <2>6. LaneIsNewest'
    <3>1. NoneNewer(latest)' /\ NoneNewer(afterStopSerial)'
      <4>1. CASE shuttingDown
        BY <1>1, <1>4, <4>1 DEF FenceStaysClosed, NothingCrossesFence, LaneIsNewest, NoneNewer
      <4>2. CASE ~shuttingDown
        <5>1. \A q \in Requests : outcome[q] # 0 \/ q = r => outcome'[q] # 0
          BY <1>1, <2>1, <4>2 DEF CallsTypeOK
        <5> QED BY <1>1, <1>2, <1>4, <5>1 DEF LaneIsNewest, NoneNewer
      <4> QED BY <4>1, <4>2
    <3> QED BY <1>1, <1>4, <3>1 DEF LaneIsNewest, Available, AcceptsLatest
  <2>7. OnePlace' /\ HeldUnanswered' /\ FutureUnanswered'
    BY <1>1, <1>2, <1>4, <2>1, <2>2
    DEF OnePlace, HeldUnanswered, FutureUnanswered, Held, CallsTypeOK
  <2>8. AnsweredOnce'
    BY <1>1, <2>1, <2>2 DEF AnsweredOnce, CallsTypeOK
  <2>9. NewestNeverLost'
    <3> SUFFICES ASSUME called # 0, outcome'[called] = 0, ~shuttingDown
                 PROVE  Held(called)'
      BY <1>2, <1>4 DEF NewestNeverLost
    <3>1. called \in Requests
      BY <1>1 DEF CallsTypeOK
    <3>2. called # r
      BY <2>1, <2>2, <3>1
    <3> QED BY <1>1, <1>2, <1>4, <2>1, <3>1, <3>2 DEF NewestNeverLost, Held
  <2> QED BY <2>3, <2>4, <2>5, <2>6, <2>7, <2>8, <2>9 DEF IInv, Settlement
<1>5. ~(fenced /\ r = afterStopSerial)
  BY <1>1 DEF NothingCrossesFence
<1> QED BY <1>3, <1>4, <1>5
        DEF AfterStopTimer, sessionVars, laneVars, NothingCrossesFence

LEMMA FinishReportKeepsIInv ==
  ASSUME IInv, FinishReport
  PROVE  IInv'
<1>1. CASE ~ReleasesSwitch
  BY <1>1, OtherStepsKeepIInv
  DEF FinishReport, sessionVars, laneVars, IInv, FlagsTypeOK
<1>2. CASE ReleasesSwitch
  <2>1. /\ UNCHANGED <<session, fenced, shuttingDown, called, latest, latestGeneration,
                       activePrepare, queuedPrepare, prepareJob, prepareDone,
                       afterStopSerial, outcome>>
        /\ afterStop' = NoRequest /\ timers' = timers \cup {afterStop}
        /\ afterStop # NoRequest
    BY <1>2 DEF FinishReport, ReleasesSwitch, sessionVars, laneVars
  <2>2. FlagsTypeOK'
    BY <2>1 DEF IInv, FlagsTypeOK
  <2>3. CallsTypeOK'
    BY <2>1 DEF IInv, CallsTypeOK
  <2>4. FenceStaysClosed' /\ NothingCrossesFence' /\ ResultIsOfActive'
    BY <2>1 DEF IInv, FenceStaysClosed, NothingCrossesFence, ResultIsOfActive
  <2>5. LaneIsNewest'
    BY <2>1 DEF IInv, LaneIsNewest, NoneNewer, Available, AcceptsLatest
  <2>6. Settlement'
    BY <2>1 DEF IInv, CallsTypeOK, Settlement, OnePlace, HeldUnanswered,
                FutureUnanswered, AnsweredOnce, NewestNeverLost, Held
  <2> QED BY <2>2, <2>3, <2>4, <2>5, <2>6 DEF IInv
<1> QED BY <1>1, <1>2
-----------------------------------------------------------------------------
LEMMA StepKeepsIInv == IInv /\ [Next]_vars => IInv'
<1> SUFFICES ASSUME IInv, [Next]_vars PROVE IInv'
  OBVIOUS
<1> USE PlaybackAssumption
<1> USE DEF sessionVars, laneVars, switchVars, reportVars
<1>0. /\ FlagsTypeOK /\ CallsTypeOK /\ FenceStaysClosed /\ prepareDone \in BOOLEAN
  BY DEF IInv, FlagsTypeOK
<1>1. ASSUME NEW v \in BOOLEAN, Prepare(v) PROVE IInv'
  <2>1. called + 1 \in Requests
    BY <1>0, <1>1 DEF Prepare, CallsTypeOK
  <2> QED BY <1>1, <2>1, PrepareKeepsIInv DEF Prepare
<1>2. ASSUME NEW v \in BOOLEAN, SwitchTo(v) PROVE IInv'
  BY <1>2, SwitchKeepsIInv
<1>3. CASE CancelPreparation
  <2>1. FlagsTypeOK' /\ FenceStaysClosed'
    BY <1>0, <1>3 DEF CancelPreparation, ResetPreparation, FlagsTypeOK, FenceStaysClosed
  <2> QED BY <1>3, <2>1, ResetKeepsIInv DEF CancelPreparation
<1>4. ASSUME NEW e \in Events, NEW s \in ReportSessions, Report(e, s) PROVE IInv'
  BY <1>0, <1>4, OtherStepsKeepIInv DEF Report
<1>5. CASE FenceSessionTransition
  <2>1. FlagsTypeOK' /\ FenceStaysClosed'
    BY <1>0, <1>5 DEF FenceSessionTransition, ResetPreparation, FlagsTypeOK, FenceStaysClosed
  <2> QED BY <1>5, <2>1, ResetKeepsIInv DEF FenceSessionTransition
<1>6. CASE AbortSessionTransition \/ CommitSessionTransition
  <2>1. /\ fenced /\ ~shuttingDown /\ fenced' = FALSE
        /\ UNCHANGED <<shuttingDown, called, latest, latestGeneration, activePrepare,
              queuedPrepare, prepareJob, prepareDone, afterStop, afterStopSerial,
              timers, outcome>>
    BY <1>6 DEF AbortSessionTransition, CommitSessionTransition
  <2>2. session' \in [generation : 0..MaxGeneration, connected : BOOLEAN]
    <3>1. CASE AbortSessionTransition
      BY <1>0, <3>1 DEF AbortSessionTransition, FlagsTypeOK
    <3>2. CASE CommitSessionTransition
      <4>1. PICK c \in BOOLEAN :
              session' = [generation |-> session.generation + 1, connected |-> c]
        BY <3>2 DEF CommitSessionTransition
      <4>2. session.generation + 1 \in 0..MaxGeneration
        BY <1>0, <3>2 DEF CommitSessionTransition, FlagsTypeOK
      <4> QED BY <4>1, <4>2
    <3> QED BY <1>6, <3>1, <3>2
  <2>3. FlagsTypeOK'
    BY <1>0, <2>1, <2>2 DEF FlagsTypeOK
  <2>4. CallsTypeOK'
    BY <2>1 DEF IInv, CallsTypeOK
  <2>5. latest = NoRequest /\ activePrepare = NoRequest /\ queuedPrepare = NoRequest
    BY <2>1 DEF IInv, LaneIsNewest, NothingCrossesFence
  <2>6. FenceStaysClosed' /\ NothingCrossesFence' /\ ResultIsOfActive'
    BY <2>1, <2>5 DEF FenceStaysClosed, NothingCrossesFence, ResultIsOfActive
  <2>7. LaneIsNewest'
    BY <2>1, <2>5 DEF IInv, LaneIsNewest, NoneNewer
  <2>8. Settlement'
    BY <2>1 DEF IInv, Settlement, OnePlace, HeldUnanswered, FutureUnanswered,
                AnsweredOnce, NewestNeverLost, Held
  <2> QED BY <2>3, <2>4, <2>6, <2>7, <2>8 DEF IInv
<1>7. CASE Shutdown
  <2>1. FlagsTypeOK' /\ FenceStaysClosed'
    BY <1>0, <1>7 DEF Shutdown, ResetPreparation, FlagsTypeOK, FenceStaysClosed
  <2> QED BY <1>7, <2>1, ResetKeepsIInv DEF Shutdown
<1>8. CASE PrepareWorkerDone \/ ReportWorkerDone
  BY <1>0, <1>8, OtherStepsKeepIInv DEF PrepareWorkerDone, ReportWorkerDone
<1>9. CASE FinishPrepare
  BY <1>9, FinishPrepareKeepsIInv
<1>10. CASE FinishReport
  BY <1>10, FinishReportKeepsIInv
<1>11. ASSUME NEW r \in Requests, AfterStopTimer(r) PROVE IInv'
  BY <1>11, TimerKeepsIInv
<1>12. CASE UNCHANGED vars
  BY <1>0, <1>12, OtherStepsKeepIInv DEF vars
<1> QED BY <1>1, <1>2, <1>3, <1>4, <1>5, <1>6, <1>7, <1>8, <1>9, <1>10, <1>11, <1>12
        DEF Next, Calls, Progresses

LEMMA CoordinatorInvariant == Spec => []IInv
  BY InitIInv, StepKeepsIInv, PTL DEF Spec

-----------------------------------------------------------------------------
(* The report lane.                                                          *)

(* What waits is of the session that goes on, and behind the fence nothing     *)
(* waits; a future that has ended was started for the report in flight.      *)
LaneInv ==
  /\ ReportsTypeOK
  /\ reportDone => activeReport # None
  /\ \A i \in DOMAIN reportQueue : BelongsToSession(reportQueue[i])

(* What is kept of q moves up to its rank in w, which holds nothing else.     *)
MovedUp(q, w, kept) ==
  /\ \A i \in kept : Rank(kept, i) \in 1 .. Len(w) /\ w[Rank(kept, i)] = q[i]
  /\ \A i, j \in kept : i < j => Rank(kept, i) < Rank(kept, j)
  /\ \A n \in 1 .. Len(w) : \E i \in kept : Rank(kept, i) = n

(* Erasing moves what is kept together and changes nothing else.              *)
LEMMA WithoutKeepsOrder ==
  ASSUME NEW S, NEW q \in Seq(S), NEW gone
  PROVE  /\ Without(q, gone) \in Seq(S)
         /\ MovedUp(q, Without(q, gone), DOMAIN q \ gone)
<1> DEFINE kept == DOMAIN q \ gone
           size == Cardinality(kept)
           upto(i) == {j \in kept : j <= i}
<1>1. /\ Len(q) \in Nat /\ DOMAIN q = 1 .. Len(q)
      /\ \A i \in 1 .. Len(q) : q[i] \in S
  OBVIOUS
<1>2. IsFiniteSet(kept) /\ size \in Nat
  <2>1. IsFiniteSet(1 .. Len(q))
    BY <1>1, FS_Interval
  <2>2. kept \in SUBSET (1 .. Len(q))
    BY <1>1
  <2> QED
    BY <2>1, <2>2, FS_Subset, FS_CardinalityType
<1>3. ASSUME NEW i \in kept
      PROVE  /\ IsFiniteSet(upto(i))
             /\ Rank(kept, i) = Cardinality(upto(i))
             /\ Rank(kept, i) \in 1 .. size /\ Rank(kept, i) \in Nat
  <2>1. upto(i) \in SUBSET kept
    OBVIOUS
  <2>2. IsFiniteSet(upto(i)) /\ Cardinality(upto(i)) <= size
    BY <1>2, <2>1, FS_Subset
  <2>3. Cardinality(upto(i)) \in Nat
    BY <2>2, FS_CardinalityType
  <2>4. upto(i) # {}
    BY <1>1
  <2>5. Cardinality(upto(i)) # 0
    BY <2>2, <2>4, FS_EmptySet
  <2> QED
    BY <1>2, <2>2, <2>3, <2>5 DEF Rank
<1>4. ASSUME NEW i \in kept, NEW j \in kept, i < j
      PROVE  Rank(kept, i) < Rank(kept, j)
  <2>1. upto(i) \in SUBSET upto(j) /\ j \in upto(j) /\ j \notin upto(i)
    BY <1>1, <1>4
  <2>2. /\ Cardinality(upto(i)) <= Cardinality(upto(j))
        /\ Cardinality(upto(i)) # Cardinality(upto(j))
    BY <1>3, <2>1, FS_Subset
  <2>3. Rank(kept, i) \in Nat /\ Rank(kept, j) \in Nat
    BY <1>2, <1>3
  <2>4. /\ Rank(kept, i) = Cardinality(upto(i))
        /\ Rank(kept, j) = Cardinality(upto(j))
    BY <1>3
  <2> HIDE DEF upto, size
  <2> QED
    BY <2>2, <2>3, <2>4
<1> DEFINE rank == [i \in kept |-> Rank(kept, i)]
<1>5. rank \in Injection(kept, 1 .. size)
  <2>1. rank \in [kept -> 1 .. size]
    BY <1>3
  <2>2. ASSUME NEW i \in kept, NEW j \in kept, rank[i] = rank[j] PROVE i = j
    <3>1. Rank(kept, i) = Rank(kept, j) /\ Rank(kept, i) \in Nat
      BY <1>2, <1>3, <2>2
    <3>2. ~ i < j /\ ~ j < i
      BY <1>4, <3>1
    <3> QED
      BY <1>1, <3>2
  <2> QED
    BY <2>1, <2>2 DEF Injection, IsInjective
<1>6. rank \in Surjection(kept, 1 .. size)
  <2>1. IsFiniteSet(1 .. size) /\ Cardinality(1 .. size) = size
    BY <1>2, FS_Interval
  <2> QED
    BY <1>5, <2>1, FS_Injection
<1>7. \A n \in 1 .. size : \E i \in kept : Rank(kept, i) = n
  BY <1>6 DEF Surjection
<1>8. \A i, j \in kept : Rank(kept, i) = Rank(kept, j) => i = j
  BY <1>5 DEF Injection, IsInjective
<1> DEFINE at(n) == CHOOSE i \in kept : Rank(kept, i) = n
<1>9. \A n \in 1 .. size : at(n) \in kept /\ Rank(kept, at(n)) = n
  BY <1>7
<1>10. Without(q, gone) = [n \in 1 .. size |-> q[at(n)]]
  BY DEF Without
<1> HIDE DEF at
<1>11. Without(q, gone) \in [1 .. size -> S]
  BY <1>1, <1>9, <1>10
<1>12. Without(q, gone) \in Seq(S) /\ Len(Without(q, gone)) = size
  <2> DEFINE w == Without(q, gone)
  <2>1. w \in [1 .. size -> S] /\ size \in Nat
    BY <1>2, <1>11
  <2> HIDE DEF w, size
  <2>2. w \in Seq(S) /\ Len(w) = size
    BY <2>1
  <2> QED
    BY <2>2 DEF w
<1>13. ASSUME NEW i \in kept
       PROVE  Without(q, gone)[Rank(kept, i)] = q[i]
  <2>1. Rank(kept, i) \in 1 .. size
    BY <1>3
  <2>2. at(Rank(kept, i)) = i
    BY <1>8, <1>9, <2>1
  <2> QED
    BY <1>10, <2>1, <2>2
<1> HIDE DEF upto, size, rank
<1>14. MovedUp(q, Without(q, gone), kept)
  BY <1>3, <1>4, <1>7, <1>12, <1>13 DEF MovedUp
<1> QED
  BY <1>12, <1>14

(* Where nothing is erased, nothing moves.                                    *)
LEMMA NothingErased ==
  ASSUME NEW S, NEW q \in Seq(S)
  PROVE  Without(q, {}) = q
<1> DEFINE kept == 1 .. Len(q)
           w == Without(q, {})
<1>1. Len(q) \in Nat /\ DOMAIN q = 1 .. Len(q) /\ kept = DOMAIN q \ {}
  OBVIOUS
<1>2. ASSUME NEW i \in 1 .. Len(q) PROVE Rank(kept, i) = i
  <2>1. {j \in kept : j <= i} = 1 .. i
    BY <1>1
  <2>2. Cardinality(1 .. i) = i
    BY <1>1, FS_Interval
  <2> QED
    BY <2>1, <2>2 DEF Rank
<1>3. w \in Seq(S) /\ MovedUp(q, w, kept)
  <2>1. w \in Seq(S) /\ MovedUp(q, w, DOMAIN q \ {})
    BY WithoutKeepsOrder
  <2> QED
    BY <1>1, <2>1
<1> HIDE DEF w
<1>4. /\ \A i \in 1 .. Len(q) : i \in 1 .. Len(w) /\ w[i] = q[i]
      /\ \A n \in 1 .. Len(w) : n \in 1 .. Len(q)
  BY <1>1, <1>2, <1>3 DEF MovedUp
<1>5. Len(w) \in Nat
  BY <1>3
<1>6. Len(w) = Len(q)
  BY <1>1, <1>4, <1>5
<1>7. w = q
  BY <1>3, <1>4, <1>6
<1> QED
  BY <1>7 DEF w

(* A report is of the session it is enqueued in, and so is what stays beside   *)
(* it: nothing foreign is ever found.                                        *)
LEMMA NothingForeign ==
  ASSUME NEW queue \in Seq(Reports), NEW open \in BOOLEAN,
         \A i \in DOMAIN queue : BelongsToSession(queue[i]),
         activeReport \in Reports \cup {None},
         StartNextReport(queue, open)
  PROVE  /\ reportQueue' \in Seq(Reports)
         /\ activeReport' \in Reports \cup {None}
         /\ \A i \in DOMAIN reportQueue' : BelongsToSession(reportQueue'[i])
         /\ open => Line' = queue /\ reportDone' = FALSE
         /\ ~ open => /\ reportQueue' = queue
                      /\ UNCHANGED <<activeReport, reportDone>>
<1>1. {i \in DOMAIN queue : ~BelongsToSession(queue[i])} = {}
  OBVIOUS
<1>2. Without(queue, {i \in DOMAIN queue : ~BelongsToSession(queue[i])}) = queue
  BY <1>1, NothingErased
<1>3. CASE open /\ queue # <<>>
  <2>1. /\ activeReport' = Head(queue) /\ reportQueue' = Tail(queue)
        /\ reportDone' = FALSE
    BY <1>2, <1>3 DEF StartNextReport
  <2>2. /\ Head(queue) \in Reports /\ Tail(queue) \in Seq(Reports)
        /\ Len(Tail(queue)) = Len(queue) - 1
        /\ \A i \in 1 .. Len(Tail(queue)) : Tail(queue)[i] = queue[i + 1]
    BY <1>3, HeadTailProperties
  <2>3. <<Head(queue)>> \o Tail(queue) = queue
    BY <1>3
  <2>4. Line' = queue
    BY <2>1, <2>2, <2>3, PlaybackAssumption DEF Line
  <2>5. ASSUME NEW i \in DOMAIN Tail(queue) PROVE BelongsToSession(Tail(queue)[i])
    <3>1. i \in 1 .. Len(Tail(queue)) /\ i + 1 \in DOMAIN queue
      BY <2>2
    <3> QED
      BY <2>2, <3>1
  <2> QED
    BY <1>3, <2>1, <2>2, <2>4, <2>5
<1>4. CASE open /\ queue = <<>>
  <2>1. activeReport' = None /\ reportQueue' = <<>> /\ reportDone' = FALSE
    BY <1>2, <1>4 DEF StartNextReport
  <2>2. Line' = <<>>
    BY <2>1 DEF Line
  <2> QED
    BY <1>4, <2>1, <2>2
<1>5. CASE ~ open
  BY <1>2, <1>5 DEF StartNextReport
<1> QED
  BY <1>3, <1>4, <1>5

(* A report that is enqueued stands last, Started and Stopped reports stay,    *)
(* and what stays keeps its order.                                           *)
LEMMA CoalesceKeeps ==
  ASSUME NEW queue \in Seq(Reports), NEW rep \in Reports,
         \A i \in DOMAIN queue : BelongsToSession(queue[i]),
         BelongsToSession(rep)
  PROVE  /\ Coalesce(queue, rep) \in Seq(Reports)
         /\ Coalesce(queue, rep) # <<>>
         /\ \A i \in DOMAIN Coalesce(queue, rep) :
              BelongsToSession(Coalesce(queue, rep)[i])
         /\ \E rest \in Seq(Reports), kept \in SUBSET DOMAIN queue :
              /\ Coalesce(queue, rep) = Append(rest, rep)
              /\ {i \in DOMAIN queue : IsTerminal(queue[i])} \subseteq kept
              /\ MovedUp(queue, rest, kept)
<1> DEFINE gone == {i \in DOMAIN queue :
                      /\ rep.event \in {"Progress", "Stopped"}
                      /\ queue[i].event = "Progress"
                      /\ queue[i].of = rep.of}
           kept == DOMAIN queue \ gone
           rest == Without(queue, gone)
<1>1. Coalesce(queue, rep) = Append(rest, rep)
  BY DEF Coalesce
<1>2. {i \in DOMAIN queue : IsTerminal(queue[i])} \subseteq kept
  BY DEF IsTerminal
<1>3. kept \subseteq DOMAIN queue /\ kept = DOMAIN queue \ gone
  OBVIOUS
<1> HIDE DEF gone, kept
<1>4. rest \in Seq(Reports) /\ MovedUp(queue, rest, kept)
  BY <1>3, WithoutKeepsOrder
<1> HIDE DEF rest
<1>5. /\ Append(rest, rep) \in Seq(Reports) /\ Append(rest, rep) # <<>>
      /\ \A i \in 1 .. Len(rest) : Append(rest, rep)[i] = rest[i]
      /\ Append(rest, rep)[Len(rest) + 1] = rep
  BY <1>4, AppendProperties
<1>6. Len(rest) \in Nat /\ DOMAIN Append(rest, rep) = 1 .. Len(rest) + 1
  BY <1>4, AppendProperties, LenProperties
<1>7. ASSUME NEW n \in DOMAIN Append(rest, rep)
      PROVE  BelongsToSession(Append(rest, rep)[n])
  <2>1. CASE n = Len(rest) + 1
    BY <1>5, <2>1
  <2>2. CASE n \in 1 .. Len(rest)
    <3>1. PICK i \in kept : Rank(kept, i) = n
      BY <1>4, <2>2 DEF MovedUp
    <3>2. Append(rest, rep)[n] = queue[i] /\ i \in DOMAIN queue
      BY <1>3, <1>4, <1>5, <2>2, <3>1 DEF MovedUp
    <3> QED
      BY <3>2
  <2> QED
    BY <1>6, <2>1, <2>2
<1>8. /\ Coalesce(queue, rep) \in Seq(Reports) /\ Coalesce(queue, rep) # <<>>
      /\ \A i \in DOMAIN Coalesce(queue, rep) :
           BelongsToSession(Coalesce(queue, rep)[i])
  BY <1>1, <1>5, <1>7
<1> QED
  BY <1>1, <1>2, <1>3, <1>4, <1>8

LEMMA StepKeepsLane == IInv /\ LaneInv /\ [Next]_vars => LaneInv'
<1> SUFFICES ASSUME IInv, LaneInv, [Next]_vars PROVE LaneInv'
  OBVIOUS
<1> USE PlaybackAssumption
<1>0. /\ reportQueue \in Seq(Reports) /\ activeReport \in Reports \cup {None}
      /\ reportDone \in BOOLEAN /\ (reportDone => activeReport # None)
      /\ \A i \in DOMAIN reportQueue : BelongsToSession(reportQueue[i])
  BY DEF LaneInv, ReportsTypeOK
<1>a. ASSUME UNCHANGED <<sessionVars, reportVars>> PROVE LaneInv'
  BY <1>0, <1>a DEF LaneInv, ReportsTypeOK, BelongsToSession, Available,
                    sessionVars, reportVars
<1>b. ASSUME reportQueue' = <<>>, UNCHANGED <<activeReport, reportDone>>
      PROVE  LaneInv'
  BY <1>0, <1>b DEF LaneInv, ReportsTypeOK
<1>c. ASSUME NEW queue \in Seq(Reports), NEW open \in BOOLEAN,
             \A i \in DOMAIN queue : BelongsToSession(queue[i]),
             open \/ activeReport # None,
             StartNextReport(queue, open), UNCHANGED sessionVars
      PROVE  LaneInv'
  <2>1. /\ reportQueue' \in Seq(Reports)
        /\ activeReport' \in Reports \cup {None}
        /\ \A i \in DOMAIN reportQueue' : BelongsToSession(reportQueue'[i])
        /\ open => reportDone' = FALSE
        /\ ~ open => UNCHANGED <<activeReport, reportDone>>
    BY <1>0, <1>c, NothingForeign
  <2>2. Available' = Available /\ session' = session
    BY <1>c DEF Available, sessionVars
  <2>3. (\A i \in DOMAIN reportQueue : BelongsToSession(reportQueue[i]))'
    BY <2>1, <2>2 DEF BelongsToSession
  <2>4. reportDone' \in BOOLEAN /\ (reportDone' => activeReport' # None)
    BY <1>0, <1>c, <2>1
  <2> QED
    BY <2>1, <2>3, <2>4 DEF LaneInv, ReportsTypeOK
<1>1. ASSUME NEW v \in BOOLEAN, Prepare(v) PROVE LaneInv'
  BY <1>1, <1>a DEF Prepare, PrepareInContext
<1>2. ASSUME NEW v \in BOOLEAN, SwitchTo(v) PROVE LaneInv'
  BY <1>2, <1>a DEF SwitchTo
<1>3. CASE CancelPreparation
  BY <1>3, <1>a DEF CancelPreparation
<1>4. ASSUME NEW e \in Events, NEW s \in ReportSessions, Report(e, s) PROVE LaneInv'
  <2> DEFINE rep == [event |-> e, of |-> s, generation |-> session.generation]
  <2>1. rep \in Reports /\ BelongsToSession(rep)
    BY <1>4 DEF Report, Reports, BelongsToSession, IInv, FlagsTypeOK
  <2>2. /\ Coalesce(reportQueue, rep) \in Seq(Reports)
        /\ \A i \in DOMAIN Coalesce(reportQueue, rep) :
             BelongsToSession(Coalesce(reportQueue, rep)[i])
    BY <1>0, <2>1, CoalesceKeeps
  <2>3. /\ StartNextReport(Coalesce(reportQueue, rep), activeReport = None)
        /\ UNCHANGED sessionVars
    BY <1>4 DEF Report
  <2> HIDE DEF rep
  <2> QED
    BY <1>c, <2>2, <2>3
<1>5. CASE FenceSessionTransition
  BY <1>5, <1>b DEF FenceSessionTransition
<1>6. CASE AbortSessionTransition \/ CommitSessionTransition
  <2>1. fenced /\ UNCHANGED reportVars
    BY <1>6 DEF AbortSessionTransition, CommitSessionTransition
  <2>2. DOMAIN reportQueue = {}
    BY <1>0, <2>1 DEF BelongsToSession, Available
  <2> QED
    BY <1>0, <2>1, <2>2 DEF LaneInv, ReportsTypeOK, reportVars
<1>7. CASE Shutdown
  BY <1>7, <1>b DEF Shutdown
<1>8. CASE PrepareWorkerDone
  BY <1>8, <1>a DEF PrepareWorkerDone
<1>9. CASE ReportWorkerDone
  <2>1. UNCHANGED <<sessionVars, reportQueue, activeReport>>
        /\ activeReport # None /\ reportDone' = TRUE
    BY <1>9 DEF ReportWorkerDone
  <2> QED
    BY <1>0, <2>1 DEF LaneInv, ReportsTypeOK, BelongsToSession, Available,
                      sessionVars
<1>10. CASE FinishPrepare
  BY <1>10, <1>a DEF FinishPrepare
<1>11. CASE FinishReport
  BY <1>0, <1>11, <1>c DEF FinishReport
<1>12. ASSUME NEW r \in Requests, AfterStopTimer(r) PROVE LaneInv'
  BY <1>12, <1>a DEF AfterStopTimer, PrepareInContext
<1>13. CASE UNCHANGED vars
  BY <1>13, <1>a DEF vars
<1> QED
  BY <1>1, <1>2, <1>3, <1>4, <1>5, <1>6, <1>7, <1>8, <1>9, <1>10, <1>11, <1>12, <1>13
  DEF Next, Calls, Progresses

LEMMA LaneInvariant == Spec => []LaneInv
<1>1. Init => LaneInv
  <2>1. <<>> \in Seq(Reports) /\ DOMAIN <<>> = {}
    BY EmptySeq
  <2> QED
    BY <2>1 DEF Init, LaneInv, ReportsTypeOK
<1> QED
  BY <1>1, CoordinatorInvariant, StepKeepsLane, PTL DEF Spec

(* Type correctness of the preparation lane, the switch and the session.      *)
THEOREM TypeCorrect == Spec => []TypeOK
<1>1. IInv /\ LaneInv => TypeOK
  BY DEF IInv, LaneInv, TypeOK
<1> QED BY <1>1, CoordinatorInvariant, LaneInvariant, PTL

(* No preparation call is answered twice, however many calls, cancelations,   *)
(* timers, transitions and reports there are.                               *)
THEOREM CallsAnsweredOnce == Spec => []AnsweredOnce
<1>1. IInv => AnsweredOnce
  BY DEF IInv, Settlement
<1> QED BY <1>1, CoordinatorInvariant, PTL

(* The newest preparation call is answered or still held somewhere.           *)
THEOREM NewestCallKept == Spec => []NewestNeverLost
<1>1. IInv => NewestNeverLost
  BY DEF IInv, Settlement
<1> QED BY <1>1, CoordinatorInvariant, PTL

(* A worker's result is never taken for the answer to another request.        *)
THEOREM ResultsMatchRequests == Spec => []ResultIsOfActive
<1>1. IInv => ResultIsOfActive
  BY DEF IInv
<1> QED BY <1>1, CoordinatorInvariant, PTL

(* No preparation and no deferred switch survives a session transition.       *)
THEOREM FenceIsTight == Spec => []NothingCrossesFence
<1>1. IInv => NothingCrossesFence
  BY DEF IInv
<1> QED BY <1>1, CoordinatorInvariant, PTL

(* A superseded preparation never starts.                                    *)
THEOREM SupersededNeverStarts == Spec => NeverStartsSuperseded
<1>1. IInv' =>
        (activePrepare' # activePrepare /\ activePrepare' # NoRequest =>
           \A r \in Requests : activePrepare' < r /\ r <= called' =>
             outcome'[r] # 0 \/ r = afterStop' \/ r \in timers')
  BY DEF IInv, LaneIsNewest, NoneNewer, AcceptsLatest
<1> QED BY <1>1, CoordinatorInvariant, PTL DEF NeverStartsSuperseded

LEMMA LedQueue ==
  ASSUME NEW first \in Reports, NEW queue \in Seq(Reports)
  PROVE  /\ <<first>> \o queue \in Seq(Reports)
         /\ Len(<<first>> \o queue) = Len(queue) + 1
         /\ (<<first>> \o queue)[1] = first
         /\ \A i \in 1 .. Len(queue) : (<<first>> \o queue)[i + 1] = queue[i]
<1> DEFINE one == <<first>>
<1>1. one \in Seq(Reports) /\ Len(one) = 1 /\ one[1] = first
  OBVIOUS
<1> HIDE DEF one
<1>2. /\ one \o queue \in Seq(Reports)
      /\ Len(one \o queue) = 1 + Len(queue) /\ Len(queue) \in Nat
      /\ \A i \in 1 .. 1 + Len(queue) :
           (one \o queue)[i] = IF i <= 1 THEN one[i] ELSE queue[i - 1]
  <2>1. /\ one \o queue \in Seq(Reports)
        /\ Len(one \o queue) = Len(one) + Len(queue)
        /\ \A i \in 1 .. Len(one) + Len(queue) :
             (one \o queue)[i] = IF i <= Len(one) THEN one[i] ELSE queue[i - Len(one)]
    BY <1>1, ConcatProperties
  <2>2. Len(queue) \in Nat
    BY LenProperties
  <2> QED
    BY <1>1, <2>1, <2>2
<1>3. (one \o queue)[1] = first
  BY <1>1, <1>2
<1>4. ASSUME NEW i \in 1 .. Len(queue) PROVE (one \o queue)[i + 1] = queue[i]
  <2>1. i + 1 \in 1 .. 1 + Len(queue) /\ ~ (i + 1 <= 1) /\ (i + 1) - 1 = i
    BY <1>2
  <2> QED
    BY <1>2, <2>1
<1> QED
  BY <1>2, <1>3, <1>4 DEF one

LEMMA LineIsSeq ==
  ASSUME ReportsTypeOK
  PROVE  /\ Len(reportQueue) \in Nat /\ Len(Line) \in Nat
         /\ DOMAIN Line = 1 .. Len(Line)
         /\ activeReport = None => Line = reportQueue
         /\ activeReport # None =>
              /\ Len(Line) = Len(reportQueue) + 1
              /\ Line[1] = activeReport
              /\ \A i \in 1 .. Len(reportQueue) : Line[i + 1] = reportQueue[i]
<1>1. CASE activeReport = None
  <2>1. Line = reportQueue
    BY <1>1, ConcatEmptySeq DEF Line, ReportsTypeOK
  <2> QED
    BY <1>1, <2>1, LenProperties DEF ReportsTypeOK
<1>2. CASE activeReport # None
  <2>1. Line = <<activeReport>> \o reportQueue
    BY <1>2 DEF Line
  <2> QED
    BY <1>2, <2>1, LedQueue, LenProperties DEF ReportsTypeOK
<1> QED
  BY <1>1, <1>2

LEMMA NextLineIsSeq ==
  ASSUME ReportsTypeOK', activeReport' # None
  PROVE  /\ Len(Line') \in Nat /\ DOMAIN Line' = 1 .. Len(Line')
         /\ Len(Line') = Len(reportQueue') + 1
         /\ Line'[1] = activeReport'
         /\ \A i \in 1 .. Len(reportQueue') : Line'[i + 1] = reportQueue'[i]
<1>1. Line' = <<activeReport'>> \o reportQueue'
  BY DEF Line
<1> QED
  BY <1>1, LedQueue, LenProperties DEF ReportsTypeOK

(* Where the line stays, or is what waited behind a report that is finished,  *)
(* its order is kept.                                                        *)
LEMMA LineStays ==
  ASSUME LaneInv, Line' = Line
  PROVE  Carried({})
<1> DEFINE stay == {i \in DOMAIN Line \ {} : IsTerminal(Line[i])}
           at == [i \in stay |-> i]
<1>1. /\ at \in [stay -> DOMAIN Line']
      /\ \A i \in stay : Line'[at[i]] = Line[i]
      /\ \A i, j \in stay : i < j => at[i] < at[j]
  OBVIOUS
<1>2. ASSUME NEW i \in stay, NEW k \in DOMAIN Line', k < at[i], IsTerminal(Line'[k])
      PROVE  \E j \in stay : at[j] = k
  <2>1. k \in stay
    BY <1>2
  <2> QED
    BY <2>1
<1> QED
  BY <1>1, <1>2 DEF Carried

LEMMA LineAdvances ==
  ASSUME LaneInv, activeReport # None, Line' = reportQueue
  PROVE  Carried({1})
<1> DEFINE stay == {i \in DOMAIN Line \ {1} : IsTerminal(Line[i])}
           at == [i \in stay |-> i - 1]
<1>0. /\ Len(reportQueue) \in Nat /\ DOMAIN reportQueue = 1 .. Len(reportQueue)
      /\ DOMAIN Line = 1 .. Len(reportQueue) + 1
      /\ \A i \in 1 .. Len(reportQueue) : Line[i + 1] = reportQueue[i]
  BY LineIsSeq, LenProperties DEF LaneInv, ReportsTypeOK
<1>1. ASSUME NEW i \in stay
      PROVE  /\ i \in Nat /\ at[i] = i - 1 /\ i - 1 \in 1 .. Len(reportQueue)
             /\ reportQueue[i - 1] = Line[i]
  <2>1. i \in 1 .. Len(reportQueue) + 1 /\ i # 1
    BY <1>0
  <2>2. i - 1 \in 1 .. Len(reportQueue) /\ (i - 1) + 1 = i
    BY <1>0, <2>1
  <2>3. Line[(i - 1) + 1] = reportQueue[i - 1]
    BY <1>0, <2>2
  <2> QED
    BY <2>1, <2>2, <2>3
<1>2. at \in [stay -> DOMAIN Line']
  BY <1>0, <1>1
<1>3. ASSUME NEW i \in stay, NEW k \in DOMAIN Line', k < at[i], IsTerminal(Line'[k])
      PROVE  \E j \in stay : at[j] = k
  <2>1. k \in 1 .. Len(reportQueue) /\ k + 1 \in DOMAIN Line /\ k + 1 # 1
    BY <1>0
  <2>2. k + 1 \in stay
    BY <1>0, <1>3, <2>1
  <2>3. at[k + 1] = k
    BY <1>1, <2>1, <2>2
  <2> QED
    BY <2>2, <2>3
<1>4. \A i \in stay : Line'[at[i]] = Line[i]
  BY <1>1
<1>5. \A i, j \in stay : i < j => at[i] < at[j]
  BY <1>1
<1> HIDE DEF at
<1> QED
  BY <1>2, <1>3, <1>4, <1>5 DEF Carried

(* A report that is enqueued leaves the Started and Stopped reports before it  *)
(* in their order.                                                           *)
LEMMA LineGrows ==
  ASSUME LaneInv, NEW rest \in Seq(Reports), NEW rep \in Reports,
         NEW kept \in SUBSET DOMAIN reportQueue,
         {i \in DOMAIN reportQueue : IsTerminal(reportQueue[i])} \subseteq kept,
         MovedUp(reportQueue, rest, kept),
         ReportsTypeOK',
         IF activeReport = None
           THEN Line' = Append(rest, rep)
           ELSE activeReport' = activeReport /\ reportQueue' = Append(rest, rep)
  PROVE  Carried({})
<1> DEFINE lead == IF activeReport = None THEN 0 ELSE 1
           stay == {i \in DOMAIN Line \ {} : IsTerminal(Line[i])}
           at == [i \in stay |-> IF i <= lead THEN i ELSE lead + Rank(kept, i - lead)]
<1>1. /\ Len(reportQueue) \in Nat /\ DOMAIN reportQueue = 1 .. Len(reportQueue)
      /\ Len(rest) \in Nat
      /\ \A i \in 1 .. Len(rest) : Append(rest, rep)[i] = rest[i]
      /\ Len(Append(rest, rep)) = Len(rest) + 1
      /\ Append(rest, rep) \in Seq(Reports)
  BY LenProperties, AppendProperties DEF LaneInv, ReportsTypeOK
<1>2. /\ DOMAIN Line = 1 .. Len(reportQueue) + lead
      /\ \A i \in 1 .. Len(reportQueue) : Line[i + lead] = reportQueue[i]
      /\ lead = 1 => Line[1] = activeReport
  <2>1. CASE activeReport = None
    BY <1>1, <2>1, LineIsSeq DEF LaneInv
  <2>2. CASE activeReport # None
    BY <1>1, <2>2, LineIsSeq DEF LaneInv
  <2> QED
    BY <2>1, <2>2
<1>3. /\ DOMAIN Line' = 1 .. Len(rest) + 1 + lead
      /\ \A i \in 1 .. Len(rest) : Line'[i + lead] = rest[i]
      /\ lead = 1 => Line'[1] = activeReport
  <2>1. CASE activeReport = None
    <3>1. Line' = Append(rest, rep) /\ lead = 0
      BY <2>1
    <3>2. DOMAIN Line' = 1 .. Len(rest) + 1
      BY <1>1, <3>1, LenProperties
    <3>3. \A i \in 1 .. Len(rest) : i + 0 = i
      OBVIOUS
    <3> QED
      BY <1>1, <3>1, <3>2, <3>3
  <2>2. CASE activeReport # None
    <3>1. activeReport' = activeReport /\ reportQueue' = Append(rest, rep) /\ lead = 1
      BY <2>2
    <3>2. /\ Len(Line') \in Nat /\ DOMAIN Line' = 1 .. Len(Line')
          /\ Len(Line') = Len(reportQueue') + 1
          /\ Line'[1] = activeReport'
          /\ \A i \in 1 .. Len(reportQueue') : Line'[i + 1] = reportQueue'[i]
      BY <2>2, <3>1, NextLineIsSeq
    <3> QED
      BY <1>1, <3>1, <3>2
  <2> QED
    BY <2>1, <2>2
<1>4. lead \in {0, 1}
  OBVIOUS
<1> HIDE DEF lead
<1>5. ASSUME NEW i \in stay, i > lead
      PROVE  /\ i - lead \in kept
             /\ Rank(kept, i - lead) \in 1 .. Len(rest)
             /\ rest[Rank(kept, i - lead)] = Line[i]
  <2>1. i - lead \in 1 .. Len(reportQueue) /\ (i - lead) + lead = i
    BY <1>1, <1>2, <1>4, <1>5
  <2>2. reportQueue[i - lead] = Line[i]
    BY <1>2, <2>1
  <2>3. i - lead \in kept
    BY <1>1, <2>1, <2>2
  <2> QED
    BY <2>2, <2>3 DEF MovedUp
<1>6. ASSUME NEW i \in stay
      PROVE  /\ i \in Nat \ {0}
             /\ at[i] \in DOMAIN Line'
             /\ Line'[at[i]] = Line[i]
             /\ i <= lead => at[i] = i
             /\ i > lead => at[i] = lead + Rank(kept, i - lead)
  <2>1. i \in Nat \ {0}
    BY <1>1, <1>2, <1>4
  <2>2. CASE i <= lead
    <3>1. i = 1 /\ lead = 1 /\ at[i] = i
      BY <1>4, <2>1, <2>2
    <3> QED
      BY <1>1, <1>2, <1>3, <2>1, <3>1
  <2>3. CASE i > lead
    <3>1. at[i] = lead + Rank(kept, i - lead)
      BY <1>4, <2>1, <2>3
    <3>2. /\ Rank(kept, i - lead) \in 1 .. Len(rest)
          /\ rest[Rank(kept, i - lead)] = Line[i]
      BY <1>5, <2>3
    <3> DEFINE n == Rank(kept, i - lead)
    <3>3. n \in 1 .. Len(rest) /\ rest[n] = Line[i] /\ at[i] = lead + n
      BY <3>1, <3>2
    <3> HIDE DEF n
    <3>4. lead + n \in 1 .. Len(rest) + 1 + lead /\ lead + n = n + lead
      BY <1>1, <1>4, <3>3
    <3>5. Line'[n + lead] = rest[n]
      BY <1>3, <3>3
    <3>6. Line'[at[i]] = Line[i] /\ at[i] \in DOMAIN Line'
      BY <1>3, <3>3, <3>4, <3>5
    <3>7. ~ i <= lead
      BY <1>4, <2>1, <2>3
    <3> QED
      BY <2>1, <3>1, <3>6, <3>7
  <2> QED
    BY <1>4, <2>1, <2>2, <2>3
<1>7. at \in [stay -> DOMAIN Line']
  BY <1>6
<1>8. ASSUME NEW i \in stay, NEW j \in stay, i < j PROVE at[i] < at[j]
  <2>1. /\ i \in Nat \ {0} /\ j \in Nat \ {0}
        /\ (i <= lead => at[i] = i)
        /\ (i > lead => at[i] = lead + Rank(kept, i - lead))
        /\ (j > lead => at[j] = lead + Rank(kept, j - lead))
    BY <1>6
  <2>2. j > lead
    BY <1>4, <1>8, <2>1
  <2>3. j - lead \in kept /\ Rank(kept, j - lead) \in 1 .. Len(rest)
    BY <1>5, <2>2
  <2>4. CASE i <= lead
    BY <1>1, <1>4, <2>1, <2>2, <2>3, <2>4
  <2>5. CASE i > lead
    <3>1. i - lead \in kept /\ Rank(kept, i - lead) \in 1 .. Len(rest)
      BY <1>5, <2>5
    <3>2. i - lead < j - lead
      BY <1>4, <1>8, <2>1
    <3>3. Rank(kept, i - lead) < Rank(kept, j - lead)
      BY <2>3, <3>1, <3>2 DEF MovedUp
    <3> QED
      BY <1>1, <1>4, <2>1, <2>2, <2>3, <2>5, <3>1, <3>3
  <2> QED
    BY <1>4, <2>1, <2>4, <2>5
<1>9. ASSUME NEW i \in stay, NEW k \in DOMAIN Line', k < at[i], IsTerminal(Line'[k])
      PROVE  \E j \in stay : at[j] = k
  <2>1. k \in 1 .. Len(rest) + 1 + lead
    BY <1>3
  <2>2. CASE k <= lead
    <3>1. k = 1 /\ lead = 1
      BY <1>1, <1>4, <2>1, <2>2
    <3>2. Line[1] = Line'[1] /\ 1 \in DOMAIN Line
      BY <1>1, <1>2, <1>3, <3>1
    <3>3. 1 \in stay
      BY <1>9, <3>1, <3>2
    <3>4. at[1] = 1
      BY <1>6, <3>1, <3>3
    <3> QED
      BY <3>1, <3>3, <3>4
  <2>3. CASE k > lead
    <3>1. k - lead \in 1 .. Len(rest)
      <4>1. CASE i <= lead
        BY <1>1, <1>4, <1>6, <1>9, <2>1, <2>3, <4>1
      <4>2. CASE i > lead
        <5>1. at[i] = lead + Rank(kept, i - lead) /\ Rank(kept, i - lead) \in 1 .. Len(rest)
          BY <1>5, <1>6, <4>2
        <5> QED
          BY <1>1, <1>4, <1>9, <2>1, <2>3, <5>1
      <4> QED
        BY <1>4, <1>6, <4>1, <4>2
    <3>2. PICK m \in kept : Rank(kept, m) = k - lead
      BY <3>1 DEF MovedUp
    <3>3. /\ m \in 1 .. Len(reportQueue)
          /\ rest[k - lead] = reportQueue[m]
      BY <1>1, <3>2 DEF MovedUp
    <3>4. Line'[(k - lead) + lead] = rest[k - lead] /\ (k - lead) + lead = k
      BY <1>1, <1>3, <1>4, <2>1, <3>1
    <3>5. Line[m + lead] = reportQueue[m] /\ m + lead \in DOMAIN Line
      BY <1>1, <1>2, <1>4, <3>3
    <3>6. m + lead \in stay /\ m + lead > lead /\ (m + lead) - lead = m
      BY <1>1, <1>4, <1>9, <3>3, <3>4, <3>5
    <3>7. at[m + lead] = lead + (k - lead)
      BY <1>6, <3>2, <3>6
    <3>8. lead + (k - lead) = k
      BY <1>1, <1>4, <2>1
    <3> QED
      BY <3>6, <3>7, <3>8
  <2> QED
    BY <1>1, <1>4, <2>1, <2>2, <2>3
<1>10. \A i \in stay : Line'[at[i]] = Line[i]
  BY <1>6
<1> HIDE DEF at
<1> QED
  BY <1>7, <1>8, <1>9, <1>10 DEF Carried

LEMMA StepCarries ==
  ASSUME IInv, LaneInv, LaneInv', [Next]_vars
  PROVE  fenced' \/ Carried({}) \/ (reportDone /\ Carried({1}))
<1> USE PlaybackAssumption
<1>0. /\ reportQueue \in Seq(Reports) /\ activeReport \in Reports \cup {None}
      /\ (reportDone => activeReport # None)
      /\ \A i \in DOMAIN reportQueue : BelongsToSession(reportQueue[i])
  BY DEF LaneInv, ReportsTypeOK
<1>a. ASSUME UNCHANGED <<reportQueue, activeReport>> PROVE Carried({})
  BY <1>a, LineStays DEF Line
<1>1. ASSUME NEW v \in BOOLEAN, Prepare(v) PROVE Carried({})
  BY <1>1, <1>a DEF Prepare, PrepareInContext, reportVars
<1>2. ASSUME NEW v \in BOOLEAN, SwitchTo(v) PROVE Carried({})
  BY <1>2, <1>a DEF SwitchTo, reportVars
<1>3. CASE CancelPreparation
  BY <1>3, <1>a DEF CancelPreparation, reportVars
<1>4. ASSUME NEW e \in Events, NEW s \in ReportSessions, Report(e, s)
      PROVE  Carried({})
  <2> DEFINE rep == [event |-> e, of |-> s, generation |-> session.generation]
             line == Coalesce(reportQueue, rep)
  <2>1. rep \in Reports /\ BelongsToSession(rep)
    BY <1>4 DEF Report, Reports, BelongsToSession, IInv, FlagsTypeOK
  <2>2. StartNextReport(line, activeReport = None)
    BY <1>4 DEF Report
  <2> HIDE DEF rep
  <2>3. PICK rest \in Seq(Reports), kept \in SUBSET DOMAIN reportQueue :
          /\ line = Append(rest, rep)
          /\ {i \in DOMAIN reportQueue : IsTerminal(reportQueue[i])} \subseteq kept
          /\ MovedUp(reportQueue, rest, kept)
    BY <1>0, <2>1, CoalesceKeeps
  <2>4. /\ line \in Seq(Reports)
        /\ \A i \in DOMAIN line : BelongsToSession(line[i])
    BY <1>0, <2>1, CoalesceKeeps
  <2> HIDE DEF line
  <2>5. /\ activeReport = None => Line' = line
        /\ activeReport # None => reportQueue' = line /\ activeReport' = activeReport
    BY <1>0, <2>2, <2>4, NothingForeign
  <2>6. ReportsTypeOK'
    BY DEF LaneInv
  <2> QED
    BY <2>1, <2>3, <2>5, <2>6, LineGrows
<1>5. CASE FenceSessionTransition \/ Shutdown
  BY <1>5 DEF FenceSessionTransition, Shutdown
<1>6. CASE AbortSessionTransition \/ CommitSessionTransition
  BY <1>6, <1>a DEF AbortSessionTransition, CommitSessionTransition, reportVars
<1>7. CASE PrepareWorkerDone \/ ReportWorkerDone \/ FinishPrepare
  BY <1>7, <1>a DEF PrepareWorkerDone, ReportWorkerDone, FinishPrepare, reportVars
<1>8. CASE FinishReport
  <2>1. reportDone /\ StartNextReport(reportQueue, TRUE)
    BY <1>8 DEF FinishReport
  <2>2. Line' = reportQueue /\ activeReport # None
    BY <1>0, <2>1, NothingForeign
  <2> QED
    BY <2>1, <2>2, LineAdvances
<1>9. ASSUME NEW r \in Requests, AfterStopTimer(r) PROVE Carried({})
  BY <1>9, <1>a DEF AfterStopTimer, PrepareInContext, reportVars
<1>10. CASE UNCHANGED vars
  BY <1>10, <1>a DEF vars, reportVars
<1> QED
  BY <1>1, <1>2, <1>3, <1>4, <1>5, <1>6, <1>7, <1>8, <1>9, <1>10
  DEF Next, Calls, Progresses

(* Started and Stopped reports leave the lane from its head in the order they  *)
(* came, and no report waits in a session it is not of.                      *)
THEOREM TerminalReportsStayInOrder == Spec => TerminalReportsKeepOrder
<1>1. LaneInv => ReportsAreCurrent
  <2> SUFFICES ASSUME LaneInv PROVE ReportsAreCurrent
    OBVIOUS
  <2>1. /\ reportQueue \in Seq(Reports)
        /\ DOMAIN reportQueue = 1 .. Len(reportQueue) /\ Len(reportQueue) \in Nat
        /\ \A i \in DOMAIN reportQueue : BelongsToSession(reportQueue[i])
    BY LenProperties DEF LaneInv, ReportsTypeOK
  <2>2. ASSUME fenced PROVE reportQueue = <<>>
    BY <2>1, <2>2 DEF BelongsToSession, Available
  <2> QED
    BY <2>1, <2>2 DEF ReportsAreCurrent, BelongsToSession
<1>2. IInv /\ LaneInv /\ LaneInv' /\ [Next]_vars =>
        fenced' \/ Carried({}) \/ (reportDone /\ Carried({1}))
  BY StepCarries
<1> QED
  BY <1>1, <1>2, CoordinatorInvariant, LaneInvariant, PTL
  DEF Spec, TerminalReportsKeepOrder
-----------------------------------------------------------------------------
(* From the page to the backend.                                             *)

IsStop(q, s) == q.event = "Stopped" /\ q.of = s
Waits(s)     == \E i \in DOMAIN Line : IsStop(Line[i], s)
OnWire(s)    == \E i \in DOMAIN wire : wire[i].event = "Stopped" /\ wire[i].session = s

(* The last Stopped report in line is of s.                                   *)
NewestIs(s) ==
  \E i \in DOMAIN Line :
    /\ IsStop(Line[i], s)
    /\ \A j \in DOMAIN Line : i < j => Line[j].event # "Stopped"

(* What the turns of the event loop leave: one session speaks in a turn, and   *)
(* while a switch waits nothing is shown and nothing is reported.            *)
TurnInv ==
  /\ (stage = "closed") = (reporting = None)
  /\ \A i, j \in DOMAIN wire : wire[i].session = wire[j].session
  /\ calling # "none" => reporting = None
  /\ calling = "switch" => shown = None
  /\ afterStopSerial # NoRequest => shown = None /\ reporting = None /\ wire = <<>>
  /\ afterStop \in {NoRequest, afterStopSerial}
  /\ fenced /\ ~shuttingDown => undisturbed = {}

(* Sessions are named by the server: what a running job has prepared is what   *)
(* the backend plays, and nothing has been shown or said of it.              *)
NameInv ==
  /\ {shown, reporting} \subseteq issued \cup {None}
  /\ \A i \in DOMAIN wire : wire[i].session \in issued
  /\ \A i \in DOMAIN Line : Line[i].of \in issued
  /\ result # None =>
       /\ result \in issued \ {shown, reporting}
       /\ \A i \in DOMAIN wire : wire[i].session # result
       /\ \A i \in DOMAIN Line : Line[i].of # result
       /\ activePrepare # NoRequest => playback = result

TakenInv ==
  /\ taken # "no" => /\ activeReport # None
                     /\ activeReport.event = "Stopped" => activeReport.of \in stopped
  /\ reportDone => taken # "no"

(* A session whose Stopped report is on its way, or may still be asked for.    *)
Live(s) ==
  /\ s \in undisturbed \ stopped
  /\ s \in {shown, reporting} \/ Waits(s) \/ OnWire(s)

(* The backend plays it, no preparation runs or waits in the lane, and a       *)
(* switch that was asked for waits for its Stopped report, the newest.       *)
Guarded(s) ==
  /\ playback = s
  /\ activePrepare = NoRequest /\ queuedPrepare = NoRequest /\ ~PrepareRunning
  /\ shown \in {None, s}
  /\ Waits(s) => /\ reporting \in {None, s}
                 /\ \A i \in DOMAIN wire : wire[i].session = s
                 /\ NewestIs(s)
  /\ OnWire(s) => reporting \in {None, s}
  /\ afterStopSerial # NoRequest => afterStop # NoRequest /\ afterStopOf = s

LiveInv == \A s \in ReportSessions : Live(s) => Guarded(s)

LinkInv == TurnInv /\ NameInv /\ TakenInv /\ LiveInv
ReportingInv == IInv /\ LaneInv /\ ReportingTypeOK /\ LinkInv

(* Nothing is shown, said or played at first.                                 *)
LEMMA ReportingInitInv == ReportingInit => ReportingInv
<1> SUFFICES ASSUME ReportingInit PROVE ReportingInv
  OBVIOUS
<1> USE PlaybackAssumption
<1>1. IInv
  BY InitIInv DEF ReportingInit
<1>2. <<>> \in Seq(Reports) /\ DOMAIN <<>> = {}
      /\ <<>> \in Seq([event : Events, session : ReportSessions])
  BY EmptySeq
<1>3. LaneInv
  BY <1>2 DEF ReportingInit, Init, LaneInv, ReportsTypeOK
<1>4. ReportingTypeOK
  BY <1>1, <1>2, <1>3 DEF IInv, LaneInv, TypeOK, ReportingInit, Reporter!Init, Reporter!Stages, ReportingTypeOK
<1>5. Line = <<>>
  BY DEF ReportingInit, Init, Line
<1>6. LinkInv
  BY <1>2, <1>5 DEF ReportingInit, Init, Reporter!Init, LinkInv, TurnInv, NameInv, TakenInv, LiveInv,
       Live
<1> QED
  BY <1>1, <1>3, <1>4, <1>6 DEF ReportingInv

(* Every step of the whole is a step of the coordinator or leaves it alone.    *)
LEMMA ReportingImplements ==
  ASSUME ReportingTypeOK, [ReportingNext]_reportingVars
  PROVE  [Next]_vars
<1>1. ASSUME PortTakes PROVE [Next]_vars
  <2>1. CASE ~Available /\ UNCHANGED vars
    BY <2>1
  <2>2. CASE Report(Head(wire).event, Head(wire).session)
    <3>1. wire # <<>>
      BY <1>1 DEF PortTakes, Reporter!Take
    <3>2. Head(wire) \in [event : Events, session : ReportSessions]
      BY <3>1, HeadTailProperties DEF ReportingTypeOK
    <3> QED
      BY <2>2, <3>2 DEF Next, Calls
  <2> QED
    BY <1>1, <2>1, <2>2 DEF PortTakes
<1>2. ASSUME NEW v \in BOOLEAN, PagePrepares(v) \/ PageSwitches(v) PROVE Next
  BY <1>2 DEF PagePrepares, PageSwitches, Next, Calls
<1>3. ASSUME PageCancels \/ ServicesShutDown \/ TransitionBegins \/ TransitionEnds PROVE Next
  BY <1>3 DEF PageCancels, ServicesShutDown, TransitionBegins, TransitionEnds, Next, Calls
<1>4. ASSUME PreparationEnds \/ ReportEnds \/ TimerFires \/ PrepareReturns \/ ReportReturns PROVE Next
  BY <1>4 DEF PreparationEnds, ReportEnds, TimerFires, PrepareReturns, ReportReturns, Next, Progresses
<1>5. ASSUME PageCloses \/ PageBegins \/ ReporterReports \/ StopsFirst \/ Publish \/ ReportTakenUp \/ Forget
      PROVE  UNCHANGED vars
  BY <1>5 DEF PageCloses, PageBegins, ReporterReports, StopsFirst, Publish, ReportTakenUp, Forget
<1>6. CASE UNCHANGED reportingVars
  BY <1>6 DEF reportingVars
<1> QED
  BY <1>1, <1>2, <1>3, <1>4, <1>5, <1>6 DEF ReportingNext

(* What the reporter says in one turn is of the session it had open.          *)
LEMMA ReporterSpeaks ==
  ASSUME wire = <<>>, reporting \in ReportSessions \cup {None},
         (stage = "closed") = (reporting = None), stage \in Reporter!Stages,
         NEW s \in ReportSessions \cup {None},
         \/ Reporter!Start \/ Reporter!Progress
         \/ Reporter!Close
         \/ s # None /\ Reporter!Open(s)
  PROVE  /\ wire' \in Seq([event : Events, session : ReportSessions])
         /\ \A i \in DOMAIN wire' : wire'[i].session = reporting
         /\ reporting' \in {None, reporting, s}
         /\ Reporter!Close => reporting' = None
         /\ reporting' # reporting /\ reporting' # None => reporting' = s
         /\ (stage' = "closed") = (reporting' = None)
         /\ stage' \in Reporter!Stages
<1> DEFINE M == [event : Events, session : ReportSessions]
           m(e) == [event |-> e, session |-> reporting]
<1> USE PlaybackAssumption
<1>1. ASSUME reporting # None PROVE \A e \in Events : m(e) \in M
  BY <1>1
<1>2. ASSUME NEW e \in Events, reporting # None, wire' = Append(wire, m(e))
      PROVE  wire' \in Seq(M) /\ \A i \in DOMAIN wire' : wire'[i].session = reporting
  <2>1. wire' = <<m(e)>>
    BY <1>2
  <2> QED
    BY <1>1, <1>2, <2>1
<1>3. ASSUME reporting # None, wire' = wire \o Reporter!Closing
      PROVE  wire' \in Seq(M) /\ \A i \in DOMAIN wire' : wire'[i].session = reporting
  <2>1. m("Started") \in M /\ m("Stopped") \in M
    BY <1>1, <1>3 DEF Events
  <2>2. Reporter!Closing \in {<<m("Started"), m("Stopped")>>, <<m("Stopped")>>}
    BY DEF Reporter!Closing, Reporter!Message
  <2>3. Reporter!Closing \in Seq(M)
    <3>1. ASSUME NEW S, NEW a \in S, NEW b \in S
          PROVE  <<a, b>> \in Seq(S) /\ <<b>> \in Seq(S)
      OBVIOUS
    <3>2. <<m("Started"), m("Stopped")>> \in Seq(M) /\ <<m("Stopped")>> \in Seq(M)
      <4> HIDE DEF M, m
      <4> QED BY <2>1, <3>1
    <3> QED BY <2>2, <3>2
  <2>4. wire' = Reporter!Closing
    BY <1>3, <2>3, ConcatEmptySeq
  <2>5. \A i \in DOMAIN Reporter!Closing : Reporter!Closing[i].session = reporting
    BY <2>2
  <2> QED
    BY <2>3, <2>4, <2>5
<1>4. CASE Reporter!Start \/ Reporter!Progress
  <2>1. reporting # None /\ UNCHANGED reporting
        /\ stage' \in Reporter!Stages /\ stage' # "closed"
        /\ \E e \in Events : wire' = Append(wire, m(e))
    BY <1>4 DEF Reporter!Start, Reporter!Progress, Reporter!Message, Reporter!Stages, Events
  <2>2. ~Reporter!Close
    BY <2>1 DEF Reporter!Close
  <2> QED
    BY <1>2, <2>1, <2>2
<1>5. CASE Reporter!Close
  BY <1>3, <1>5 DEF Reporter!Close, Reporter!Stages
<1>6. CASE s # None /\ Reporter!Open(s)
  <2>1. CASE stage = "closed"
    BY <1>6, <2>1 DEF Reporter!Open, Reporter!Close, Reporter!Stages
  <2>2. CASE stage # "closed"
    BY <1>3, <1>6, <2>2 DEF Reporter!Open, Reporter!Close, Reporter!Stages
  <2> QED BY <2>1, <2>2
<1> QED
  BY <1>4, <1>5, <1>6

(* A report that is enqueued: the line holds what it held and the new one.     *)
LEMMA ReportedLine ==
  ASSUME IInv, LaneInv, NEW e \in Events, NEW s \in ReportSessions, Report(e, s)
  PROVE  /\ \A i \in DOMAIN Line' :
              \/ \E j \in DOMAIN Line : Line'[i] = Line[j]
              \/ Line'[i].event = e /\ Line'[i].of = s
         /\ e = "Stopped" => NewestIs(s)'
         /\ e # "Stopped" =>
              \A q \in ReportSessions : NewestIs(q) => NewestIs(q)'
         /\ IF activeReport = None THEN reportDone' = FALSE
                                  ELSE UNCHANGED <<activeReport, reportDone>>
<1> DEFINE rep == [event |-> e, of |-> s, generation |-> session.generation]
           line == Coalesce(reportQueue, rep)
           lead == IF activeReport = None THEN 0 ELSE 1
<1>0. /\ reportQueue \in Seq(Reports) /\ activeReport \in Reports \cup {None}
      /\ \A i \in DOMAIN reportQueue : BelongsToSession(reportQueue[i])
      /\ Len(reportQueue) \in Nat /\ DOMAIN reportQueue = 1 .. Len(reportQueue)
  BY LenProperties DEF LaneInv, ReportsTypeOK
<1>1. rep \in Reports /\ BelongsToSession(rep) /\ rep.event = e /\ rep.of = s
  BY DEF Report, Reports, BelongsToSession, IInv, FlagsTypeOK
<1>2. StartNextReport(line, activeReport = None)
  BY DEF Report
<1> HIDE DEF rep
<1>3. PICK rest \in Seq(Reports), kept \in SUBSET DOMAIN reportQueue :
        /\ line = Append(rest, rep)
        /\ {i \in DOMAIN reportQueue : IsTerminal(reportQueue[i])} \subseteq kept
        /\ MovedUp(reportQueue, rest, kept)
  BY <1>0, <1>1, CoalesceKeeps
<1>4. /\ line \in Seq(Reports)
      /\ \A i \in DOMAIN line : BelongsToSession(line[i])
  BY <1>0, <1>1, CoalesceKeeps
<1>5. /\ Len(rest) \in Nat /\ DOMAIN line = 1 .. Len(rest) + 1 /\ Len(line) = Len(rest) + 1
      /\ \A i \in 1 .. Len(rest) : line[i] = rest[i]
      /\ line[Len(rest) + 1] = rep
  BY <1>1, <1>3, AppendProperties, LenProperties
<1> HIDE DEF line
<1>6. IF activeReport = None THEN Line' = line /\ reportDone' = FALSE
      ELSE reportQueue' = line /\ UNCHANGED <<activeReport, reportDone>>
  <2>1. CASE activeReport = None
    <3>1. StartNextReport(line, TRUE)
      BY <1>2, <2>1
    <3> QED
      BY <1>0, <1>4, <2>1, <3>1, NothingForeign
  <2>2. CASE activeReport # None
    <3>1. StartNextReport(line, FALSE)
      BY <1>2, <2>2
    <3> QED
      BY <1>0, <1>4, <2>2, <3>1, NothingForeign
  <2> QED
    BY <2>1, <2>2
<1>7. /\ DOMAIN Line = 1 .. Len(reportQueue) + lead
      /\ \A i \in 1 .. Len(reportQueue) : Line[i + lead] = reportQueue[i]
      /\ activeReport # None => Line[1] = activeReport
  <2>1. CASE activeReport = None
    <3>1. Line = reportQueue
      BY <2>1, LineIsSeq DEF LaneInv
    <3>2. \A i \in 1 .. Len(reportQueue) : i + lead = i
      BY <1>0, <2>1
    <3> QED
      BY <1>0, <2>1, <3>1, <3>2
  <2>2. CASE activeReport # None
    <3>1. lead = 1
      BY <2>2
    <3> HIDE DEF lead
    <3> QED
      BY <1>0, <2>2, <3>1, LineIsSeq DEF LaneInv
  <2> QED
    BY <2>1, <2>2
<1>8. /\ DOMAIN Line' = 1 .. Len(rest) + 1 + lead
      /\ \A i \in 1 .. Len(rest) + 1 : Line'[i + lead] = line[i]
      /\ activeReport # None => Line'[1] = activeReport
  <2>1. CASE activeReport = None
    BY <1>5, <1>6, <2>1
  <2>2. CASE activeReport # None
    <3>1. activeReport \in Reports /\ Line' = <<activeReport>> \o line
      BY <1>0, <1>6, <2>2 DEF Line
    <3>2. /\ Line' \in Seq(Reports) /\ Len(Line') = Len(line) + 1
          /\ Line'[1] = activeReport
          /\ \A i \in 1 .. Len(line) : Line'[i + 1] = line[i]
      BY <1>4, <3>1, LedQueue
    <3>3. DOMAIN Line' = 1 .. Len(Line')
      BY <3>2, LenProperties
    <3> QED
      BY <1>5, <2>2, <3>2, <3>3
  <2> QED
    BY <2>1, <2>2
<1>l. lead \in {0, 1} /\ (activeReport # None <=> lead = 1)
  OBVIOUS
<1> HIDE DEF lead
(* Where each place of the new line comes from.                               *)
<1>9. ASSUME NEW i \in DOMAIN Line'
      PROVE  \/ i = Len(rest) + 1 + lead /\ Line'[i] = rep
             \/ i = 1 /\ lead = 1 /\ Line'[i] = Line[1] /\ 1 \in DOMAIN Line
             \/ \E k \in kept : /\ i = Rank(kept, k) + lead /\ Rank(kept, k) \in 1 .. Len(rest)
                               /\ Line'[i] = Line[k + lead] /\ k + lead \in DOMAIN Line
  <2>1. CASE i = 1 /\ lead = 1
    BY <1>0, <1>7, <1>8, <1>l, <2>1
  <2>2. CASE i - lead \in 1 .. Len(rest)
    <3>1. PICK k \in kept : Rank(kept, k) = i - lead
      BY <1>3, <2>2 DEF MovedUp
    <3>2. rest[i - lead] = reportQueue[k] /\ k \in 1 .. Len(reportQueue)
      BY <1>0, <1>3, <3>1 DEF MovedUp
    <3>3. Line'[(i - lead) + lead] = line[i - lead] /\ (i - lead) + lead = i
      BY <1>5, <1>8, <1>l, <2>2
    <3>4. Line'[i] = Line[k + lead] /\ k + lead \in DOMAIN Line
      BY <1>0, <1>5, <1>7, <1>l, <2>2, <3>2, <3>3
    <3> QED
      BY <1>l, <2>2, <3>1, <3>3, <3>4
  <2>3. CASE i = Len(rest) + 1 + lead
    BY <1>5, <1>8, <1>l, <2>3
  <2> QED
    BY <1>5, <1>8, <1>l, <2>1, <2>2, <2>3
<1>10. ASSUME NEW i \in DOMAIN Line'
       PROVE  \/ \E j \in DOMAIN Line : Line'[i] = Line[j]
              \/ Line'[i].event = e /\ Line'[i].of = s
  BY <1>1, <1>9
<1>11. ASSUME e = "Stopped" PROVE NewestIs(s)'
  <2> DEFINE last == Len(rest) + 1 + lead
  <2>1. last \in DOMAIN Line' /\ Line'[last] = rep
    <3>1. Line'[(Len(rest) + 1) + lead] = line[Len(rest) + 1]
      BY <1>5, <1>8
    <3> QED
      BY <1>5, <1>8, <1>l, <3>1
  <2>2. \A j \in DOMAIN Line' : ~ last < j
    BY <1>5, <1>8, <1>l
  <2> QED
    BY <1>1, <1>11, <2>1, <2>2 DEF NewestIs, IsStop
<1>12. ASSUME e # "Stopped", NEW q \in ReportSessions, NewestIs(q) PROVE NewestIs(q)'
  <2>1. PICK i \in DOMAIN Line :
          /\ IsStop(Line[i], q)
          /\ \A j \in DOMAIN Line : i < j => Line[j].event # "Stopped"
    BY <1>12 DEF NewestIs
  <2>2. CASE lead = 1 /\ i = 1
    <3>1. 1 \in DOMAIN Line' /\ Line'[1] = Line[1]
      BY <1>5, <1>7, <1>8, <1>l, <2>2
    <3>2. ASSUME NEW j \in DOMAIN Line', 1 < j PROVE Line'[j].event # "Stopped"
      <4>1. CASE Line'[j] = rep
        BY <1>1, <1>12, <4>1
      <4>2. ASSUME NEW k \in kept, Rank(kept, k) \in 1 .. Len(rest),
                   Line'[j] = Line[k + lead], k + lead \in DOMAIN Line
            PROVE  Line'[j].event # "Stopped"
        <5>1. 1 < k + lead
          BY <1>0, <2>2, <4>2
        <5> QED
          BY <2>1, <2>2, <4>2, <5>1
      <4> QED
        BY <1>9, <3>2, <4>1, <4>2
    <3> QED
      BY <2>1, <2>2, <3>1, <3>2 DEF NewestIs
  <2>3. CASE ~ (lead = 1 /\ i = 1)
    <3> DEFINE k0 == i - lead
               at == Rank(kept, k0) + lead
    <3>1. k0 \in 1 .. Len(reportQueue) /\ k0 + lead = i
      BY <1>0, <1>7, <1>l, <2>3
    <3>2. reportQueue[k0] = Line[i]
      BY <1>7, <3>1
    <3>3. k0 \in kept
      BY <1>0, <1>3, <2>1, <3>1, <3>2 DEF IsTerminal, IsStop
    <3>4. Rank(kept, k0) \in 1 .. Len(rest) /\ rest[Rank(kept, k0)] = reportQueue[k0]
      BY <1>3, <3>3 DEF MovedUp
    <3>5. at \in DOMAIN Line' /\ Line'[at] = Line[i]
      BY <1>5, <1>8, <1>l, <3>2, <3>4
    <3>6. ASSUME NEW j \in DOMAIN Line', at < j PROVE Line'[j].event # "Stopped"
      <4>1. CASE Line'[j] = rep
        BY <1>1, <1>12, <4>1
      <4>2. ASSUME NEW k \in kept, j = Rank(kept, k) + lead,
                   Rank(kept, k) \in 1 .. Len(rest),
                   Line'[j] = Line[k + lead], k + lead \in DOMAIN Line
            PROVE  Line'[j].event # "Stopped"
        <5>1. Rank(kept, k0) < Rank(kept, k)
          BY <1>l, <3>4, <3>6, <4>2
        <5>2. ~ k < k0 /\ k # k0
          <6>1. k < k0 => Rank(kept, k) < Rank(kept, k0)
            BY <1>3, <3>3 DEF MovedUp
          <6> QED
            BY <3>4, <4>2, <5>1, <6>1
        <5>3. i < k + lead
          BY <1>0, <1>l, <3>1, <5>2
        <5> QED
          BY <2>1, <4>2, <5>3
      <4>3. j # 1
        BY <1>l, <3>4, <3>6
      <4> QED
        BY <1>9, <4>1, <4>2, <4>3
    <3> QED
      BY <2>1, <3>5, <3>6 DEF NewestIs
  <2> QED
    BY <2>2, <2>3
<1> QED
  BY <1>6, <1>10, <1>11, <1>12

(* It brings one name into the line at most.                                  *)
LEMMA ReportedNames ==
  ASSUME IInv, LaneInv, NEW e \in Events, NEW s \in ReportSessions, Report(e, s)
  PROVE  \A i \in DOMAIN Line' :
           (\E j \in DOMAIN Line : Line'[i] = Line[j]) \/ Line'[i].of = s
<1>1. \A i \in DOMAIN Line' :
        \/ \E j \in DOMAIN Line : Line'[i] = Line[j]
        \/ Line'[i].event = e /\ Line'[i].of = s
  BY ReportedLine
<1> QED BY <1>1

(* A report that is finished leaves the head of the line.                      *)
LEMMA FinishedLine ==
  ASSUME LaneInv, FinishReport
  PROVE  /\ \A i \in DOMAIN Line' : \E j \in DOMAIN Line : Line'[i] = Line[j]
         /\ \A q \in ReportSessions : NewestIs(q) /\ Waits(q)' => NewestIs(q)'
         /\ reportDone' = FALSE
<1>1. /\ reportQueue \in Seq(Reports) /\ activeReport \in Reports /\ activeReport # None
      /\ \A i \in DOMAIN reportQueue : BelongsToSession(reportQueue[i])
      /\ Len(reportQueue) \in Nat /\ DOMAIN reportQueue = 1 .. Len(reportQueue)
  BY LenProperties DEF FinishReport, LaneInv, ReportsTypeOK
<1>2. Line' = reportQueue /\ reportDone' = FALSE
  BY <1>1, NothingForeign DEF FinishReport
<1>3. /\ DOMAIN Line = 1 .. Len(reportQueue) + 1
      /\ \A i \in 1 .. Len(reportQueue) : Line[i + 1] = reportQueue[i]
  BY <1>1, LineIsSeq DEF LaneInv
<1>4. ASSUME NEW i \in DOMAIN Line'
      PROVE  i \in Nat /\ i + 1 \in DOMAIN Line /\ Line'[i] = Line[i + 1]
  BY <1>1, <1>2, <1>3
<1>5. ASSUME NEW q \in ReportSessions, NewestIs(q), Waits(q)' PROVE NewestIs(q)'
  <2>1. PICK i \in DOMAIN Line :
          /\ IsStop(Line[i], q)
          /\ \A j \in DOMAIN Line : i < j => Line[j].event # "Stopped"
    BY <1>5 DEF NewestIs
  <2>2. PICK n \in DOMAIN Line' : Line'[n].event = "Stopped"
    BY <1>5 DEF Waits, IsStop
  <2>3. ~ i < n + 1
    BY <1>4, <2>1, <2>2
  <2>4. i - 1 \in DOMAIN Line' /\ (i - 1) + 1 = i
    BY <1>1, <1>2, <1>3, <2>2, <2>3
  <2>5. Line'[i - 1] = Line[i]
    BY <1>4, <2>4
  <2>6. ASSUME NEW j \in DOMAIN Line', i - 1 < j PROVE Line'[j].event # "Stopped"
    <3>1. i < j + 1
      BY <1>3, <1>4, <2>6
    <3> QED
      BY <1>4, <2>1, <3>1
  <2> QED
    BY <2>1, <2>4, <2>5, <2>6 DEF NewestIs
<1> QED
  BY <1>2, <1>4, <1>5

(* The Stopped report a switch waits for is the newest in line.                *)
LEMMA NewestIsAwaited ==
  ASSUME LaneInv, NEW s \in ReportSessions, NewestIs(s)
  PROVE  LatestStopped = s
<1> DEFINE stops == {i \in DOMAIN Line : Line[i].event = "Stopped"}
           last  == CHOOSE i \in stops : \A j \in stops : j <= i
<1>1. DOMAIN Line = 1 .. Len(Line) /\ Len(Line) \in Nat
  BY LineIsSeq DEF LaneInv
<1>2. PICK i \in DOMAIN Line :
        /\ IsStop(Line[i], s)
        /\ \A j \in DOMAIN Line : i < j => Line[j].event # "Stopped"
  BY DEF NewestIs
<1>3. i \in stops /\ \A j \in stops : j <= i
  BY <1>1, <1>2 DEF IsStop
<1>4. last \in stops /\ \A j \in stops : j <= last
  BY <1>3
<1>5. last = i
  BY <1>1, <1>3, <1>4
<1> QED
  BY <1>2, <1>3, <1>5 DEF LatestStopped, IsStop

(* What is in line stays there while the line is left alone.                  *)
LEMMA LineUnmoved ==
  ASSUME UNCHANGED reportQueue, UNCHANGED activeReport
  PROVE  /\ Line' = Line
         /\ \A s : (Waits(s)' <=> Waits(s)) /\ (NewestIs(s)' <=> NewestIs(s))
<1>1. Line' = Line
  BY DEF Line
<1> QED
  BY <1>1 DEF Waits, NewestIs

(* The fence empties the queue; what is being sent stays.                      *)
LEMMA LineIsCut ==
  ASSUME LaneInv, reportQueue' = <<>>, UNCHANGED activeReport
  PROVE  /\ \A i \in DOMAIN Line' : \E j \in DOMAIN Line : Line'[i] = Line[j]
         /\ \A s : Waits(s)' => Waits(s) /\ NewestIs(s)'
<1>1. CASE activeReport = None
  <2>1. Line' = <<>> /\ DOMAIN Line' = {}
    BY <1>1 DEF Line
  <2> QED
    BY <2>1 DEF Waits
<1>2. CASE activeReport # None
  <2>1. Line' = <<activeReport>> /\ DOMAIN Line' = {1}
    BY <1>2 DEF Line
  <2>2. 1 \in DOMAIN Line /\ Line[1] = activeReport
    BY <1>2, LineIsSeq DEF LaneInv
  <2>3. /\ Line'[1] = Line[1]
        /\ \A i, j \in DOMAIN Line' : i = 1 /\ ~ i < j
    BY <2>1, <2>2
  <2> QED
    BY <2>1, <2>2, <2>3 DEF Waits, NewestIs
<1> QED
  BY <1>1, <1>2

(* Where nothing is said or shown anew, no session comes to life.              *)
LEMMA LiveShrinks ==
  ASSUME NEW s \in ReportSessions, Live(s)',
         undisturbed' \ stopped' \subseteq undisturbed \ stopped,
         shown' \in {shown, None}, reporting' \in {reporting, None},
         \A i \in DOMAIN wire' : \E j \in DOMAIN wire : wire'[i] = wire[j],
         Waits(s)' => Waits(s)
  PROVE  Live(s)
<1>1. s # None
  BY PlaybackAssumption
<1>2. OnWire(s)' => OnWire(s)
  BY DEF OnWire
<1> QED
  BY <1>1, <1>2 DEF Live

(* What is guarded stays so while the lane is not entered and a switch that    *)
(* waits is left alone or dropped.                                           *)
LEMMA GuardStays ==
  ASSUME NEW s \in ReportSessions, Guarded(s),
         playback' = playback,
         activePrepare' \in {activePrepare, NoRequest},
         queuedPrepare' \in {queuedPrepare, NoRequest},
         PrepareRunning' => PrepareRunning,
         shown' \in {shown, None}, reporting' \in {reporting, None},
         \A i \in DOMAIN wire' : \E j \in DOMAIN wire : wire'[i] = wire[j],
         Waits(s)' => Waits(s) /\ (NewestIs(s) => NewestIs(s)'),
         \/ afterStopSerial' = NoRequest
         \/ UNCHANGED <<afterStop, afterStopOf, afterStopSerial>>
  PROVE  Guarded(s)'
<1>1. OnWire(s)' => OnWire(s)
  BY DEF OnWire
<1>2. shown' \in {None, s} /\ playback' = s
      /\ activePrepare' = NoRequest /\ queuedPrepare' = NoRequest /\ ~PrepareRunning'
  BY DEF Guarded
<1>3. Waits(s)' => /\ reporting' \in {None, s}
                   /\ \A i \in DOMAIN wire' : wire'[i].session = s
                   /\ NewestIs(s)'
  BY DEF Guarded
<1>4. OnWire(s)' => reporting' \in {None, s}
  BY <1>1 DEF Guarded
<1>5. afterStopSerial' # NoRequest => afterStop' # NoRequest /\ afterStopOf' = s
  BY DEF Guarded
<1> QED
  BY <1>2, <1>3, <1>4, <1>5 DEF Guarded
-----------------------------------------------------------------------------
(* Types. *)

LEMMA ReportingTyped ==
  ASSUME ReportingInv, TypeOK', [ReportingNext]_reportingVars
  PROVE  ReportingTypeOK'
<1>0. /\ TypeOK /\ ReportingTypeOK /\ TurnInv
  BY DEF ReportingInv, LinkInv, ReportingTypeOK
<1> DEFINE M == [event : Events, session : ReportSessions]
<1>t. /\ stage \in Reporter!Stages /\ reporting \in ReportSessions \cup {None}
      /\ wire \in Seq(M)
      /\ calling \in {"none", "switch", "shutdown"}
      /\ shown \in ReportSessions \cup {None}
      /\ playback \in ReportSessions \cup {None}
      /\ result \in ReportSessions \cup {None}
      /\ taken \in {"no", "refused", "sent"}
      /\ issued \subseteq ReportSessions
      /\ undisturbed \subseteq ReportSessions /\ stopped \subseteq ReportSessions
  BY <1>0 DEF ReportingTypeOK
<1>a. ASSUME stage' \in Reporter!Stages, reporting' \in ReportSessions \cup {None},
             wire' \in Seq(M), calling' \in {"none", "switch", "shutdown"},
             shown' \in ReportSessions \cup {None},
             undisturbed' \subseteq ReportSessions,
             playback' \in ReportSessions \cup {None},
             result' \in ReportSessions \cup {None},
             taken' \in {"no", "refused", "sent"},
             issued' \subseteq ReportSessions, stopped' \subseteq ReportSessions
      PROVE  ReportingTypeOK'
  BY <1>a DEF ReportingTypeOK
<1>r. UNCHANGED reporterVars =>
        stage' \in Reporter!Stages /\ reporting' \in ReportSessions \cup {None} /\ wire' \in Seq(M)
  BY <1>t DEF reporterVars
<1>b. BackendWaits =>
        /\ playback' \in ReportSessions \cup {None}
        /\ result' \in ReportSessions \cup {None}
        /\ taken' \in {"no", "refused", "sent"}
        /\ issued' \subseteq ReportSessions /\ stopped' \subseteq ReportSessions
  BY <1>t DEF BackendWaits
<1>c. UNCHANGED backendVars =>
        /\ playback' \in ReportSessions \cup {None}
        /\ result' \in ReportSessions \cup {None}
        /\ taken' \in {"no", "refused", "sent"}
        /\ issued' \subseteq ReportSessions /\ stopped' \subseteq ReportSessions
  BY <1>t DEF backendVars
<1>l. UNCHANGED linkVars =>
        /\ calling' \in {"none", "switch", "shutdown"}
        /\ shown' \in ReportSessions \cup {None}
        /\ undisturbed' \subseteq ReportSessions
  BY <1>t DEF linkVars
<1>s. ASSUME wire = <<>>,
             \/ Reporter!Start \/ Reporter!Progress \/ Reporter!Close
             \/ shown # None /\ Reporter!Open(shown)
      PROVE  stage' \in Reporter!Stages /\ reporting' \in ReportSessions \cup {None} /\ wire' \in Seq(M)
  BY <1>0, <1>s, <1>t, ReporterSpeaks DEF TurnInv
<1>1. ASSUME NEW v \in BOOLEAN, PagePrepares(v) PROVE ReportingTypeOK'
  BY <1>1, <1>a, <1>b, <1>r, <1>t DEF PagePrepares, Disturb
<1>2. ASSUME NEW v \in BOOLEAN, PageSwitches(v) PROVE ReportingTypeOK'
  BY <1>2, <1>a, <1>b, <1>r, <1>t DEF PageSwitches
<1>3. CASE PageCancels
  BY <1>3, <1>a, <1>b, <1>r, <1>l DEF PageCancels
<1>4. CASE PageCloses
  BY <1>4, <1>a, <1>c, <1>r, <1>s, <1>t DEF PageCloses, ReporterStops, Turn
<1>5. CASE PageBegins
  BY <1>5, <1>a, <1>c, <1>l, <1>s DEF PageBegins, Turn
<1>6. CASE ReporterReports
  BY <1>6, <1>a, <1>c, <1>l, <1>s DEF ReporterReports, Turn
<1>7. CASE StopsFirst
  BY <1>7, <1>a, <1>c, <1>r, <1>s, <1>t DEF StopsFirst, ReporterStops, Turn
<1>8. CASE ServicesShutDown
  BY <1>8, <1>a, <1>b, <1>r, <1>t DEF ServicesShutDown
<1>9. CASE PortTakes
  <2>1. wire' \in Seq(M) /\ UNCHANGED <<stage, reporting>>
    BY <1>9, <1>t, HeadTailProperties DEF PortTakes, Reporter!Take
  <2> QED
    BY <1>9, <1>a, <1>b, <1>l, <1>t, <2>1 DEF PortTakes
<1>10. CASE PreparationEnds
  <2>1. /\ UNCHANGED reporterVars /\ result' = None
        /\ UNCHANGED <<calling, playback, taken, issued, stopped>>
    BY <1>10 DEF PreparationEnds
  <2>2. shown' \in ReportSessions \cup {None} /\ undisturbed' \subseteq ReportSessions
    BY <1>10, <1>t DEF PreparationEnds
  <2> QED
    BY <1>a, <1>r, <1>t, <2>1, <2>2
<1>11. CASE ReportEnds
  BY <1>11, <1>a, <1>r, <1>l, <1>t DEF ReportEnds
<1>12. CASE TimerFires
  BY <1>12, <1>a, <1>b, <1>r, <1>l DEF TimerFires
<1>13. CASE TransitionBegins
  BY <1>13, <1>a, <1>b, <1>t DEF TransitionBegins, Reporter!Abandon, Reporter!Stages, Disturb
<1>14. CASE TransitionEnds
  BY <1>14, <1>a, <1>b, <1>r, <1>l DEF TransitionEnds
<1>15. CASE Publish
  BY <1>15, <1>a, <1>r, <1>l, <1>t DEF Publish
<1>16. CASE PrepareReturns
  BY <1>16, <1>a, <1>c, <1>r, <1>l DEF PrepareReturns
<1>17. CASE ReportTakenUp
  <2>1. activeReport.of \in ReportSessions
    BY <1>0, <1>17 DEF TypeOK, ReportsTypeOK, Reports, ReportTakenUp
  <2> QED
    BY <1>17, <1>a, <1>r, <1>l, <1>t, <2>1 DEF ReportTakenUp
<1>18. CASE ReportReturns
  BY <1>18, <1>a, <1>r, <1>l, <1>t DEF ReportReturns
<1>19. CASE Forget
  BY <1>19, <1>a, <1>r, <1>l, <1>t DEF Forget
<1>20. CASE UNCHANGED reportingVars
  BY <1>20, <1>a, <1>c, <1>r, <1>l DEF reportingVars
<1> QED
  BY <1>1, <1>2, <1>3, <1>4, <1>5, <1>6, <1>7, <1>8, <1>9, <1>10, <1>11, <1>12,
     <1>13, <1>14, <1>15, <1>16, <1>17, <1>18, <1>19, <1>20 DEF ReportingNext
-----------------------------------------------------------------------------
(* When the view model takes a result, no switch is about: its request is the  *)
(* newest, and a switch that waits would be newer.                           *)
LEMMA ShowsNewest ==
  ASSUME IInv, activePrepare # NoRequest, activePrepare = called,
         AcceptsLatest(activePrepare)
  PROVE  afterStopSerial = NoRequest
<1>1. /\ latest = called /\ called \in Nat /\ afterStopSerial \in 0 .. called
      /\ afterStopSerial # NoRequest => latest < afterStopSerial
  BY PlaybackAssumption DEF IInv, CallsTypeOK, LaneIsNewest, AcceptsLatest
<1> QED
  BY <1>1

(* A switch that waits has silenced the page; nothing is said before it ends.  *)
LEMMA TurnKept ==
  ASSUME ReportingInv, [ReportingNext]_reportingVars
  PROVE  TurnInv'
<1> USE PlaybackAssumption
<1>0. /\ IInv /\ ReportingTypeOK
      /\ (stage = "closed") = (reporting = None)
      /\ \A i, j \in DOMAIN wire : wire[i].session = wire[j].session
      /\ calling # "none" => reporting = None
      /\ calling = "switch" => shown = None
      /\ afterStopSerial # NoRequest => shown = None /\ reporting = None /\ wire = <<>>
      /\ afterStop \in {NoRequest, afterStopSerial}
      /\ fenced /\ ~shuttingDown => undisturbed = {}
  BY DEF ReportingInv, LinkInv, TurnInv
<1>t. /\ reporting \in ReportSessions \cup {None} /\ stage \in Reporter!Stages
      /\ shown \in ReportSessions \cup {None}
      /\ calling \in {"none", "switch", "shutdown"}
      /\ wire \in Seq([event : Events, session : ReportSessions])
  BY <1>0 DEF ReportingTypeOK
(* A turn in which the reporter is silent or abandons its session.            *)
<1>a. ASSUME \/ UNCHANGED reporterVars
             \/ wire' = <<>> /\ stage' = "closed" /\ reporting' = None,
             calling' \in {"none", calling}, shown' \in {None, shown},
             \/ afterStopSerial' = NoRequest
             \/ afterStopSerial' = afterStopSerial
             \/ shown = None /\ reporting' = None /\ wire' = <<>>,
             afterStop' \in {NoRequest, afterStopSerial'}
                \/ UNCHANGED <<afterStop, afterStopSerial>>,
             \/ undisturbed' = {}
             \/ undisturbed' = undisturbed /\ (fenced' /\ ~shuttingDown' => fenced /\ ~shuttingDown)
      PROVE  TurnInv'
  <2>1. /\ (stage' = "closed") = (reporting' = None)
        /\ \A i, j \in DOMAIN wire' : wire'[i].session = wire'[j].session
    BY <1>0, <1>a DEF reporterVars
  <2>2. /\ calling' # "none" => reporting' = None
        /\ calling' = "switch" => shown' = None
    BY <1>0, <1>a DEF reporterVars
  <2>3. /\ afterStopSerial' # NoRequest => shown' = None /\ reporting' = None /\ wire' = <<>>
        /\ afterStop' \in {NoRequest, afterStopSerial'}
    BY <1>0, <1>a DEF reporterVars
  <2>4. fenced' /\ ~shuttingDown' => undisturbed' = {}
    BY <1>0, <1>a
  <2> QED
    BY <2>1, <2>2, <2>3, <2>4 DEF TurnInv
(* A turn in which it speaks.                                                 *)
<1>s. ASSUME Turn, shown' \in {shown, None},
             \/ /\ Reporter!Start \/ Reporter!Progress \/ Reporter!Close
                /\ calling' = "none" \/ Reporter!Close
             \/ shown # None /\ Reporter!Open(shown) /\ calling' = "none",
             calling' = "switch" => shown' = None,
             UNCHANGED <<vars, undisturbed>>
      PROVE  TurnInv'
  <2>1. /\ \A i \in DOMAIN wire' : wire'[i].session = reporting
        /\ Reporter!Close => reporting' = None
        /\ reporting' \in {None, reporting, shown}
        /\ (stage' = "closed") = (reporting' = None)
    BY <1>0, <1>s, <1>t, ReporterSpeaks DEF Turn
  <2>2. afterStopSerial = NoRequest
    <3>1. reporting # None \/ shown # None
      BY <1>0, <1>s DEF Reporter!Start, Reporter!Progress, Reporter!Close
    <3> QED
      BY <1>0, <3>1
  <2>3. calling' # "none" => reporting' = None
    BY <1>s, <2>1
  <2> QED
    BY <1>0, <1>s, <2>1, <2>2, <2>3 DEF TurnInv, vars, switchVars, sessionVars
<1>1. ASSUME NEW v \in BOOLEAN, PagePrepares(v) PROVE TurnInv'
  BY <1>0, <1>1, <1>a DEF PagePrepares, Prepare, PrepareInContext, InvalidateAfterStop, Disturb, sessionVars
<1>2. ASSUME NEW v \in BOOLEAN, PageSwitches(v) PROVE TurnInv'
  <2>1. /\ shown = None /\ reporting' = None /\ wire' = <<>>
        /\ UNCHANGED reporterVars /\ calling' = "none" /\ UNCHANGED <<shown, undisturbed>>
        /\ UNCHANGED sessionVars
    BY <1>0, <1>2 DEF PageSwitches, SwitchTo, reporterVars
  <2>2. afterStop' \in {NoRequest, afterStopSerial'} \/ UNCHANGED <<afterStop, afterStopSerial>>
    BY <1>2 DEF PageSwitches, SwitchTo, switchVars
  <2> QED
    BY <1>a, <2>1, <2>2 DEF sessionVars
<1>3. CASE PageCancels
  BY <1>0, <1>3, <1>a DEF PageCancels, CancelPreparation, ResetPreparation, InvalidateAfterStop, sessionVars, linkVars
<1>4. CASE PageCloses
  <2>1. /\ UNCHANGED <<vars, calling, undisturbed>> /\ shown' = None /\ Turn
        /\ Reporter!Close \/ UNCHANGED reporterVars
    BY <1>4 DEF PageCloses, ReporterStops
  <2>2. CASE Reporter!Close
    BY <1>s, <2>1, <2>2 DEF Turn
  <2>3. CASE UNCHANGED reporterVars
    BY <1>0, <1>a, <2>1, <2>3 DEF vars, switchVars, sessionVars
  <2> QED BY <2>1, <2>2, <2>3
<1>5. CASE PageBegins
  BY <1>5, <1>s DEF PageBegins, linkVars, Turn
<1>6. CASE ReporterReports
  BY <1>6, <1>s DEF ReporterReports, linkVars, Turn
<1>7. CASE StopsFirst
  <2>1. /\ UNCHANGED <<vars, undisturbed>> /\ Turn
        /\ \/ calling' = "switch" /\ shown' = None
           \/ calling' = "shutdown" /\ shown' = shown
        /\ \/ Reporter!Close
           \/ stage = "closed" /\ UNCHANGED reporterVars
    BY <1>7 DEF StopsFirst, ReporterStops
  <2>2. CASE Reporter!Close
    BY <1>s, <2>1, <2>2
  <2>3. CASE stage = "closed" /\ UNCHANGED reporterVars
    BY <1>0, <2>1, <2>3 DEF vars, switchVars, sessionVars, reporterVars, TurnInv
  <2> QED BY <2>1, <2>2, <2>3
<1>8. CASE ServicesShutDown
  BY <1>0, <1>8, <1>a DEF ServicesShutDown, Shutdown, ResetPreparation, InvalidateAfterStop
<1>9. CASE PortTakes
  <2>1. /\ UNCHANGED <<stage, reporting, calling, shown, undisturbed>>
        /\ wire # <<>> /\ wire' = Tail(wire)
    BY <1>9 DEF PortTakes, Reporter!Take, linkVars
  <2>2. UNCHANGED <<switchVars, sessionVars>>
    BY <1>9 DEF PortTakes, Report, vars
  <2>3. \A i, j \in DOMAIN wire' : wire'[i].session = wire'[j].session
    <3>1. \A i \in DOMAIN Tail(wire) : i + 1 \in DOMAIN wire /\ Tail(wire)[i] = wire[i + 1]
      BY <1>t, <2>1, HeadTailProperties, LenProperties
    <3> QED
      BY <1>0, <2>1, <3>1
  <2> QED
    BY <1>0, <2>1, <2>2, <2>3 DEF TurnInv, switchVars, sessionVars
<1>10. CASE PreparationEnds
  <2>1. /\ UNCHANGED <<reporterVars, calling, sessionVars, switchVars>> /\ Turn
    BY <1>10 DEF PreparationEnds, FinishPrepare
  <2>2. CASE UNCHANGED <<shown, undisturbed>>
    BY <1>0, <1>a, <2>1, <2>2 DEF switchVars, sessionVars
  <2>3. CASE /\ activePrepare # NoRequest /\ activePrepare = called
             /\ Available /\ AcceptsLatest(activePrepare)
    <3>1. afterStopSerial = NoRequest
      BY <1>0, <2>3, ShowsNewest
    <3> QED
      BY <1>0, <2>1, <2>3, <3>1 DEF TurnInv, Turn, reporterVars, switchVars, sessionVars, Available
  <2> QED
    BY <1>10, <2>2, <2>3 DEF PreparationEnds
<1>11. CASE ReportEnds
  BY <1>0, <1>11, <1>a DEF ReportEnds, FinishReport, linkVars, sessionVars
<1>12. CASE TimerFires
  <2>1. PICK r \in Requests : AfterStopTimer(r)
    BY <1>12 DEF TimerFires
  <2>2. /\ UNCHANGED sessionVars
        /\ \/ afterStopSerial' = NoRequest /\ afterStop' = NoRequest
           \/ UNCHANGED <<afterStop, afterStopSerial>>
    BY <2>1 DEF AfterStopTimer, PrepareInContext, InvalidateAfterStop
  <2> QED
    BY <1>0, <1>12, <1>a, <2>2 DEF TimerFires, linkVars, sessionVars
<1>13. CASE TransitionBegins
  BY <1>0, <1>13, <1>a DEF TransitionBegins, Turn, Reporter!Abandon, Disturb,
       FenceSessionTransition, ResetPreparation, InvalidateAfterStop
<1>14. CASE TransitionEnds
  BY <1>0, <1>14, <1>a DEF TransitionEnds, AbortSessionTransition, CommitSessionTransition,
       linkVars, switchVars
<1>15. CASE Publish \/ ReportTakenUp \/ Forget
  BY <1>0, <1>15, <1>a DEF Publish, ReportTakenUp, Forget, vars, linkVars, switchVars, sessionVars
<1>16. CASE PrepareReturns \/ ReportReturns
  BY <1>0, <1>16, <1>a DEF PrepareReturns, ReportReturns, PrepareWorkerDone, ReportWorkerDone,
       linkVars, switchVars, sessionVars
<1>17. CASE UNCHANGED reportingVars
  BY <1>0, <1>17, <1>a DEF reportingVars, vars, linkVars, switchVars, sessionVars
<1> QED
  BY <1>1, <1>2, <1>3, <1>4, <1>5, <1>6, <1>7, <1>8, <1>9, <1>10, <1>11, <1>12,
     <1>13, <1>14, <1>15, <1>16, <1>17 DEF ReportingNext

(* A job that is done has taken its report up.                                *)
LEMMA TakenKept ==
  ASSUME ReportingInv, [ReportingNext]_reportingVars
  PROVE  TakenInv'
<1> USE PlaybackAssumption
<1>0. /\ IInv /\ LaneInv
      /\ taken # "no" => /\ activeReport # None
                         /\ activeReport.event = "Stopped" => activeReport.of \in stopped
      /\ reportDone => taken # "no"
  BY DEF ReportingInv, LinkInv, TakenInv
<1>a. ASSUME UNCHANGED <<activeReport, taken, stopped>>, reportDone' = reportDone
      PROVE  TakenInv'
  BY <1>0, <1>a DEF TakenInv
<1>1. CASE \/ \E v \in BOOLEAN : PagePrepares(v) \/ PageSwitches(v)
           \/ PageCancels \/ ServicesShutDown \/ TransitionBegins \/ TransitionEnds
           \/ TimerFires
  <2>1. BackendWaits /\ UNCHANGED <<activeReport, reportDone>>
    BY <1>1 DEF PagePrepares, PageSwitches, PageCancels, ServicesShutDown, TransitionBegins,
         TransitionEnds, TimerFires, Prepare, PrepareInContext, SwitchTo, CancelPreparation,
         Shutdown, FenceSessionTransition, AbortSessionTransition, CommitSessionTransition,
         AfterStopTimer, reportVars
  <2> QED
    BY <1>a, <2>1 DEF BackendWaits
<1>2. CASE PageCloses \/ PageBegins \/ ReporterReports \/ StopsFirst
  BY <1>2, <1>a DEF PageCloses, PageBegins, ReporterReports, StopsFirst, vars, reportVars, backendVars
<1>3. CASE PortTakes
  <2>1. BackendWaits
    BY <1>3 DEF PortTakes
  <2>2. CASE UNCHANGED vars
    BY <1>a, <2>1, <2>2 DEF BackendWaits, vars, reportVars
  <2>3. CASE Report(Head(wire).event, Head(wire).session)
    <3>1. wire # <<>> /\ wire \in Seq([event : Events, session : ReportSessions])
      BY <1>3 DEF PortTakes, Reporter!Take, ReportingInv, ReportingTypeOK
    <3>2. Head(wire) \in [event : Events, session : ReportSessions]
      BY <3>1, HeadTailProperties
    <3>4. Head(wire).event \in Events /\ Head(wire).session \in ReportSessions
      BY <3>2
    <3>3. IF activeReport = None THEN reportDone' = FALSE
                               ELSE UNCHANGED <<activeReport, reportDone>>
      BY <1>0, <2>3, <3>4, ReportedLine
    <3> QED
      BY <1>0, <2>1, <3>3 DEF TakenInv, BackendWaits
  <2> QED
    BY <1>3, <2>2, <2>3 DEF PortTakes
<1>4. CASE ReportEnds
  BY <1>0, <1>4, FinishedLine DEF ReportEnds, TakenInv
<1>5. CASE PreparationEnds \/ Publish \/ PrepareReturns \/ Forget
  BY <1>5, <1>a DEF PreparationEnds, Publish, PrepareReturns, Forget, FinishPrepare,
       PrepareWorkerDone, vars, reportVars, backendVars
<1>6. CASE ReportTakenUp
  BY <1>0, <1>6 DEF ReportTakenUp, TakenInv, vars, reportVars
<1>7. CASE ReportReturns
  BY <1>0, <1>7 DEF ReportReturns, ReportWorkerDone, TakenInv
<1>8. CASE UNCHANGED reportingVars
  BY <1>8, <1>a DEF reportingVars, vars, reportVars, backendVars
<1> QED
  BY <1>1, <1>2, <1>3, <1>4, <1>5, <1>6, <1>7, <1>8 DEF ReportingNext

(* The port takes the reports of a turn from the front.                       *)
LEMMA WireTaken ==
  ASSUME wire \in Seq([event : Events, session : ReportSessions]), Reporter!Take
  PROVE  /\ Head(wire) \in [event : Events, session : ReportSessions]
         /\ 1 \in DOMAIN wire /\ Head(wire) = wire[1]
         /\ \A i \in DOMAIN wire' : \E j \in DOMAIN wire : wire'[i] = wire[j]
         /\ UNCHANGED <<stage, reporting>>
<1>1. wire # <<>> /\ wire' = Tail(wire) /\ UNCHANGED <<stage, reporting>>
  BY DEF Reporter!Take
<1>2. /\ Head(wire) \in [event : Events, session : ReportSessions]
      /\ Head(wire) = wire[1] /\ 1 \in DOMAIN wire
  <2> DEFINE M == [event : Events, session : ReportSessions]
  <2>1. wire \in Seq(M)
    OBVIOUS
  <2> HIDE DEF M
  <2>2. Head(wire) \in M /\ Head(wire) = wire[1]
    BY <1>1, <2>1
  <2>3. 1 \in DOMAIN wire
    BY <1>1, <2>1
  <2> QED
    BY <2>2, <2>3 DEF M
<1>3. \A i \in DOMAIN Tail(wire) : i + 1 \in DOMAIN wire /\ Tail(wire)[i] = wire[i + 1]
  BY <1>1, HeadTailProperties, LenProperties
<1> QED
  BY <1>1, <1>2, <1>3

(* No play session is given out twice.                                        *)
LEMMA NamesKept ==
  ASSUME ReportingInv, [ReportingNext]_reportingVars
  PROVE  NameInv'
<1> USE PlaybackAssumption
<1>0. /\ IInv /\ LaneInv /\ ReportingTypeOK
      /\ shown \in issued \cup {None} /\ reporting \in issued \cup {None}
      /\ \A i \in DOMAIN wire : wire[i].session \in issued
      /\ \A i \in DOMAIN Line : Line[i].of \in issued
      /\ result # None =>
           /\ result \in issued \ {shown, reporting}
           /\ \A i \in DOMAIN wire : wire[i].session # result
           /\ \A i \in DOMAIN Line : Line[i].of # result
           /\ activePrepare # NoRequest => playback = result
  BY DEF ReportingInv, LinkInv, NameInv
<1>t. /\ reporting \in ReportSessions \cup {None} /\ stage \in Reporter!Stages
      /\ shown \in ReportSessions \cup {None} /\ issued \subseteq ReportSessions
      /\ wire \in Seq([event : Events, session : ReportSessions])
      /\ (stage = "closed") = (reporting = None)
  BY <1>0 DEF ReportingTypeOK, ReportingInv, LinkInv, TurnInv
<1>a. ASSUME UNCHANGED issued,
             shown' \in {shown, None}, reporting' \in {reporting, None},
             \A i \in DOMAIN wire' : \E j \in DOMAIN wire : wire'[i] = wire[j],
             \A i \in DOMAIN Line' : \E j \in DOMAIN Line : Line'[i] = Line[j],
             result' \in {result, None},
             result' # None /\ activePrepare' # NoRequest =>
                activePrepare' = activePrepare /\ playback' = playback
      PROVE  NameInv'
  <2>1. /\ {shown', reporting'} \subseteq issued' \cup {None}
        /\ \A i \in DOMAIN wire' : wire'[i].session \in issued'
        /\ \A i \in DOMAIN Line' : Line'[i].of \in issued'
    BY <1>0, <1>a
  <2>2. ASSUME result' # None
        PROVE  /\ result' \in issued' \ {shown', reporting'}
               /\ \A i \in DOMAIN wire' : wire'[i].session # result'
               /\ \A i \in DOMAIN Line' : Line'[i].of # result'
               /\ activePrepare' # NoRequest => playback' = result'
    BY <1>0, <1>a, <2>2
  <2> QED
    BY <2>1, <2>2 DEF NameInv
<1>b. BackendWaits =>
        /\ UNCHANGED <<issued, playback>> /\ result' \in {result, None}
        /\ result' # None /\ activePrepare' # NoRequest => activePrepare' = activePrepare
  BY DEF BackendWaits
<1>w. UNCHANGED wire => \A i \in DOMAIN wire' : \E j \in DOMAIN wire : wire'[i] = wire[j]
  OBVIOUS
<1>l. UNCHANGED reportQueue /\ UNCHANGED activeReport =>
        \A i \in DOMAIN Line' : \E j \in DOMAIN Line : Line'[i] = Line[j]
  BY LineUnmoved
<1>s. ASSUME Turn, shown' \in {shown, None},
             \/ Reporter!Start \/ Reporter!Progress \/ Reporter!Close
             \/ shown # None /\ Reporter!Open(shown),
             UNCHANGED <<vars, backendVars>>
      PROVE  NameInv'
  <2>1. /\ wire' \in Seq([event : Events, session : ReportSessions])
        /\ \A i \in DOMAIN wire' : wire'[i].session = reporting
        /\ reporting' \in {None, reporting, shown}
    BY <1>s, <1>t, ReporterSpeaks DEF Turn
  <2>2. ASSUME NEW i \in DOMAIN wire' PROVE reporting # None
    <3> DEFINE M == [event : Events, session : ReportSessions]
    <3>1. wire'[i] \in M
      <4>1. wire' \in Seq(M)
        BY <2>1
      <4> HIDE DEF M
      <4> QED BY <4>1
    <3>2. wire'[i].session \in ReportSessions
      BY <3>1
    <3> QED
      BY <2>1, <3>2
  <2>3. Line' = Line /\ UNCHANGED <<issued, result, playback, activePrepare>>
    BY <1>s, LineUnmoved DEF vars, reportVars, laneVars, backendVars
  <2> QED
    BY <1>0, <1>s, <2>1, <2>2, <2>3 DEF NameInv
<1>1. CASE \/ \E v \in BOOLEAN : PagePrepares(v) \/ PageSwitches(v)
           \/ PageCancels \/ TransitionEnds \/ TimerFires
  <2>1. BackendWaits /\ UNCHANGED <<activeReport, reportQueue, shown, reporting, wire>>
    BY <1>1 DEF PagePrepares, PageSwitches, PageCancels, TransitionEnds, TimerFires, Prepare,
         PrepareInContext, SwitchTo, CancelPreparation, AbortSessionTransition,
         CommitSessionTransition, AfterStopTimer, reportVars, linkVars, reporterVars
  <2> QED
    BY <1>a, <1>b, <1>l, <1>w, <2>1
<1>2. CASE ServicesShutDown \/ TransitionBegins
  <2>1. BackendWaits /\ reportQueue' = <<>> /\ UNCHANGED <<activeReport, shown, wire>>
        /\ reporting' \in {reporting, None}
    BY <1>2 DEF ServicesShutDown, TransitionBegins, Shutdown, FenceSessionTransition,
         Reporter!Abandon, reporterVars
  <2>2. \A i \in DOMAIN Line' : \E j \in DOMAIN Line : Line'[i] = Line[j]
    BY <1>0, <2>1, LineIsCut
  <2> QED
    BY <1>a, <1>b, <1>w, <2>1, <2>2
<1>3. CASE PageCloses \/ PageBegins \/ ReporterReports \/ StopsFirst
  <2>1. /\ Turn /\ shown' \in {shown, None} /\ UNCHANGED <<vars, backendVars>>
        /\ \/ Reporter!Start \/ Reporter!Progress \/ Reporter!Close
           \/ shown # None /\ Reporter!Open(shown)
           \/ UNCHANGED reporterVars
    BY <1>3 DEF PageCloses, PageBegins, ReporterReports, StopsFirst, ReporterStops, linkVars
  <2>2. CASE UNCHANGED reporterVars
    <3>1. UNCHANGED <<reportQueue, activeReport, activePrepare, issued, result, playback, wire, reporting>>
      BY <2>1, <2>2 DEF reporterVars, vars, reportVars, laneVars, backendVars
    <3> QED
      BY <1>a, <1>l, <1>w, <2>1, <3>1
  <2> QED
    BY <1>s, <2>1, <2>2
<1>4. CASE PortTakes
  <2>1. BackendWaits /\ Reporter!Take /\ UNCHANGED shown
    BY <1>4 DEF PortTakes, linkVars
  <2>2. /\ Head(wire) \in [event : Events, session : ReportSessions]
        /\ 1 \in DOMAIN wire /\ Head(wire) = wire[1]
        /\ \A i \in DOMAIN wire' : \E j \in DOMAIN wire : wire'[i] = wire[j]
        /\ UNCHANGED reporting
    BY <1>t, <2>1, WireTaken
  <2>3. CASE UNCHANGED vars
    <3>1. UNCHANGED <<reportQueue, activeReport>>
      BY <2>3 DEF vars, reportVars
    <3> QED
      BY <1>a, <1>b, <1>l, <2>1, <2>2, <3>1
  <2>4. CASE Report(Head(wire).event, Head(wire).session)
    <3> DEFINE e == Head(wire).event
               s == Head(wire).session
    <3>1. e \in Events /\ s \in ReportSessions /\ s \in issued /\ (result # None => s # result)
      BY <1>0, <2>2
    <3> HIDE DEF e, s
    <3>2. Report(e, s)
      BY <2>4 DEF e, s
    <3>3. \A i \in DOMAIN Line' :
            \/ \E j \in DOMAIN Line : Line'[i] = Line[j]
            \/ Line'[i].of = s
      <4>1. IInv /\ LaneInv
        BY <1>0
      <4> QED
        BY <3>1, <3>2, <4>1, ReportedNames
    <3>4. UNCHANGED activePrepare
      BY <3>2 DEF Report, laneVars
    <3>5. UNCHANGED <<issued, playback, result>>
      BY <2>1, <3>4 DEF BackendWaits
    <3> QED
      BY <1>0, <2>1, <2>2, <3>1, <3>3, <3>4, <3>5 DEF NameInv
  <2> QED
    BY <1>4, <2>3, <2>4 DEF PortTakes
<1>5. CASE PreparationEnds
  <2>1. /\ result' = None /\ UNCHANGED <<reporting, wire, issued, reportQueue, activeReport>>
        /\ \/ shown' = shown
           \/ result # None /\ shown' = result
    BY <1>5 DEF PreparationEnds, FinishPrepare, reporterVars, reportVars
  <2>2. Line' = Line
    BY <2>1, LineUnmoved
  <2> QED
    BY <1>0, <2>1, <2>2 DEF NameInv
<1>6. CASE ReportEnds
  <2>1. /\ FinishReport /\ UNCHANGED <<reporting, wire, shown, issued, result, playback, activePrepare>>
    BY <1>6 DEF ReportEnds, FinishReport, reporterVars, linkVars, laneVars
  <2>2. \A i \in DOMAIN Line' : \E j \in DOMAIN Line : Line'[i] = Line[j]
    BY <1>0, <2>1, FinishedLine
  <2> QED
    BY <1>a, <1>w, <2>1, <2>2
<1>7. CASE Publish
  <2>1. PICK s \in ReportSessions \ issued :
          playback' = s /\ result' = s /\ issued' = issued \cup {s}
    BY <1>7 DEF Publish
  <2>2. UNCHANGED <<shown, reporting, wire, reportQueue, activeReport>>
    BY <1>7 DEF Publish, vars, reportVars, reporterVars, linkVars
  <2>3. Line' = Line
    BY <2>2, LineUnmoved
  <2> QED
    BY <1>0, <2>1, <2>2, <2>3 DEF NameInv
<1>8. CASE PrepareReturns \/ ReportTakenUp
  <2>1. UNCHANGED <<shown, reporting, wire, reportQueue, activeReport, issued, result, playback, activePrepare>>
    BY <1>8 DEF PrepareReturns, PrepareWorkerDone, ReportTakenUp, vars, reportVars, laneVars,
         reporterVars, linkVars, backendVars
  <2> QED
    BY <1>a, <1>l, <1>w, <2>1
<1>9. CASE ReportReturns
  <2>1. /\ UNCHANGED <<shown, reporting, wire, reportQueue, activeReport, issued, result, activePrepare>>
        /\ activeReport # None
        /\ playback' = playback \/ playback = activeReport.of
    BY <1>9 DEF ReportReturns, ReportWorkerDone, reporterVars, linkVars, laneVars
  <2>2. Line[1] = activeReport /\ 1 \in DOMAIN Line
    BY <1>0, <2>1, LineIsSeq DEF LaneInv
  <2>3. result # None /\ activePrepare # NoRequest => playback' = playback
    BY <1>0, <2>1, <2>2
  <2> QED
    BY <1>a, <1>l, <1>w, <2>1, <2>3
<1>10. CASE Forget
  <2>1. /\ UNCHANGED <<shown, reporting, wire, reportQueue, activeReport, issued, result, activePrepare>>
        /\ activePrepare = NoRequest
    BY <1>0, <1>10 DEF Forget, vars, reportVars, laneVars, reporterVars, linkVars, IInv,
         NothingCrossesFence
  <2> QED
    BY <1>a, <1>l, <1>w, <2>1
<1>11. CASE UNCHANGED reportingVars
  <2>1. UNCHANGED <<shown, reporting, wire, reportQueue, activeReport, issued, result, playback, activePrepare>>
    BY <1>11 DEF reportingVars, vars, reportVars, laneVars, reporterVars, linkVars, backendVars
  <2> QED
    BY <1>a, <1>l, <1>w, <2>1
<1> QED
  BY <1>1, <1>2, <1>3, <1>4, <1>5, <1>6, <1>7, <1>8, <1>9, <1>10, <1>11 DEF ReportingNext

(* The steps that may concern a session that is live, one by one.             *)

LEMMA SpeakingKeepsLive ==
  ASSUME ReportingInv, Turn, shown' \in {shown, None},
         \/ Reporter!Start \/ Reporter!Progress \/ Reporter!Close
         \/ shown # None /\ Reporter!Open(shown),
         UNCHANGED <<vars, backendVars, undisturbed>>
  PROVE  LiveInv'
<1> SUFFICES ASSUME NEW s \in ReportSessions, Live(s)' PROVE Guarded(s)'
  BY DEF LiveInv
<1>0. /\ reporting \in ReportSessions \cup {None} /\ stage \in Reporter!Stages
      /\ shown \in ReportSessions \cup {None} /\ s # None
      /\ (stage = "closed") = (reporting = None)
      /\ wire = <<>> /\ DOMAIN wire = {}
  BY PlaybackAssumption DEF ReportingInv, ReportingTypeOK, LinkInv, TurnInv, Turn
<1>1. /\ \A i \in DOMAIN wire' : wire'[i].session = reporting
      /\ reporting' \in {None, reporting, shown}
  BY <1>0, ReporterSpeaks
<1>2. /\ UNCHANGED <<reportQueue, activeReport, activePrepare, queuedPrepare, prepareJob,
                    prepareDone, afterStop, afterStopOf, afterStopSerial,
                    playback, undisturbed, stopped>>
  BY DEF vars, reportVars, laneVars, switchVars, backendVars
<1>3. (Waits(s)' <=> Waits(s)) /\ (NewestIs(s)' <=> NewestIs(s))
  BY <1>2, LineUnmoved
<1>4. OnWire(s)' => s = reporting
  BY <1>1 DEF OnWire
<1>5. Live(s)
  BY <1>0, <1>1, <1>2, <1>3, <1>4 DEF Live
<1>6. Guarded(s)
  BY <1>5 DEF ReportingInv, LinkInv, LiveInv
<1>7. /\ playback' = s /\ shown' \in {None, s}
      /\ activePrepare' = NoRequest /\ queuedPrepare' = NoRequest /\ ~PrepareRunning'
      /\ afterStopSerial' # NoRequest => afterStop' # NoRequest /\ afterStopOf' = s
  BY <1>2, <1>6 DEF Guarded, PrepareRunning
<1>8. Waits(s)' => /\ reporting' \in {None, s}
                   /\ \A i \in DOMAIN wire' : wire'[i].session = s
                   /\ NewestIs(s)'
  <2> SUFFICES ASSUME Waits(s)'
               PROVE  /\ reporting' \in {None, s}
                      /\ \A i \in DOMAIN wire' : wire'[i].session = s
                      /\ NewestIs(s)'
    OBVIOUS
  <2>1. reporting \in {None, s} /\ shown \in {None, s} /\ NewestIs(s)'
    BY <1>3, <1>6 DEF Guarded
  <2>2. ASSUME NEW i \in DOMAIN wire' PROVE reporting # None
    <3>1. CASE Reporter!Start \/ Reporter!Progress \/ Reporter!Close
      BY <1>0, <3>1 DEF Reporter!Start, Reporter!Progress, Reporter!Close
    <3>2. CASE Reporter!Open(shown)
      <4>1. stage # "closed"
        BY <1>0, <2>2, <3>2 DEF Reporter!Open
      <4> QED BY <1>0, <4>1
    <3> QED BY <3>1, <3>2
  <2> QED
    BY <1>1, <2>1, <2>2
<1>9. OnWire(s)' => reporting' \in {None, s}
  BY <1>1, <1>4, <1>6 DEF Guarded
<1> QED
  BY <1>7, <1>8, <1>9 DEF Guarded

LEMMA TakingKeepsLive ==
  ASSUME ReportingInv, PortTakes
  PROVE  LiveInv'
<1> SUFFICES ASSUME NEW s \in ReportSessions, Live(s)' PROVE Guarded(s)'
  BY DEF LiveInv
<1>0. /\ IInv /\ LaneInv
      /\ wire \in Seq([event : Events, session : ReportSessions])
      /\ \A i, j \in DOMAIN wire : wire[i].session = wire[j].session
  BY DEF ReportingInv, ReportingTypeOK, LinkInv, TurnInv
<1>1. Reporter!Take /\ BackendWaits /\ UNCHANGED linkVars
  BY DEF PortTakes
<1>2. /\ Head(wire) \in [event : Events, session : ReportSessions]
      /\ 1 \in DOMAIN wire /\ Head(wire) = wire[1]
      /\ \A i \in DOMAIN wire' : \E j \in DOMAIN wire : wire'[i] = wire[j]
      /\ UNCHANGED <<stage, reporting>>
  BY <1>0, <1>1, WireTaken
<1>3. PICK e \in Events, q \in ReportSessions :
        /\ e = Head(wire).event /\ q = Head(wire).session
        /\ e = "Stopped" => OnWire(q)
  BY <1>2 DEF OnWire
<1>4. \A i \in DOMAIN wire' : wire'[i].session = q
  BY <1>0, <1>2, <1>3
<1>5. UNCHANGED <<shown, undisturbed, stopped, playback, reporting>>
  BY <1>1, <1>2 DEF linkVars, BackendWaits
<1>6. UNCHANGED <<laneVars, switchVars>>
  BY DEF PortTakes, Report, vars
<1>7. PrepareRunning' <=> PrepareRunning
  BY <1>6 DEF laneVars, PrepareRunning
<1>8. CASE UNCHANGED vars
  <2>1. (Waits(s)' <=> Waits(s)) /\ (NewestIs(s)' <=> NewestIs(s))
    BY <1>8, LineUnmoved DEF vars, reportVars
  <2>2. Live(s)
    BY <1>2, <1>5, <2>1, LiveShrinks
  <2>3. Guarded(s)
    BY <2>2 DEF ReportingInv, LinkInv, LiveInv
  <2> QED
    BY <1>2, <1>5, <1>6, <1>7, <2>1, <2>3, GuardStays DEF laneVars, switchVars
<1>9. CASE Report(e, q)
  <2>1. /\ \A i \in DOMAIN Line' :
             \/ \E j \in DOMAIN Line : Line'[i] = Line[j]
             \/ Line'[i].event = e /\ Line'[i].of = q
        /\ e = "Stopped" => NewestIs(q)'
        /\ e # "Stopped" => \A r \in ReportSessions : NewestIs(r) => NewestIs(r)'
    BY <1>0, <1>3, <1>9, ReportedLine
  <2>2. Waits(s)' => Waits(s) \/ (e = "Stopped" /\ q = s)
    BY <2>1 DEF Waits, IsStop
  <2>3. OnWire(s)' => OnWire(s)
    BY <1>2 DEF OnWire
  <2>4. Live(s)
    BY <1>3, <1>5, <2>2, <2>3 DEF Live
  <2>5. Guarded(s)
    BY <2>4 DEF ReportingInv, LinkInv, LiveInv
  <2>6. Waits(s)' => /\ reporting' \in {None, s}
                     /\ \A i \in DOMAIN wire' : wire'[i].session = s
                     /\ NewestIs(s)'
    <3>1. CASE e = "Stopped" /\ q = s
      BY <1>3, <1>4, <1>5, <2>1, <2>5, <3>1 DEF Guarded
    <3>2. CASE ~(e = "Stopped" /\ q = s)
      <4> SUFFICES ASSUME Waits(s)
                   PROVE  /\ reporting' \in {None, s}
                          /\ \A i \in DOMAIN wire' : wire'[i].session = s
                          /\ NewestIs(s)'
        BY <2>2, <3>2
      <4>1. /\ reporting \in {None, s} /\ NewestIs(s)
            /\ \A i \in DOMAIN wire : wire[i].session = s
        BY <2>5 DEF Guarded
      <4>2. q = s
        BY <1>2, <1>3, <4>1
      <4> QED
        BY <1>4, <1>5, <2>1, <3>2, <4>1, <4>2
    <3> QED BY <3>1, <3>2
  <2> QED
    BY <1>5, <1>6, <1>7, <2>3, <2>5, <2>6 DEF Guarded, laneVars, switchVars
<1> QED
  BY <1>3, <1>8, <1>9 DEF PortTakes

LEMMA SwitchingKeepsLive ==
  ASSUME ReportingInv, NEW v \in BOOLEAN, PageSwitches(v)
  PROVE  LiveInv'
<1> SUFFICES ASSUME NEW s \in ReportSessions, Live(s)' PROVE Guarded(s)'
  BY DEF LiveInv
<1>0. /\ LaneInv /\ calling = "switch" /\ wire = <<>> /\ shown = None /\ reporting = None
      /\ called \in Nat
  BY PlaybackAssumption DEF ReportingInv, LinkInv, TurnInv, PageSwitches, IInv, CallsTypeOK
<1>1. /\ SwitchTo(v) /\ UNCHANGED <<stage, reporting, wire, shown, undisturbed, stopped, playback>>
  BY DEF PageSwitches, BackendWaits, reporterVars
<1>2. UNCHANGED <<laneVars, reportVars>>
  BY <1>1 DEF SwitchTo
<1>3. (Waits(s)' <=> Waits(s)) /\ (NewestIs(s)' <=> NewestIs(s))
  BY <1>2, LineUnmoved DEF reportVars
<1>4. PrepareRunning' <=> PrepareRunning
  BY <1>2 DEF laneVars, PrepareRunning
<1>5. Live(s)
  BY <1>1, <1>3, LiveShrinks
<1>6. Guarded(s)
  BY <1>5 DEF ReportingInv, LinkInv, LiveInv
<1>7. s # None /\ ~OnWire(s)
  BY <1>0, PlaybackAssumption DEF OnWire
<1>8. Waits(s)
  BY <1>0, <1>5, <1>7 DEF Live
<1>9. LatestStopped = s
  BY <1>0, <1>6, <1>8, NewestIsAwaited DEF Guarded
<1>10. CASE UNCHANGED switchVars
  BY <1>1, <1>2, <1>3, <1>4, <1>6, <1>10, GuardStays DEF laneVars, switchVars
<1>11. CASE afterStopSerial' = called + 1 /\ afterStop' = called + 1 /\ afterStopOf' = LatestStopped
  <2>1. afterStop' # NoRequest /\ afterStopOf' = s
    BY <1>0, <1>9, <1>11
  <2>2. OnWire(s)' => OnWire(s)
    BY <1>1 DEF OnWire
  <2> QED
    BY <1>1, <1>2, <1>3, <1>4, <1>6, <2>1, <2>2 DEF Guarded, laneVars
<1> QED
  BY <1>1, <1>7, <1>9, <1>10, <1>11 DEF SwitchTo

LEMMA ShowingKeepsLive ==
  ASSUME ReportingInv, PreparationEnds
  PROVE  LiveInv'
<1> SUFFICES ASSUME NEW s \in ReportSessions, Live(s)' PROVE Guarded(s)'
  BY DEF LiveInv
<1>0. /\ IInv /\ Turn /\ FinishPrepare /\ s # None /\ wire = <<>>
      /\ UNCHANGED <<stage, reporting, wire, playback, stopped>>
      /\ UNCHANGED <<switchVars, reportVars>>
  BY PlaybackAssumption DEF ReportingInv, PreparationEnds, FinishPrepare, reporterVars, Turn
<1>1. (Waits(s)' <=> Waits(s)) /\ (NewestIs(s)' <=> NewestIs(s)) /\ (OnWire(s)' <=> OnWire(s))
  BY <1>0, LineUnmoved DEF reportVars, OnWire
<1>2. ASSUME Live(s) PROVE Guarded(s) /\ activePrepare = NoRequest /\ queuedPrepare = NoRequest
  BY <1>2 DEF ReportingInv, LinkInv, LiveInv, Guarded
<1>3. CASE UNCHANGED <<shown, undisturbed>>
  <2>1. Live(s)
    BY <1>0, <1>1, <1>3 DEF Live
  <2>2. /\ activePrepare' = NoRequest /\ queuedPrepare' = NoRequest /\ prepareJob' = NoRequest
    BY <1>0, <1>2, <2>1 DEF FinishPrepare
  <2>3. ~PrepareRunning'
    BY <2>2 DEF PrepareRunning
  <2> QED
    BY <1>0, <1>1, <1>2, <1>3, <2>1, <2>2, <2>3 DEF Guarded, switchVars
<1>4. CASE /\ activePrepare # NoRequest /\ activePrepare = called
           /\ Available /\ AcceptsLatest(activePrepare)
           /\ result # None
           /\ shown' = result /\ undisturbed' = undisturbed \cup {result}
  <2>1. s = result
    <3>1. ~Live(s)
      BY <1>2, <1>4
    <3> QED
      BY <1>0, <1>1, <1>4, <3>1 DEF Live
  <2>2. afterStopSerial = NoRequest
    BY <1>0, <1>4, ShowsNewest
  <2>3. playback = result /\ ~Waits(s)
    BY <1>4, <2>1 DEF ReportingInv, LinkInv, NameInv, Waits, IsStop
  <2>4. ~OnWire(s)
    BY <1>0 DEF OnWire
  <2>5. queuedPrepare # NoRequest => ~AcceptsLatest(queuedPrepare)
    BY <1>0, <1>4 DEF IInv, Settlement, OnePlace, AcceptsLatest
  <2>6. /\ activePrepare' = NoRequest /\ queuedPrepare' = NoRequest /\ prepareJob' = NoRequest
    BY <1>0, <1>4, <2>5 DEF FinishPrepare, Available
  <2>7. ~PrepareRunning'
    BY <2>6 DEF PrepareRunning
  <2> QED
    BY <1>0, <1>1, <1>4, <2>1, <2>2, <2>3, <2>4, <2>6, <2>7 DEF Guarded, switchVars
<1> QED
  BY <1>3, <1>4 DEF PreparationEnds

LEMMA FinishingKeepsLive ==
  ASSUME ReportingInv, ReportEnds
  PROVE  LiveInv'
<1> SUFFICES ASSUME NEW s \in ReportSessions, Live(s)' PROVE Guarded(s)'
  BY DEF LiveInv
<1>0. /\ LaneInv /\ FinishReport /\ reportDone
      /\ UNCHANGED <<reporting, wire, shown, undisturbed, playback, stopped>>
      /\ UNCHANGED <<laneVars, afterStopSerial>>
  BY DEF ReportingInv, ReportEnds, FinishReport, reporterVars, linkVars
<1>1. /\ \A i \in DOMAIN Line' : \E j \in DOMAIN Line : Line'[i] = Line[j]
      /\ NewestIs(s) /\ Waits(s)' => NewestIs(s)'
  BY <1>0, FinishedLine
<1>2. Waits(s)' => Waits(s)
  BY <1>1 DEF Waits
<1>3. Live(s)
  BY <1>0, <1>2, LiveShrinks
<1>4. Guarded(s)
  BY <1>3 DEF ReportingInv, LinkInv, LiveInv
<1>5. PrepareRunning' <=> PrepareRunning
  BY <1>0 DEF laneVars, PrepareRunning
<1>6. UNCHANGED <<afterStop, afterStopOf>> \/ afterStopSerial = NoRequest
  <2> SUFFICES ASSUME afterStopSerial # NoRequest PROVE UNCHANGED <<afterStop, afterStopOf>>
    OBVIOUS
  <2>1. afterStopOf = s
    BY <1>4 DEF Guarded
  <2>2. activeReport.event = "Stopped" => activeReport.of \in stopped
    BY <1>0 DEF ReportingInv, LinkInv, TakenInv
  <2>3. ~ReleasesSwitch
    BY <1>3, <2>1, <2>2 DEF ReleasesSwitch, Live
  <2> QED
    BY <1>0, <2>3 DEF FinishReport
<1> QED
  BY <1>0, <1>1, <1>2, <1>4, <1>5, <1>6, GuardStays DEF laneVars

LEMMA LiveKept ==
  ASSUME ReportingInv, [ReportingNext]_reportingVars
  PROVE  LiveInv'
<1>0. /\ IInv /\ LaneInv /\ TurnInv /\ TakenInv
      /\ \A s \in ReportSessions : Live(s) => Guarded(s)
  BY DEF ReportingInv, LinkInv, LiveInv
(* Steps that leave every session that is live as it is.                      *)
<1>a. ASSUME undisturbed' \ stopped' \subseteq undisturbed \ stopped,
             shown' \in {shown, None}, UNCHANGED <<reporting, wire>>,
             \A s \in ReportSessions : Waits(s)' => Waits(s) /\ (NewestIs(s) => NewestIs(s)'),
             \A s \in ReportSessions : Live(s) => playback' = playback,
             PrepareRunning' => PrepareRunning,
             UNCHANGED <<activePrepare, queuedPrepare>>
               \/ (activePrepare' = NoRequest /\ queuedPrepare' = NoRequest),
             \/ afterStopSerial' = NoRequest
             \/ UNCHANGED <<afterStop, afterStopOf, afterStopSerial>>
      PROVE  LiveInv'
  <2> SUFFICES ASSUME NEW s \in ReportSessions, Live(s)' PROVE Guarded(s)'
    BY DEF LiveInv
  <2>1. Live(s)
    BY <1>a, LiveShrinks
  <2>2. Guarded(s)
    BY <1>0, <2>1
  <2> QED
    BY <1>a, <2>1, <2>2, GuardStays
<1>l. ASSUME UNCHANGED <<reportQueue, activeReport>>
      PROVE  \A s \in ReportSessions : Waits(s)' => Waits(s) /\ (NewestIs(s) => NewestIs(s)')
  BY <1>l, LineUnmoved
<1>p. UNCHANGED <<prepareJob, prepareDone>> => (PrepareRunning' => PrepareRunning)
  BY DEF PrepareRunning
<1>d. ASSUME undisturbed' = {} PROVE LiveInv'
  BY <1>d DEF LiveInv, Live
<1>1. ASSUME NEW v \in BOOLEAN, PagePrepares(v) PROVE LiveInv'
  <2>1. CASE Available /\ v
    BY <1>1, <1>d, <2>1 DEF PagePrepares, Disturb
  <2>2. CASE ~(Available /\ v)
    <3>1. UNCHANGED <<laneVars, reportVars, shown, reporterVars, undisturbed, stopped, playback>>
          /\ afterStopSerial' = NoRequest
      BY <1>1, <2>2 DEF PagePrepares, Disturb, Prepare, PrepareInContext, InvalidateAfterStop,
           BackendWaits
    <3> QED
      BY <1>a, <1>l, <1>p, <3>1 DEF laneVars, reportVars, reporterVars
  <2> QED BY <2>1, <2>2
<1>2. CASE PageCancels
  <2>1. UNCHANGED <<prepareJob, prepareDone, reportVars, linkVars, reporterVars, stopped, playback>>
        /\ afterStopSerial' = NoRequest /\ activePrepare' = NoRequest /\ queuedPrepare' = NoRequest
    BY <1>2 DEF PageCancels, CancelPreparation, ResetPreparation, InvalidateAfterStop, BackendWaits
  <2> QED
    BY <1>a, <1>l, <1>p, <2>1 DEF reportVars, linkVars, reporterVars
<1>3. CASE ServicesShutDown
  <2>1. UNCHANGED <<prepareJob, prepareDone, activeReport, shown, undisturbed, reporterVars, stopped, playback>>
        /\ afterStopSerial' = NoRequest /\ activePrepare' = NoRequest /\ queuedPrepare' = NoRequest
        /\ reportQueue' = <<>>
    BY <1>3 DEF ServicesShutDown, Shutdown, ResetPreparation, InvalidateAfterStop, BackendWaits
  <2>2. \A s \in ReportSessions : Waits(s)' => Waits(s) /\ (NewestIs(s) => NewestIs(s)')
    BY <1>0, <2>1, LineIsCut
  <2> QED
    BY <1>a, <1>p, <2>1, <2>2 DEF reporterVars
<1>4. CASE TransitionBegins
  BY <1>4, <1>d DEF TransitionBegins, Disturb
<1>5. CASE TransitionEnds
  <2>1. UNCHANGED <<laneVars, switchVars, reportVars, linkVars, reporterVars, stopped, playback>>
    BY <1>5 DEF TransitionEnds, AbortSessionTransition, CommitSessionTransition, BackendWaits
  <2> QED
    BY <1>a, <1>l, <1>p, <2>1 DEF laneVars, switchVars, reportVars, linkVars, reporterVars
<1>6. CASE TimerFires
  <2>1. PICK r \in Requests : AfterStopTimer(r)
    BY <1>6 DEF TimerFires
  <2>2. UNCHANGED <<reportVars, linkVars, reporterVars, stopped, playback>>
    BY <1>6, <2>1 DEF TimerFires, AfterStopTimer, PrepareInContext, BackendWaits
  <2>3. CASE UNCHANGED <<laneVars, afterStop, afterStopOf, afterStopSerial>>
    BY <1>a, <1>l, <1>p, <2>2, <2>3 DEF laneVars, reportVars, linkVars, reporterVars
  <2>4. CASE r = afterStopSerial
    <3>1. r # NoRequest /\ r \in timers
      BY <2>1, PlaybackAssumption DEF AfterStopTimer
    <3>2. ASSUME NEW s \in ReportSessions, Live(s) PROVE FALSE
      <4>1. afterStop # NoRequest
        BY <1>0, <2>4, <3>1, <3>2 DEF Guarded
      <4>2. afterStop \notin timers
        BY <1>0, <4>1 DEF IInv, Settlement, OnePlace
      <4> QED
        BY <1>0, <2>4, <3>1, <4>1, <4>2 DEF TurnInv
    <3>3. \A s \in ReportSessions : Live(s)' => Live(s)
      <4>1. UNCHANGED <<reportQueue, activeReport, undisturbed, stopped, shown, reporting, wire>>
        BY <2>2 DEF reportVars, linkVars, reporterVars
      <4> QED
        BY <1>l, <4>1, LiveShrinks
    <3> QED
      BY <3>2, <3>3 DEF LiveInv
  <2> QED
    BY <2>1, <2>3, <2>4 DEF AfterStopTimer
<1>7. CASE PageCloses \/ PageBegins \/ ReporterReports \/ StopsFirst
  <2>1. /\ Turn /\ shown' \in {shown, None} /\ UNCHANGED <<vars, backendVars, undisturbed>>
        /\ \/ Reporter!Start \/ Reporter!Progress \/ Reporter!Close
           \/ shown # None /\ Reporter!Open(shown)
           \/ UNCHANGED reporterVars
    BY <1>7 DEF PageCloses, PageBegins, ReporterReports, StopsFirst, ReporterStops, linkVars
  <2>2. CASE UNCHANGED reporterVars
    BY <1>a, <1>l, <1>p, <2>1, <2>2 DEF vars, laneVars, switchVars, reportVars, reporterVars, backendVars
  <2> QED
    BY <2>1, <2>2, SpeakingKeepsLive
<1>8. CASE Publish
  <2>1. /\ PrepareRunning /\ UNCHANGED <<reportQueue, activeReport, undisturbed, stopped, shown, reporting, wire>>
    BY <1>8 DEF Publish, vars, reportVars, reporterVars, linkVars
  <2>2. \A s \in ReportSessions : ~Live(s)
    BY <1>0, <2>1 DEF Guarded
  <2>3. \A s \in ReportSessions : Live(s)' => Live(s)
    BY <1>l, <2>1, LiveShrinks
  <2> QED
    BY <2>2, <2>3 DEF LiveInv
<1>9. CASE PrepareReturns
  <2>1. /\ UNCHANGED <<reportVars, linkVars, reporterVars, backendVars, switchVars, activePrepare, queuedPrepare>>
        /\ PrepareRunning
    BY <1>9 DEF PrepareReturns, PrepareWorkerDone
  <2> QED
    BY <1>a, <1>l, <2>1 DEF reportVars, linkVars, reporterVars, backendVars, switchVars
<1>10. CASE ReportTakenUp
  <2>1. /\ UNCHANGED <<vars, linkVars, reporterVars, playback>> /\ stopped \subseteq stopped'
    BY <1>10 DEF ReportTakenUp
  <2> QED
    BY <1>a, <1>l, <1>p, <2>1 DEF vars, laneVars, switchVars, reportVars, linkVars, reporterVars
<1>11. CASE ReportReturns
  <2>1. /\ UNCHANGED <<laneVars, switchVars, reportQueue, activeReport, linkVars, reporterVars, stopped>>
        /\ taken # "no"
        /\ playback' = playback \/ (activeReport.event = "Stopped" /\ playback = activeReport.of)
    BY <1>11 DEF ReportReturns, ReportWorkerDone
  <2>2. \A s \in ReportSessions : Live(s) => playback' = playback
    BY <1>0, <2>1 DEF TakenInv, Guarded, Live
  <2> QED
    BY <1>a, <1>l, <1>p, <2>1, <2>2 DEF laneVars, switchVars, linkVars, reporterVars
<1>12. CASE Forget
  <2>1. UNCHANGED undisturbed /\ undisturbed = {}
    BY <1>0, <1>12 DEF Forget, linkVars, TurnInv
  <2> QED
    BY <1>d, <2>1
<1>13. CASE UNCHANGED reportingVars
  BY <1>13, <1>a, <1>l, <1>p DEF reportingVars, vars, laneVars, switchVars, reportVars, linkVars,
       reporterVars, backendVars
<1>14. ASSUME NEW v \in BOOLEAN, PageSwitches(v) PROVE LiveInv'
  BY <1>14, SwitchingKeepsLive
<1>15. CASE PortTakes
  BY <1>15, TakingKeepsLive
<1>16. CASE PreparationEnds
  BY <1>16, ShowingKeepsLive
<1>17. CASE ReportEnds
  BY <1>17, FinishingKeepsLive
<1> QED
  BY <1>1, <1>2, <1>3, <1>4, <1>5, <1>6, <1>7, <1>8, <1>9, <1>10, <1>11, <1>12,
     <1>13, <1>14, <1>15, <1>16, <1>17 DEF ReportingNext

LEMMA ReportingInvariant == ReportingSpec => []ReportingInv
<1>1. ReportingInv /\ [ReportingNext]_reportingVars => ReportingInv'
  <2> SUFFICES ASSUME ReportingInv, [ReportingNext]_reportingVars PROVE ReportingInv'
    OBVIOUS
  <2>1. [Next]_vars
    BY ReportingImplements DEF ReportingInv
  <2>2. IInv' /\ LaneInv'
    BY <2>1, StepKeepsIInv, StepKeepsLane DEF ReportingInv
  <2>3. TypeOK'
    BY <2>2 DEF IInv, LaneInv, TypeOK
  <2> QED
    BY <2>2, <2>3, ReportingTyped, TurnKept, TakenKept, NamesKept, LiveKept
    DEF ReportingInv, LinkInv
<1> QED
  BY <1>1, ReportingInitInv, PTL DEF ReportingSpec

(* The page, the reporter, the coordinator and the backend keep the types of  *)
(* PlaybackReporting: every report on its way names a report session, and    *)
(* what active_playback holds was given out by the server.                   *)
THEOREM ReportingTypes == ReportingSpec => []ReportingTypeOK
<1>1. ReportingInv => ReportingTypeOK
  BY DEF ReportingInv
<1> QED BY <1>1, ReportingInvariant, PTL

(* Called by the page, the reporter and the services in the order the event   *)
(* loop gives them, PlaybackCoordinator does nothing it does not do alone:   *)
(* the theorems above hold of the composition.                               *)
THEOREM ReportingIsCoordinated == ReportingSpec => Spec
<1>1. ReportingInv /\ [ReportingNext]_reportingVars => [Next]_vars
  BY ReportingImplements DEF ReportingInv
<1>2. ReportingInit => Init
  BY DEF ReportingInit
<1> QED BY <1>1, <1>2, ReportingInvariant, PTL DEF ReportingSpec, Spec

(* report_playback never refuses the Stopped report of a session that was     *)
(* shown and since which nothing but switches has been asked for: the        *)
(* deferred switch of PlaybackCoordinator keeps publish_playback from        *)
(* replacing its playback, for any calls, sessions, reports and jobs.        *)
THEOREM StoppedReportsArrive == ReportingSpec => []StoppedFindsPlayback
<1>1. ReportingInv => StoppedFindsPlayback
  <2> SUFFICES ASSUME ReportingInv, activeReport # None, activeReport.event = "Stopped",
                      activeReport.of \in undisturbed \ stopped
               PROVE  playback = activeReport.of
    BY DEF StoppedFindsPlayback
  <2>1. activeReport.of \in ReportSessions
    BY DEF ReportingInv, LaneInv, ReportsTypeOK, Reports
  <2>2. Waits(activeReport.of)
    BY LineIsSeq DEF ReportingInv, LaneInv, Waits, IsStop
  <2> QED
    BY <2>1, <2>2 DEF ReportingInv, LinkInv, LiveInv, Live, Guarded
<1> QED BY <1>1, ReportingInvariant, PTL
=============================================================================
