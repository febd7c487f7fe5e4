-------------------------- MODULE ApplicationProofs -------------------------
(***************************************************************************)
(* For every number of features and requests, every set of files, profiles *)
(* and options, and every order of writes:                                 *)
(*  - the features are fenced while Rust may change the account, an open   *)
(*    feature serves the published generation, and a result it may still   *)
(*    show came from the account of that generation;                       *)
(*  - the options of libmpv are those of the profile that is shown, and    *)
(*    the newest open or stop wins;                                        *)
(*  - a stall of the playback is shown exactly while there is one.         *)
(***************************************************************************)
EXTENDS MCApplication, Sequences, TLAPS

-----------------------------------------------------------------------------
(* The change of account.                                                   *)

Walks == {"fence", "commit", "abort"}
Controls == [state : {"none", "running", "done"}, kind : Kinds,
             request : Accounts, ok : BOOLEAN]
Calls == [state : {"none", "asked", "read"}, generation : Generations,
          account : Accounts, valid : BOOLEAN]

\* The types in parts.
CountersOK ==
  /\ asked \in Accounts /\ pending \in Accounts /\ operation \in Accounts
  /\ transition \in Accounts /\ account \in Accounts
  /\ generation \in Generations /\ accountOf \in [Generations -> Accounts]
FlagsOK ==
  /\ connected \in BOOLEAN /\ closing \in BOOLEAN
  /\ fenced \in [Feature -> BOOLEAN] /\ serves \in [Feature -> Generations]
TurnsOK == turn \in Turns /\ outer \in Turns
ControlOK == control \in Controls
CallsOK == call \in [Feature -> Calls]

\* Whose turn it is: the stages of a turn belong to the pending request, and
\* only a turn that has answered calls out into a second one.
TurnInv ==
  /\ outer # Idle => turn.stage \in {"fence", "launch"}
  /\ outer.stage \in {"idle", "answered"}
  /\ (outer.stage = "idle" => outer = Idle)
  /\ (turn.stage = "idle" => turn = Idle)
  /\ turn.stage \in Walks => turn.next \in Feature
  /\ turn.stage \in {"fence", "launch", "commit", "abort", "answer"} =>
       pending = turn.request /\ pending # 0
  /\ turn.stage \notin {"abort", "answer"} => operation = pending
  /\ turn.stage = "abort" => operation = 0
  /\ turn.stage = "answer" => operation \in {0, turn.request}
  /\ turn.stage \in {"fence", "launch", "commit", "abort"} =>
       transition = pending
  /\ turn.stage \in {"idle", "answered"} /\ operation # 0 =>
       transition = operation

\* The control thread works for the operation under way, except after a
\* shutdown, when nothing is under way any more.
ControlInv ==
  /\ control.state # "none" => turn.stage \in {"idle", "answered"}
  /\ control.state # "none" /\ ~closing =>
       operation # 0 /\ control.request = operation
  /\ turn.stage \in {"fence", "launch"} => control.request = pending
  /\ control.state = "none" /\ turn.stage \in {"idle", "answered"} =>
       pending = 0
  /\ closing => turn = Idle /\ operation = 0

\* Each request publishes at most one generation.
CountInv ==
  /\ pending <= asked
  /\ generation <= asked + 1
  /\ pending # 0 /\ turn.stage \notin {"commit", "abort", "answer"} =>
       generation <= asked

\* Where the walk over the features has got to.
FenceInv ==
  /\ turn.stage = "fence" => \A f \in Feature : f < turn.next => fenced[f]
  /\ turn.stage = "launch" \/ control.state # "none" \/ closing =>
       \A f \in Feature : fenced[f]
  /\ turn.stage \in {"commit", "abort"} =>
       \A f \in Feature : f >= turn.next => fenced[f]
  /\ turn.stage = "commit" =>
       \A f \in Feature : f < turn.next => serves[f] = generation
  /\ turn.stage # "commit" /\ ~closing =>
       \A f \in Feature : serves[f] = generation

\* The account of the published generation is the active one, unless the
\* control thread has just replaced it; only open features have valid calls.
AccountInv ==
  /\ ~closing /\ (control.state = "done" => ~control.ok) =>
       account = accountOf[generation]
  /\ \A f \in Feature : call[f].valid => ~fenced[f]
  /\ \A f \in Feature :
       call[f].valid => call[f].generation = generation
  /\ \A f \in Feature :
       call[f].valid /\ call[f].state = "read" => call[f].account = account

IInv == TypeOK /\ TurnInv /\ ControlInv /\ CountInv /\ FenceInv /\ AccountInv

-----------------------------------------------------------------------------
LEMMA TypeParts ==
  TypeOK <=> CountersOK /\ FlagsOK /\ TurnsOK /\ ControlOK /\ CallsOK
BY DEF TypeOK, CountersOK, FlagsOK, TurnsOK, ControlOK, CallsOK, Controls, Calls

LEMMA Numbers ==
  /\ 0 \in Accounts /\ 1 \in Generations /\ 1 \in Feature
  /\ FeatureCount \in Feature
  /\ \A n \in Accounts : n < MaxRequests => n + 1 \in Accounts /\ n + 1 # 0
  /\ \A n \in Accounts : n # 0 => n \in Requests
  /\ \A n \in Accounts, g \in Generations : g <= n => g + 1 \in Generations
BY FeaturesAssumption, RequestsAssumption
DEF Accounts, Generations, Feature, Requests

\* How a turn begins and goes on to the next feature.
LEMMA BeginTurn ==
  \A stage \in Stages, request \in Accounts :
    /\ Begin(stage, request) \in Turns
    /\ Begin(stage, request).stage = stage
    /\ Begin(stage, request).next = 1
    /\ Begin(stage, request).request = request
BY FeaturesAssumption DEF Begin, Turns

LEMMA NextFeature ==
  \A t \in Turns : t.next \in Feature =>
    /\ Next(t) \in Turns
    /\ Next(t).stage = t.stage
    /\ Next(t).request = t.request
    /\ Next(t).next = t.next + 1
BY FeaturesAssumption DEF Next, Turns, Feature

LEMMA IdleTurn == Idle \in Turns /\ Idle.stage = "idle"
BY FeaturesAssumption, RequestsAssumption DEF Idle, Turns, Stages, Accounts

\* What the steps do to the control thread.
LEMMA AskControl ==
  ASSUME CountersOK, NEW kind \in Kinds, Ask(kind),
         ~(closing \/ operation # 0 \/ (kind = "logout" /\ ~connected))
  PROVE /\ control' \in Controls
        /\ control'.state = "none" /\ control'.request = asked'
<1>1. asked' \in Accounts
  BY Numbers DEF Ask, CountersOK
<1>2. control' = [state |-> "none", kind |-> kind, request |-> asked',
                 ok |-> FALSE]
  BY DEF Ask, StartOperation
<1> QED BY <1>1, <1>2 DEF Controls

LEMMA LaunchControl ==
  ASSUME ControlOK, Launch
  PROVE /\ control' \in Controls
        /\ control'.state = "running" /\ control'.request = control.request
BY DEF Launch, ControlOK, Controls

LEMMA WorkControl ==
  ASSUME ControlOK, Work
  PROVE /\ control' \in Controls
        /\ control'.state = "done" /\ control'.request = control.request
        /\ control'.ok => account' = control.request
        /\ ~control'.ok => account' = account
<1>1. PICK ok \in BOOLEAN :
        /\ control' = [control EXCEPT !.state = "done", !.ok = ok]
        /\ account' = IF ok THEN control.request ELSE account
  BY DEF Work
<1>2. /\ control' \in Controls /\ control'.state = "done"
      /\ control'.request = control.request /\ control'.ok = ok
  BY <1>1 DEF ControlOK, Controls
<1> QED BY <1>1, <1>2

LEMMA FinishControl ==
  ASSUME ControlOK, FinishOperation
  PROVE /\ control' \in Controls
        /\ control'.state = "none" /\ control'.request = control.request
        /\ control'.ok = control.ok
BY DEF FinishOperation, ControlOK, Controls

LEMMA CallChanges ==
  /\ NoCall \in Calls /\ ~NoCall.valid
  /\ \A c \in Calls :
       LET d == [c EXCEPT !.valid = FALSE]
       IN d \in Calls /\ ~d.valid /\ d.state = c.state
  /\ \A g \in Generations :
       [state |-> "asked", generation |-> g, account |-> 0, valid |-> TRUE]
         \in Calls
  /\ \A c \in Calls, a \in Accounts :
       LET d == [c EXCEPT !.state = "read", !.account = a]
       IN /\ d \in Calls /\ d.state = "read" /\ d.account = a
          /\ d.generation = c.generation /\ d.valid = c.valid
<1>1. NoCall \in Calls /\ ~NoCall.valid
  BY Numbers DEF NoCall, Calls
<1>2. \A c \in Calls :
        LET d == [c EXCEPT !.valid = FALSE]
        IN d \in Calls /\ ~d.valid /\ d.state = c.state
  BY DEF Calls
<1>3. \A g \in Generations :
        [state |-> "asked", generation |-> g, account |-> 0, valid |-> TRUE]
          \in Calls
  BY Numbers DEF Calls
<1>4. \A c \in Calls, a \in Accounts :
        LET d == [c EXCEPT !.state = "read", !.account = a]
        IN /\ d \in Calls /\ d.state = "read" /\ d.account = a
           /\ d.generation = c.generation /\ d.valid = c.valid
  BY DEF Calls
<1> QED BY <1>1, <1>2, <1>3, <1>4

\* The types of what the guards and the invariants look at.
LEMMA Typed ==
  ASSUME CountersOK, TurnsOK, ControlOK
  PROVE /\ turn.stage \in Stages /\ outer.stage \in Stages
        /\ turn.next \in 1..(FeatureCount + 1)
        /\ turn.request \in Accounts
        /\ control.state \in {"none", "running", "done"}
        /\ control.request \in Accounts /\ control.ok \in BOOLEAN
        /\ asked \in Int /\ asked >= 0 /\ pending \in Int /\ operation \in Int
        /\ generation \in Int
BY DEF CountersOK, TurnsOK, ControlOK, Turns, Controls, Accounts, Generations

\* Every step keeps a turn a turn.
LEMMA TurnsTyped ==
  ASSUME TurnsOK, CountersOK, TurnInv, ControlInv,
         [Step]_vars
  PROVE TurnsOK'
<1> DEFINE Goal == TurnsOK'
<1> USE Numbers, BeginTurn, NextFeature, IdleTurn
<1>u. UNCHANGED vars => Goal
  BY DEF vars, lifecycle, features, TurnsOK, CountersOK, TurnInv, Walks, Stages
<1>1. ASSUME NEW kind \in Kinds, Ask(kind) PROVE Goal
  <2>1. CASE closing \/ operation # 0 \/ (kind = "logout" /\ ~connected)
    BY <1>1, <2>1
    DEF Ask, StartOperation, lifecycle, features, TurnsOK, CountersOK,
        TurnInv, Walks, Stages
  <2>2. CASE ~(closing \/ operation # 0 \/ (kind = "logout" /\ ~connected))
    BY <1>1, <2>2
    DEF Ask, StartOperation, lifecycle, features, TurnsOK, CountersOK,
        TurnInv, Walks, Stages
  <2> QED BY <2>1, <2>2
<1>2. ASSUME FenceFeature PROVE Goal
  <2>1. CASE turn.next = FeatureCount
    BY <1>2, <2>1
    DEF FenceFeature, lifecycle, features, TurnsOK, CountersOK, TurnInv,
        Walks, Stages
  <2>2. CASE ~(turn.next = FeatureCount)
    BY <1>2, <2>2
    DEF FenceFeature, lifecycle, features, TurnsOK, CountersOK, TurnInv,
        Walks, Stages
  <2> QED BY <2>1, <2>2
<1>3. ASSUME Launch PROVE Goal
  BY <1>3
  DEF Launch, lifecycle, features, TurnsOK, CountersOK, TurnInv, Walks, Stages
<1>4. ASSUME Work PROVE Goal
  BY <1>4
  DEF Work, lifecycle, features, TurnsOK, CountersOK, TurnInv, Walks, Stages
<1>5. ASSUME FinishOperation PROVE Goal
  <2>1. CASE operation = 0
    BY <1>5, <2>1
    DEF FinishOperation, Outcome, lifecycle, features, TurnsOK, CountersOK,
        TurnInv, Walks, Stages
  <2>2. CASE ~(operation = 0)
    BY <1>5, <2>2
    DEF FinishOperation, Outcome, lifecycle, features, TurnsOK, CountersOK,
        TurnInv, Walks, Stages
  <2> QED BY <2>1, <2>2
<1>6. ASSUME CommitFeature PROVE Goal
  <2>1. CASE turn.next = FeatureCount
    BY <1>6, <2>1
    DEF CommitFeature, lifecycle, features, TurnsOK, CountersOK, TurnInv,
        Walks, Stages
  <2>2. CASE ~(turn.next = FeatureCount)
    BY <1>6, <2>2
    DEF CommitFeature, lifecycle, features, TurnsOK, CountersOK, TurnInv,
        Walks, Stages
  <2> QED BY <2>1, <2>2
<1>7. ASSUME AbortFeature PROVE Goal
  <2>1. CASE turn.next = FeatureCount
    BY <1>7, <2>1
    DEF AbortFeature, lifecycle, features, TurnsOK, CountersOK, TurnInv,
        Walks, Stages
  <2>2. CASE ~(turn.next = FeatureCount)
    BY <1>7, <2>2
    DEF AbortFeature, lifecycle, features, TurnsOK, CountersOK, TurnInv,
        Walks, Stages
  <2> QED BY <2>1, <2>2
<1>8. ASSUME Answer PROVE Goal
  BY <1>8
  DEF Answer, lifecycle, features, TurnsOK, CountersOK, TurnInv, Walks, Stages
<1>9. ASSUME EndTurn PROVE Goal
  BY <1>9
  DEF EndTurn, lifecycle, features, TurnsOK, CountersOK, TurnInv, Walks,
      Stages
<1>10. ASSUME Shutdown PROVE Goal
  BY <1>10
  DEF Shutdown, lifecycle, features, TurnsOK, CountersOK, TurnInv, Walks,
      Stages
<1>11. ASSUME NEW f \in Feature, Request(f) PROVE Goal
  BY <1>11
  DEF Request, lifecycle, features, TurnsOK, CountersOK, TurnInv, Walks,
      Stages
<1>12. ASSUME NEW f \in Feature, ReadAccount(f) PROVE Goal
  BY <1>12
  DEF ReadAccount, lifecycle, features, TurnsOK, CountersOK, TurnInv, Walks,
      Stages
<1>13. ASSUME NEW f \in Feature, Deliver(f) PROVE Goal
  BY <1>13
  DEF Deliver, lifecycle, features, TurnsOK, CountersOK, TurnInv, Walks,
      Stages
<1>q. QED
  BY <1>1, <1>2, <1>3, <1>4, <1>5, <1>6, <1>7, <1>8, <1>9, <1>10, <1>11,
     <1>12, <1>13, <1>u
  DEF Step, TurnStep, FeatureStep

\* Every step keeps the control thread's record.
LEMMA ControlTyped ==
  ASSUME ControlOK, CountersOK,
         [Step]_vars
  PROVE ControlOK'
<1> DEFINE Goal == ControlOK'
<1> USE AskControl, LaunchControl, WorkControl, FinishControl
<1>u. UNCHANGED vars => Goal
  BY DEF vars, lifecycle, features, ControlOK
<1>1. ASSUME NEW kind \in Kinds, Ask(kind) PROVE Goal
  <2>1. CASE closing \/ operation # 0 \/ (kind = "logout" /\ ~connected)
    BY <1>1, <2>1 DEF Ask, StartOperation, lifecycle, features, ControlOK
  <2>2. CASE ~(closing \/ operation # 0 \/ (kind = "logout" /\ ~connected))
    BY <1>1, <2>2 DEF Ask, StartOperation, lifecycle, features, ControlOK
  <2> QED BY <2>1, <2>2
<1>2. ASSUME FenceFeature PROVE Goal
  <2>1. CASE turn.next = FeatureCount
    BY <1>2, <2>1 DEF FenceFeature, lifecycle, features, ControlOK
  <2>2. CASE ~(turn.next = FeatureCount)
    BY <1>2, <2>2 DEF FenceFeature, lifecycle, features, ControlOK
  <2> QED BY <2>1, <2>2
<1>3. ASSUME Launch PROVE Goal
  BY <1>3 DEF Launch, lifecycle, features, ControlOK
<1>4. ASSUME Work PROVE Goal
  BY <1>4 DEF Work, lifecycle, features, ControlOK
<1>5. ASSUME FinishOperation PROVE Goal
  <2>1. CASE operation = 0
    BY <1>5, <2>1 DEF FinishOperation, Outcome, lifecycle, features, ControlOK
  <2>2. CASE ~(operation = 0)
    BY <1>5, <2>2 DEF FinishOperation, Outcome, lifecycle, features, ControlOK
  <2> QED BY <2>1, <2>2
<1>6. ASSUME CommitFeature PROVE Goal
  <2>1. CASE turn.next = FeatureCount
    BY <1>6, <2>1 DEF CommitFeature, lifecycle, features, ControlOK
  <2>2. CASE ~(turn.next = FeatureCount)
    BY <1>6, <2>2 DEF CommitFeature, lifecycle, features, ControlOK
  <2> QED BY <2>1, <2>2
<1>7. ASSUME AbortFeature PROVE Goal
  <2>1. CASE turn.next = FeatureCount
    BY <1>7, <2>1 DEF AbortFeature, lifecycle, features, ControlOK
  <2>2. CASE ~(turn.next = FeatureCount)
    BY <1>7, <2>2 DEF AbortFeature, lifecycle, features, ControlOK
  <2> QED BY <2>1, <2>2
<1>8. ASSUME Answer PROVE Goal
  BY <1>8 DEF Answer, lifecycle, features, ControlOK
<1>9. ASSUME EndTurn PROVE Goal
  BY <1>9 DEF EndTurn, lifecycle, features, ControlOK
<1>10. ASSUME Shutdown PROVE Goal
  BY <1>10 DEF Shutdown, lifecycle, features, ControlOK
<1>11. ASSUME NEW f \in Feature, Request(f) PROVE Goal
  BY <1>11 DEF Request, lifecycle, features, ControlOK
<1>12. ASSUME NEW f \in Feature, ReadAccount(f) PROVE Goal
  BY <1>12 DEF ReadAccount, lifecycle, features, ControlOK
<1>13. ASSUME NEW f \in Feature, Deliver(f) PROVE Goal
  BY <1>13 DEF Deliver, lifecycle, features, ControlOK
<1>q. QED
  BY <1>1, <1>2, <1>3, <1>4, <1>5, <1>6, <1>7, <1>8, <1>9, <1>10, <1>11,
     <1>12, <1>13, <1>u
  DEF Step, TurnStep, FeatureStep

\* Every step keeps the calls' records.
LEMMA CallsTyped ==
  ASSUME CallsOK, CountersOK,
         [Step]_vars
  PROVE CallsOK'
<1> DEFINE Goal == CallsOK'
<1> USE Numbers, CallChanges
<1>u. UNCHANGED vars => Goal
  BY DEF vars, lifecycle, features, CallsOK, CountersOK
<1>1. ASSUME NEW kind \in Kinds, Ask(kind) PROVE Goal
  <2>1. CASE closing \/ operation # 0 \/ (kind = "logout" /\ ~connected)
    BY <1>1, <2>1
    DEF Ask, StartOperation, lifecycle, features, CallsOK, CountersOK
  <2>2. CASE ~(closing \/ operation # 0 \/ (kind = "logout" /\ ~connected))
    BY <1>1, <2>2
    DEF Ask, StartOperation, lifecycle, features, CallsOK, CountersOK
  <2> QED BY <2>1, <2>2
<1>2. ASSUME FenceFeature PROVE Goal
  <2>1. CASE turn.next = FeatureCount
    BY <1>2, <2>1 DEF FenceFeature, lifecycle, features, CallsOK, CountersOK
  <2>2. CASE ~(turn.next = FeatureCount)
    BY <1>2, <2>2 DEF FenceFeature, lifecycle, features, CallsOK, CountersOK
  <2> QED BY <2>1, <2>2
<1>3. ASSUME Launch PROVE Goal
  BY <1>3 DEF Launch, lifecycle, features, CallsOK, CountersOK
<1>4. ASSUME Work PROVE Goal
  BY <1>4 DEF Work, lifecycle, features, CallsOK, CountersOK
<1>5. ASSUME FinishOperation PROVE Goal
  <2>1. CASE operation = 0
    BY <1>5, <2>1
    DEF FinishOperation, Outcome, lifecycle, features, CallsOK, CountersOK
  <2>2. CASE ~(operation = 0)
    BY <1>5, <2>2
    DEF FinishOperation, Outcome, lifecycle, features, CallsOK, CountersOK
  <2> QED BY <2>1, <2>2
<1>6. ASSUME CommitFeature PROVE Goal
  <2>1. CASE turn.next = FeatureCount
    BY <1>6, <2>1 DEF CommitFeature, lifecycle, features, CallsOK, CountersOK
  <2>2. CASE ~(turn.next = FeatureCount)
    BY <1>6, <2>2 DEF CommitFeature, lifecycle, features, CallsOK, CountersOK
  <2> QED BY <2>1, <2>2
<1>7. ASSUME AbortFeature PROVE Goal
  <2>1. CASE turn.next = FeatureCount
    BY <1>7, <2>1 DEF AbortFeature, lifecycle, features, CallsOK, CountersOK
  <2>2. CASE ~(turn.next = FeatureCount)
    BY <1>7, <2>2 DEF AbortFeature, lifecycle, features, CallsOK, CountersOK
  <2> QED BY <2>1, <2>2
<1>8. ASSUME Answer PROVE Goal
  BY <1>8 DEF Answer, lifecycle, features, CallsOK, CountersOK
<1>9. ASSUME EndTurn PROVE Goal
  BY <1>9 DEF EndTurn, lifecycle, features, CallsOK, CountersOK
<1>10. ASSUME Shutdown PROVE Goal
  BY <1>10 DEF Shutdown, lifecycle, features, CallsOK, CountersOK
<1>11. ASSUME NEW f \in Feature, Request(f) PROVE Goal
  BY <1>11 DEF Request, lifecycle, features, CallsOK, CountersOK
<1>12. ASSUME NEW f \in Feature, ReadAccount(f) PROVE Goal
  BY <1>12 DEF ReadAccount, lifecycle, features, CallsOK, CountersOK
<1>13. ASSUME NEW f \in Feature, Deliver(f) PROVE Goal
  BY <1>13 DEF Deliver, lifecycle, features, CallsOK, CountersOK
<1>q. QED
  BY <1>1, <1>2, <1>3, <1>4, <1>5, <1>6, <1>7, <1>8, <1>9, <1>10, <1>11,
     <1>12, <1>13, <1>u
  DEF Step, TurnStep, FeatureStep

\* Every step keeps the flags.
LEMMA FlagsTyped ==
  ASSUME FlagsOK, CountersOK, TurnsOK,
         [Step]_vars
  PROVE FlagsOK'
<1> DEFINE Goal == FlagsOK'
<1> USE Numbers
<1>u. UNCHANGED vars => Goal
  BY DEF vars, lifecycle, features, FlagsOK, CountersOK
<1>1. ASSUME NEW kind \in Kinds, Ask(kind) PROVE Goal
  <2>1. CASE closing \/ operation # 0 \/ (kind = "logout" /\ ~connected)
    BY <1>1, <2>1
    DEF Ask, StartOperation, lifecycle, features, FlagsOK, CountersOK
  <2>2. CASE ~(closing \/ operation # 0 \/ (kind = "logout" /\ ~connected))
    BY <1>1, <2>2
    DEF Ask, StartOperation, lifecycle, features, FlagsOK, CountersOK
  <2> QED BY <2>1, <2>2
<1>2. ASSUME FenceFeature PROVE Goal
  <2>1. CASE turn.next = FeatureCount
    BY <1>2, <2>1 DEF FenceFeature, lifecycle, features, FlagsOK, CountersOK
  <2>2. CASE ~(turn.next = FeatureCount)
    BY <1>2, <2>2 DEF FenceFeature, lifecycle, features, FlagsOK, CountersOK
  <2> QED BY <2>1, <2>2
<1>3. ASSUME Launch PROVE Goal
  BY <1>3 DEF Launch, lifecycle, features, FlagsOK, CountersOK
<1>4. ASSUME Work PROVE Goal
  BY <1>4 DEF Work, lifecycle, features, FlagsOK, CountersOK
<1>5. ASSUME FinishOperation PROVE Goal
  <2>1. CASE operation = 0
    BY <1>5, <2>1
    DEF FinishOperation, Outcome, lifecycle, features, FlagsOK, CountersOK
  <2>2. CASE ~(operation = 0)
    BY <1>5, <2>2
    DEF FinishOperation, Outcome, lifecycle, features, FlagsOK, CountersOK
  <2> QED BY <2>1, <2>2
<1>6. ASSUME CommitFeature PROVE Goal
  <2>1. CASE turn.next = FeatureCount
    BY <1>6, <2>1 DEF CommitFeature, lifecycle, features, FlagsOK, CountersOK
  <2>2. CASE ~(turn.next = FeatureCount)
    BY <1>6, <2>2 DEF CommitFeature, lifecycle, features, FlagsOK, CountersOK
  <2> QED BY <2>1, <2>2
<1>7. ASSUME AbortFeature PROVE Goal
  <2>1. CASE turn.next = FeatureCount
    BY <1>7, <2>1 DEF AbortFeature, lifecycle, features, FlagsOK, CountersOK
  <2>2. CASE ~(turn.next = FeatureCount)
    BY <1>7, <2>2 DEF AbortFeature, lifecycle, features, FlagsOK, CountersOK
  <2> QED BY <2>1, <2>2
<1>8. ASSUME Answer PROVE Goal
  BY <1>8 DEF Answer, lifecycle, features, FlagsOK, CountersOK
<1>9. ASSUME EndTurn PROVE Goal
  BY <1>9 DEF EndTurn, lifecycle, features, FlagsOK, CountersOK
<1>10. ASSUME Shutdown PROVE Goal
  BY <1>10 DEF Shutdown, lifecycle, features, FlagsOK, CountersOK
<1>11. ASSUME NEW f \in Feature, Request(f) PROVE Goal
  BY <1>11 DEF Request, lifecycle, features, FlagsOK, CountersOK
<1>12. ASSUME NEW f \in Feature, ReadAccount(f) PROVE Goal
  BY <1>12 DEF ReadAccount, lifecycle, features, FlagsOK, CountersOK
<1>13. ASSUME NEW f \in Feature, Deliver(f) PROVE Goal
  BY <1>13 DEF Deliver, lifecycle, features, FlagsOK, CountersOK
<1>q. QED
  BY <1>1, <1>2, <1>3, <1>4, <1>5, <1>6, <1>7, <1>8, <1>9, <1>10, <1>11,
     <1>12, <1>13, <1>u
  DEF Step, TurnStep, FeatureStep

\* Every step keeps the numbers.
LEMMA CountersTyped ==
  ASSUME CountersOK, TurnsOK, ControlOK, TurnInv, ControlInv, CountInv,
         [Step]_vars
  PROVE CountersOK'
<1> DEFINE Goal == CountersOK'
<1> USE Numbers
<1>u. UNCHANGED vars => Goal
  BY
  DEF vars, lifecycle, features, CountersOK, TurnsOK, ControlOK, TurnInv,
      ControlInv, CountInv, Turns, Controls, Idle
<1>1. ASSUME NEW kind \in Kinds, Ask(kind) PROVE Goal
  <2>1. CASE closing \/ operation # 0 \/ (kind = "logout" /\ ~connected)
    BY <1>1, <2>1
    DEF Ask, StartOperation, lifecycle, features, CountersOK, TurnsOK,
        ControlOK, TurnInv, ControlInv, CountInv, Turns, Controls, Idle
  <2>2. CASE ~(closing \/ operation # 0 \/ (kind = "logout" /\ ~connected))
    BY <1>1, <2>2
    DEF Ask, StartOperation, lifecycle, features, CountersOK, TurnsOK,
        ControlOK, TurnInv, ControlInv, CountInv, Turns, Controls, Idle
  <2> QED BY <2>1, <2>2
<1>2. ASSUME FenceFeature PROVE Goal
  <2>1. CASE turn.next = FeatureCount
    BY <1>2, <2>1
    DEF FenceFeature, lifecycle, features, CountersOK, TurnsOK, ControlOK,
        TurnInv, ControlInv, CountInv, Turns, Controls, Idle
  <2>2. CASE ~(turn.next = FeatureCount)
    BY <1>2, <2>2
    DEF FenceFeature, lifecycle, features, CountersOK, TurnsOK, ControlOK,
        TurnInv, ControlInv, CountInv, Turns, Controls, Idle
  <2> QED BY <2>1, <2>2
<1>3. ASSUME Launch PROVE Goal
  BY <1>3
  DEF Launch, lifecycle, features, CountersOK, TurnsOK, ControlOK, TurnInv,
      ControlInv, CountInv, Turns, Controls, Idle
<1>4. ASSUME Work PROVE Goal
  BY <1>4
  DEF Work, lifecycle, features, CountersOK, TurnsOK, ControlOK, TurnInv,
      ControlInv, CountInv, Turns, Controls, Idle
<1>5. ASSUME FinishOperation PROVE Goal
  <2>1. CASE operation = 0
    BY <1>5, <2>1
    DEF FinishOperation, Outcome, lifecycle, features, CountersOK, TurnsOK,
        ControlOK, TurnInv, ControlInv, CountInv, Turns, Controls, Idle
  <2>2. CASE ~(operation = 0)
    BY <1>5, <2>2
    DEF FinishOperation, Outcome, lifecycle, features, CountersOK, TurnsOK,
        ControlOK, TurnInv, ControlInv, CountInv, Turns, Controls, Idle
  <2> QED BY <2>1, <2>2
<1>6. ASSUME CommitFeature PROVE Goal
  <2>1. CASE turn.next = FeatureCount
    BY <1>6, <2>1
    DEF CommitFeature, lifecycle, features, CountersOK, TurnsOK, ControlOK,
        TurnInv, ControlInv, CountInv, Turns, Controls, Idle
  <2>2. CASE ~(turn.next = FeatureCount)
    BY <1>6, <2>2
    DEF CommitFeature, lifecycle, features, CountersOK, TurnsOK, ControlOK,
        TurnInv, ControlInv, CountInv, Turns, Controls, Idle
  <2> QED BY <2>1, <2>2
<1>7. ASSUME AbortFeature PROVE Goal
  <2>1. CASE turn.next = FeatureCount
    BY <1>7, <2>1
    DEF AbortFeature, lifecycle, features, CountersOK, TurnsOK, ControlOK,
        TurnInv, ControlInv, CountInv, Turns, Controls, Idle
  <2>2. CASE ~(turn.next = FeatureCount)
    BY <1>7, <2>2
    DEF AbortFeature, lifecycle, features, CountersOK, TurnsOK, ControlOK,
        TurnInv, ControlInv, CountInv, Turns, Controls, Idle
  <2> QED BY <2>1, <2>2
<1>8. ASSUME Answer PROVE Goal
  BY <1>8
  DEF Answer, lifecycle, features, CountersOK, TurnsOK, ControlOK, TurnInv,
      ControlInv, CountInv, Turns, Controls, Idle
<1>9. ASSUME EndTurn PROVE Goal
  BY <1>9
  DEF EndTurn, lifecycle, features, CountersOK, TurnsOK, ControlOK, TurnInv,
      ControlInv, CountInv, Turns, Controls, Idle
<1>10. ASSUME Shutdown PROVE Goal
  BY <1>10
  DEF Shutdown, lifecycle, features, CountersOK, TurnsOK, ControlOK, TurnInv,
      ControlInv, CountInv, Turns, Controls, Idle
<1>11. ASSUME NEW f \in Feature, Request(f) PROVE Goal
  BY <1>11
  DEF Request, lifecycle, features, CountersOK, TurnsOK, ControlOK, TurnInv,
      ControlInv, CountInv, Turns, Controls, Idle
<1>12. ASSUME NEW f \in Feature, ReadAccount(f) PROVE Goal
  BY <1>12
  DEF ReadAccount, lifecycle, features, CountersOK, TurnsOK, ControlOK,
      TurnInv, ControlInv, CountInv, Turns, Controls, Idle
<1>13. ASSUME NEW f \in Feature, Deliver(f) PROVE Goal
  BY <1>13
  DEF Deliver, lifecycle, features, CountersOK, TurnsOK, ControlOK, TurnInv,
      ControlInv, CountInv, Turns, Controls, Idle
<1>q. QED
  BY <1>1, <1>2, <1>3, <1>4, <1>5, <1>6, <1>7, <1>8, <1>9, <1>10, <1>11,
     <1>12, <1>13, <1>u
  DEF Step, TurnStep, FeatureStep

\* Every step keeps the turns in order.
LEMMA TurnKept ==
  ASSUME CountersOK, TurnsOK, TurnInv, ControlInv,
         [Step]_vars
  PROVE TurnInv'
<1> DEFINE Goal == TurnInv'
<1> USE Numbers, BeginTurn, NextFeature, IdleTurn
<1>u. UNCHANGED vars => Goal
  BY
  DEF vars, lifecycle, features, CountersOK, TurnsOK, TurnInv, ControlInv,
      Walks, Stages, Turns, Feature
<1>1. ASSUME NEW kind \in Kinds, Ask(kind) PROVE Goal
  <2>1. CASE closing \/ operation # 0 \/ (kind = "logout" /\ ~connected)
    BY <1>1, <2>1
    DEF Ask, StartOperation, lifecycle, features, CountersOK, TurnsOK,
        TurnInv, ControlInv, Walks, Stages, Turns, Feature
  <2>2. CASE ~(closing \/ operation # 0 \/ (kind = "logout" /\ ~connected))
    BY <1>1, <2>2
    DEF Ask, StartOperation, lifecycle, features, CountersOK, TurnsOK,
        TurnInv, ControlInv, Walks, Stages, Turns, Feature
  <2> QED BY <2>1, <2>2
<1>2. ASSUME FenceFeature PROVE Goal
  <2>1. CASE turn.next = FeatureCount
    BY <1>2, <2>1
    DEF FenceFeature, lifecycle, features, CountersOK, TurnsOK, TurnInv,
        ControlInv, Walks, Stages, Turns, Feature
  <2>2. CASE ~(turn.next = FeatureCount)
    BY <1>2, <2>2
    DEF FenceFeature, lifecycle, features, CountersOK, TurnsOK, TurnInv,
        ControlInv, Walks, Stages, Turns, Feature
  <2> QED BY <2>1, <2>2
<1>3. ASSUME Launch PROVE Goal
  BY <1>3
  DEF Launch, lifecycle, features, CountersOK, TurnsOK, TurnInv, ControlInv,
      Walks, Stages, Turns, Feature
<1>4. ASSUME Work PROVE Goal
  BY <1>4
  DEF Work, lifecycle, features, CountersOK, TurnsOK, TurnInv, ControlInv,
      Walks, Stages, Turns, Feature
<1>5. ASSUME FinishOperation PROVE Goal
  <2>1. CASE operation = 0
    BY <1>5, <2>1
    DEF FinishOperation, Outcome, lifecycle, features, CountersOK, TurnsOK,
        TurnInv, ControlInv, Walks, Stages, Turns, Feature
  <2>2. CASE ~(operation = 0)
    BY <1>5, <2>2
    DEF FinishOperation, Outcome, lifecycle, features, CountersOK, TurnsOK,
        TurnInv, ControlInv, Walks, Stages, Turns, Feature
  <2> QED BY <2>1, <2>2
<1>6. ASSUME CommitFeature PROVE Goal
  <2>1. CASE turn.next = FeatureCount
    BY <1>6, <2>1
    DEF CommitFeature, lifecycle, features, CountersOK, TurnsOK, TurnInv,
        ControlInv, Walks, Stages, Turns, Feature
  <2>2. CASE ~(turn.next = FeatureCount)
    BY <1>6, <2>2
    DEF CommitFeature, lifecycle, features, CountersOK, TurnsOK, TurnInv,
        ControlInv, Walks, Stages, Turns, Feature
  <2> QED BY <2>1, <2>2
<1>7. ASSUME AbortFeature PROVE Goal
  <2>1. CASE turn.next = FeatureCount
    BY <1>7, <2>1
    DEF AbortFeature, lifecycle, features, CountersOK, TurnsOK, TurnInv,
        ControlInv, Walks, Stages, Turns, Feature
  <2>2. CASE ~(turn.next = FeatureCount)
    BY <1>7, <2>2
    DEF AbortFeature, lifecycle, features, CountersOK, TurnsOK, TurnInv,
        ControlInv, Walks, Stages, Turns, Feature
  <2> QED BY <2>1, <2>2
<1>8. ASSUME Answer PROVE Goal
  BY <1>8
  DEF Answer, lifecycle, features, CountersOK, TurnsOK, TurnInv, ControlInv,
      Walks, Stages, Turns, Feature
<1>9. ASSUME EndTurn PROVE Goal
  BY <1>9
  DEF EndTurn, lifecycle, features, CountersOK, TurnsOK, TurnInv, ControlInv,
      Walks, Stages, Turns, Feature
<1>10. ASSUME Shutdown PROVE Goal
  BY <1>10
  DEF Shutdown, lifecycle, features, CountersOK, TurnsOK, TurnInv, ControlInv,
      Walks, Stages, Turns, Feature
<1>11. ASSUME NEW f \in Feature, Request(f) PROVE Goal
  BY <1>11
  DEF Request, lifecycle, features, CountersOK, TurnsOK, TurnInv, ControlInv,
      Walks, Stages, Turns, Feature
<1>12. ASSUME NEW f \in Feature, ReadAccount(f) PROVE Goal
  BY <1>12
  DEF ReadAccount, lifecycle, features, CountersOK, TurnsOK, TurnInv,
      ControlInv, Walks, Stages, Turns, Feature
<1>13. ASSUME NEW f \in Feature, Deliver(f) PROVE Goal
  BY <1>13
  DEF Deliver, lifecycle, features, CountersOK, TurnsOK, TurnInv, ControlInv,
      Walks, Stages, Turns, Feature
<1>q. QED
  BY <1>1, <1>2, <1>3, <1>4, <1>5, <1>6, <1>7, <1>8, <1>9, <1>10, <1>11,
     <1>12, <1>13, <1>u
  DEF Step, TurnStep, FeatureStep

\* Every step keeps the control thread in step with the turns.
LEMMA ControlKept ==
  ASSUME CountersOK, TurnsOK, ControlOK, TurnInv, ControlInv,
         [Step]_vars
  PROVE ControlInv'
<1> DEFINE Goal == ControlInv'
<1>u. UNCHANGED vars => Goal
  BY DEF vars, lifecycle, features, ControlInv
<1>1. ASSUME NEW kind \in Kinds, Ask(kind) PROVE Goal
  <2>1. CASE closing \/ operation # 0 \/ (kind = "logout" /\ ~connected)
    BY <1>1, <2>1, Typed, Numbers, BeginTurn, AskControl
    DEF Ask, StartOperation, lifecycle, features, ControlInv, TurnInv, Stages,
        Walks, CountersOK
  <2>2. CASE ~(closing \/ operation # 0 \/ (kind = "logout" /\ ~connected))
    BY <1>1, <2>2, Typed, Numbers, BeginTurn, AskControl
    DEF Ask, StartOperation, lifecycle, features, ControlInv, TurnInv, Stages,
        Walks, CountersOK
  <2> QED BY <2>1, <2>2
<1>2. ASSUME FenceFeature PROVE Goal
  <2>1. CASE turn.next = FeatureCount
    BY <1>2, <2>1, Typed, BeginTurn, NextFeature
    DEF FenceFeature, lifecycle, features, ControlInv, TurnInv, Stages, Walks,
        TurnsOK
  <2>2. CASE ~(turn.next = FeatureCount)
    BY <1>2, <2>2, Typed, BeginTurn, NextFeature
    DEF FenceFeature, lifecycle, features, ControlInv, TurnInv, Stages, Walks,
        TurnsOK
  <2> QED BY <2>1, <2>2
<1>3. ASSUME Launch PROVE Goal
  BY <1>3, Typed, LaunchControl, IdleTurn
  DEF Launch, lifecycle, features, ControlInv, TurnInv, Stages, ControlOK
<1>4. ASSUME Work PROVE Goal
  BY <1>4, Typed, WorkControl
  DEF Work, lifecycle, features, ControlInv, TurnInv, Stages, ControlOK
<1>5. ASSUME FinishOperation PROVE Goal
  <2>1. CASE operation = 0
    BY <1>5, <2>1, Typed, FinishControl, BeginTurn, IdleTurn
    DEF FinishOperation, Outcome, lifecycle, features, ControlInv, TurnInv,
        Stages, ControlOK, CountersOK
  <2>2. CASE ~(operation = 0)
    BY <1>5, <2>2, Typed, FinishControl, BeginTurn, IdleTurn
    DEF FinishOperation, Outcome, lifecycle, features, ControlInv, TurnInv,
        Stages, ControlOK, CountersOK
  <2> QED BY <2>1, <2>2
<1>6. ASSUME CommitFeature PROVE Goal
  <2>1. CASE turn.next = FeatureCount
    BY <1>6, <2>1, Typed, BeginTurn, NextFeature, IdleTurn
    DEF CommitFeature, lifecycle, features, ControlInv, TurnInv, Stages,
        Walks, TurnsOK
  <2>2. CASE ~(turn.next = FeatureCount)
    BY <1>6, <2>2, Typed, BeginTurn, NextFeature, IdleTurn
    DEF CommitFeature, lifecycle, features, ControlInv, TurnInv, Stages,
        Walks, TurnsOK
  <2> QED BY <2>1, <2>2
<1>7. ASSUME AbortFeature PROVE Goal
  <2>1. CASE turn.next = FeatureCount
    BY <1>7, <2>1, Typed, BeginTurn, NextFeature, IdleTurn
    DEF AbortFeature, lifecycle, features, ControlInv, TurnInv, Stages, Walks,
        TurnsOK
  <2>2. CASE ~(turn.next = FeatureCount)
    BY <1>7, <2>2, Typed, BeginTurn, NextFeature, IdleTurn
    DEF AbortFeature, lifecycle, features, ControlInv, TurnInv, Stages, Walks,
        TurnsOK
  <2> QED BY <2>1, <2>2
<1>8. ASSUME Answer PROVE Goal
  BY <1>8, Typed, BeginTurn, IdleTurn
  DEF Answer, lifecycle, features, ControlInv, TurnInv, Stages
<1>9. ASSUME EndTurn PROVE Goal
  BY <1>9, Typed, IdleTurn
  DEF EndTurn, lifecycle, features, ControlInv, TurnInv, Stages
<1>10. ASSUME Shutdown PROVE Goal
  BY <1>10, Typed, IdleTurn
  DEF Shutdown, lifecycle, features, ControlInv, TurnInv, Stages
<1>11. ASSUME NEW f \in Feature, Request(f) PROVE Goal
  BY <1>11, Typed DEF Request, lifecycle, features, ControlInv, TurnInv, Stages
<1>12. ASSUME NEW f \in Feature, ReadAccount(f) PROVE Goal
  BY <1>12, Typed
  DEF ReadAccount, lifecycle, features, ControlInv, TurnInv, Stages
<1>13. ASSUME NEW f \in Feature, Deliver(f) PROVE Goal
  BY <1>13, Typed DEF Deliver, lifecycle, features, ControlInv, TurnInv, Stages
<1>q. QED
  BY <1>1, <1>2, <1>3, <1>4, <1>5, <1>6, <1>7, <1>8, <1>9, <1>10, <1>11,
     <1>12, <1>13, <1>u
  DEF Step, TurnStep, FeatureStep

\* Every step keeps the count of generations.
LEMMA CountKept ==
  ASSUME CountersOK, TurnsOK, ControlOK, TurnInv, ControlInv, CountInv,
         [Step]_vars
  PROVE CountInv'
<1> DEFINE Goal == CountInv'
<1>u. UNCHANGED vars => Goal
  BY DEF vars, lifecycle, features, CountInv
<1>1. ASSUME NEW kind \in Kinds, Ask(kind) PROVE Goal
  <2>1. CASE closing \/ operation # 0 \/ (kind = "logout" /\ ~connected)
    BY <1>1, <2>1, Typed, BeginTurn, Numbers
    DEF Ask, StartOperation, lifecycle, features, CountInv, Stages, TurnInv,
        ControlInv, CountersOK
  <2>2. CASE ~(closing \/ operation # 0 \/ (kind = "logout" /\ ~connected))
    BY <1>1, <2>2, Typed, BeginTurn, Numbers
    DEF Ask, StartOperation, lifecycle, features, CountInv, Stages, TurnInv,
        ControlInv, CountersOK
  <2> QED BY <2>1, <2>2
<1>2. ASSUME FenceFeature PROVE Goal
  <2>1. CASE turn.next = FeatureCount
    BY <1>2, <2>1, Typed, BeginTurn, NextFeature
    DEF FenceFeature, lifecycle, features, CountInv, Stages, TurnInv, Walks,
        TurnsOK
  <2>2. CASE ~(turn.next = FeatureCount)
    BY <1>2, <2>2, Typed, BeginTurn, NextFeature
    DEF FenceFeature, lifecycle, features, CountInv, Stages, TurnInv, Walks,
        TurnsOK
  <2> QED BY <2>1, <2>2
<1>3. ASSUME Launch PROVE Goal
  BY <1>3, Typed DEF Launch, lifecycle, features, CountInv, Stages, TurnInv
<1>4. ASSUME Work PROVE Goal
  BY <1>4, Typed DEF Work, lifecycle, features, CountInv, Stages
<1>5. ASSUME FinishOperation PROVE Goal
  <2>1. CASE operation = 0
    BY <1>5, <2>1, Typed, BeginTurn, IdleTurn
    DEF FinishOperation, Outcome, lifecycle, features, CountInv, Stages,
        TurnInv, ControlInv, CountersOK
  <2>2. CASE ~(operation = 0)
    BY <1>5, <2>2, Typed, BeginTurn, IdleTurn
    DEF FinishOperation, Outcome, lifecycle, features, CountInv, Stages,
        TurnInv, ControlInv, CountersOK
  <2> QED BY <2>1, <2>2
<1>6. ASSUME CommitFeature PROVE Goal
  <2>1. CASE turn.next = FeatureCount
    BY <1>6, <2>1, Typed, BeginTurn, NextFeature
    DEF CommitFeature, lifecycle, features, CountInv, Stages, TurnInv, Walks,
        TurnsOK
  <2>2. CASE ~(turn.next = FeatureCount)
    BY <1>6, <2>2, Typed, BeginTurn, NextFeature
    DEF CommitFeature, lifecycle, features, CountInv, Stages, TurnInv, Walks,
        TurnsOK
  <2> QED BY <2>1, <2>2
<1>7. ASSUME AbortFeature PROVE Goal
  <2>1. CASE turn.next = FeatureCount
    BY <1>7, <2>1, Typed, BeginTurn, NextFeature
    DEF AbortFeature, lifecycle, features, CountInv, Stages, TurnInv, Walks,
        TurnsOK
  <2>2. CASE ~(turn.next = FeatureCount)
    BY <1>7, <2>2, Typed, BeginTurn, NextFeature
    DEF AbortFeature, lifecycle, features, CountInv, Stages, TurnInv, Walks,
        TurnsOK
  <2> QED BY <2>1, <2>2
<1>8. ASSUME Answer PROVE Goal
  BY <1>8, Typed, BeginTurn
  DEF Answer, lifecycle, features, CountInv, Stages, TurnInv
<1>9. ASSUME EndTurn PROVE Goal
  BY <1>9, Typed
  DEF EndTurn, lifecycle, features, CountInv, Stages, TurnInv, ControlInv
<1>10. ASSUME Shutdown PROVE Goal
  BY <1>10, Typed, IdleTurn DEF Shutdown, lifecycle, features, CountInv, Stages
<1>11. ASSUME NEW f \in Feature, Request(f) PROVE Goal
  BY <1>11, Typed DEF Request, lifecycle, features, CountInv, Stages
<1>12. ASSUME NEW f \in Feature, ReadAccount(f) PROVE Goal
  BY <1>12, Typed DEF ReadAccount, lifecycle, features, CountInv, Stages
<1>13. ASSUME NEW f \in Feature, Deliver(f) PROVE Goal
  BY <1>13, Typed DEF Deliver, lifecycle, features, CountInv, Stages
<1>q. QED
  BY <1>1, <1>2, <1>3, <1>4, <1>5, <1>6, <1>7, <1>8, <1>9, <1>10, <1>11,
     <1>12, <1>13, <1>u
  DEF Step, TurnStep, FeatureStep

\* Every step keeps the fences behind or before the walk.
LEMMA FenceKept ==
  ASSUME CountersOK, FlagsOK, TurnsOK, ControlOK, TurnInv, ControlInv, FenceInv,
         [Step]_vars
  PROVE FenceInv'
<1> DEFINE Goal == FenceInv'
<1>u. UNCHANGED vars => Goal
  BY DEF vars, lifecycle, features, FenceInv
<1>1. ASSUME NEW kind \in Kinds, Ask(kind) PROVE Goal
  <2>1. CASE closing \/ operation # 0 \/ (kind = "logout" /\ ~connected)
    BY <1>1, <2>1, Typed, Numbers, BeginTurn, AskControl, FeaturesAssumption
    DEF Ask, StartOperation, lifecycle, features, FenceInv, Stages, TurnInv,
        ControlInv, CountersOK, Feature
  <2>2. CASE ~(closing \/ operation # 0 \/ (kind = "logout" /\ ~connected))
    BY <1>1, <2>2, Typed, Numbers, BeginTurn, AskControl, FeaturesAssumption
    DEF Ask, StartOperation, lifecycle, features, FenceInv, Stages, TurnInv,
        ControlInv, CountersOK, Feature
  <2> QED BY <2>1, <2>2
<1>2. ASSUME FenceFeature PROVE Goal
  <2>1. CASE turn.next = FeatureCount
    <3>1. /\ turn'.stage = "launch" /\ generation' = generation
          /\ serves' = serves
      BY <1>2, <2>1, Typed, BeginTurn
      DEF FenceFeature, lifecycle, features, Stages
    <3>2. control' = control /\ closing' = closing
      BY <1>2, <2>1 DEF FenceFeature, lifecycle
    <3>3. \A f \in Feature : fenced'[f]
      <4>1. \A f \in Feature : f < turn.next \/ f = turn.next
        BY <2>1, FeaturesAssumption DEF Feature
      <4> QED BY <1>2, <4>1 DEF FenceFeature, FenceInv, FlagsOK
    <3> QED BY <1>2, <3>1, <3>2, <3>3 DEF FenceFeature, FenceInv
  <2>2. CASE ~(turn.next = FeatureCount)
    BY <1>2, <2>2, Typed, BeginTurn, NextFeature, FeaturesAssumption
    DEF FenceFeature, lifecycle, features, FenceInv, Stages, TurnInv,
        ControlInv, Walks, TurnsOK, FlagsOK, Feature
  <2> QED BY <2>1, <2>2
<1>3. ASSUME Launch PROVE Goal
  BY <1>3, Typed, LaunchControl, IdleTurn
  DEF Launch, lifecycle, features, FenceInv, Stages, ControlOK, TurnInv
<1>4. ASSUME Work PROVE Goal
  BY <1>4, Typed, WorkControl
  DEF Work, lifecycle, features, FenceInv, Stages, ControlOK
<1>5. ASSUME FinishOperation PROVE Goal
  <2>1. CASE operation = 0
    BY <1>5, <2>1, Typed, FinishControl, BeginTurn, IdleTurn, FeaturesAssumption
    DEF FinishOperation, Outcome, lifecycle, features, FenceInv, Stages,
        ControlOK, CountersOK, TurnInv, ControlInv, Feature
  <2>2. CASE ~(operation = 0)
    BY <1>5, <2>2, Typed, FinishControl, BeginTurn, IdleTurn, FeaturesAssumption
    DEF FinishOperation, Outcome, lifecycle, features, FenceInv, Stages,
        ControlOK, CountersOK, TurnInv, ControlInv, Feature
  <2> QED BY <2>1, <2>2
<1>6. ASSUME CommitFeature PROVE Goal
  <2>1. CASE turn.next = FeatureCount
    <3>1. turn'.stage = "answer" /\ generation' = generation
      BY <1>6, <2>1, Typed, BeginTurn DEF CommitFeature, Stages
    <3>2. control' = control /\ closing' = closing
      BY <1>6, <2>1 DEF CommitFeature
    <3>3. control.state = "none" /\ ~closing
      BY <1>6, Typed, IdleTurn DEF CommitFeature, ControlInv
    <3>4. \A f \in Feature : serves'[f] = generation
      <4>1. \A f \in Feature : f < turn.next \/ f = turn.next
        BY <2>1, FeaturesAssumption DEF Feature
      <4> QED BY <1>6, <4>1 DEF CommitFeature, FenceInv, FlagsOK
    <3> QED BY <3>1, <3>2, <3>3, <3>4 DEF FenceInv
  <2>2. CASE ~(turn.next = FeatureCount)
    BY <1>6, <2>2, Typed, BeginTurn, NextFeature, IdleTurn, FeaturesAssumption
    DEF CommitFeature, lifecycle, features, FenceInv, Stages, TurnInv,
        ControlInv, Walks, TurnsOK, FlagsOK, Feature
  <2> QED BY <2>1, <2>2
<1>7. ASSUME AbortFeature PROVE Goal
  <2>1. CASE turn.next = FeatureCount
    <3>1. /\ turn'.stage = "answer" /\ generation' = generation
          /\ serves' = serves
      BY <1>7, <2>1, Typed, BeginTurn DEF AbortFeature, Stages
    <3>2. control' = control /\ closing' = closing
      BY <1>7, <2>1 DEF AbortFeature
    <3>3. control.state = "none" /\ ~closing
      BY <1>7, Typed, IdleTurn DEF AbortFeature, ControlInv
    <3> QED BY <1>7, <3>1, <3>2, <3>3 DEF AbortFeature, FenceInv
  <2>2. CASE ~(turn.next = FeatureCount)
    BY <1>7, <2>2, Typed, BeginTurn, NextFeature, IdleTurn, FeaturesAssumption
    DEF AbortFeature, lifecycle, features, FenceInv, Stages, TurnInv,
        ControlInv, Walks, TurnsOK, FlagsOK, Feature
  <2> QED BY <2>1, <2>2
<1>8. ASSUME Answer PROVE Goal
  BY <1>8, Typed, BeginTurn, IdleTurn
  DEF Answer, lifecycle, features, FenceInv, Stages
<1>9. ASSUME EndTurn PROVE Goal
  BY <1>9, Typed, IdleTurn
  DEF EndTurn, lifecycle, features, FenceInv, Stages, TurnInv, ControlInv
<1>10. ASSUME Shutdown PROVE Goal
  BY <1>10, Typed, IdleTurn
  DEF Shutdown, lifecycle, features, FenceInv, Stages, FlagsOK
<1>11. ASSUME NEW f \in Feature, Request(f) PROVE Goal
  BY <1>11, Typed DEF Request, lifecycle, features, FenceInv, Stages
<1>12. ASSUME NEW f \in Feature, ReadAccount(f) PROVE Goal
  BY <1>12, Typed DEF ReadAccount, lifecycle, features, FenceInv, Stages
<1>13. ASSUME NEW f \in Feature, Deliver(f) PROVE Goal
  BY <1>13, Typed DEF Deliver, lifecycle, features, FenceInv, Stages
<1>q. QED
  BY <1>1, <1>2, <1>3, <1>4, <1>5, <1>6, <1>7, <1>8, <1>9, <1>10, <1>11,
     <1>12, <1>13, <1>u
  DEF Step, TurnStep, FeatureStep

\* Every step keeps open calls on the current account.
LEMMA AccountKept ==
  ASSUME CountersOK, FlagsOK, TurnsOK, ControlOK, CallsOK,
         TurnInv, ControlInv, CountInv, FenceInv, AccountInv,
         [Step]_vars
  PROVE AccountInv'
<1> DEFINE Goal == AccountInv'
<1>u. UNCHANGED vars => Goal
  BY DEF vars, lifecycle, features, AccountInv
<1>1. ASSUME NEW kind \in Kinds, Ask(kind) PROVE Goal
  <2>1. CASE closing \/ operation # 0 \/ (kind = "logout" /\ ~connected)
    BY <1>1, <2>1, Typed, AskControl
    DEF Ask, StartOperation, lifecycle, features, AccountInv, ControlInv,
        TurnInv, Stages, CountersOK
  <2>2. CASE ~(closing \/ operation # 0 \/ (kind = "logout" /\ ~connected))
    BY <1>1, <2>2, Typed, AskControl
    DEF Ask, StartOperation, lifecycle, features, AccountInv, ControlInv,
        TurnInv, Stages, CountersOK
  <2> QED BY <2>1, <2>2
<1>2. ASSUME FenceFeature PROVE Goal
  <2>1. /\ turn.next \in Feature => call'[turn.next].valid = FALSE
        /\ \A f \in Feature \ {turn.next} :
             call'[f] = call[f] /\ fenced'[f] = fenced[f]
    BY <1>2 DEF FenceFeature, CallsOK, FlagsOK, Calls
  <2>2. /\ control' = control /\ closing' = closing /\ account' = account
        /\ accountOf' = accountOf /\ generation' = generation
    BY <1>2 DEF FenceFeature, lifecycle
  <2> QED BY <2>1, <2>2 DEF AccountInv
<1>3. ASSUME Launch PROVE Goal
  BY <1>3, Typed, LaunchControl
  DEF Launch, lifecycle, features, AccountInv, ControlOK, ControlInv
<1>4. ASSUME Work PROVE Goal
  BY <1>4, Typed, WorkControl
  DEF Work, lifecycle, features, AccountInv, ControlOK, FenceInv
<1>5. ASSUME FinishOperation PROVE Goal
  <2>1. /\ control'.state = "none" /\ account' = account /\ closing' = closing
        /\ call' = call /\ fenced' = fenced
    BY <1>5, FinishControl DEF FinishOperation, features
  <2>2. \A f \in Feature : fenced[f] /\ ~call[f].valid
    BY <1>5 DEF FinishOperation, FenceInv, AccountInv
  <2>3. CASE operation = 0
    BY <1>5, <2>1, <2>2, <2>3 DEF FinishOperation, AccountInv, ControlInv
  <2>4. CASE operation # 0 /\ control.ok
    <3>1. generation <= asked
      BY <1>5, <2>4, IdleTurn DEF FinishOperation, TurnInv, CountInv
    <3>2. generation + 1 \in Generations
      BY <3>1, Numbers DEF CountersOK
    <3>3. generation' = generation + 1 /\ accountOf'[generation + 1] = account
      BY <1>5, <2>4, <3>2 DEF FinishOperation, CountersOK
    <3> QED BY <2>1, <2>2, <3>3 DEF AccountInv
  <2>5. CASE operation # 0 /\ ~control.ok
    BY <1>5, <2>1, <2>2, <2>5 DEF FinishOperation, AccountInv
  <2> QED BY <2>3, <2>4, <2>5
<1>6. ASSUME CommitFeature PROVE Goal
  <2>1. CASE turn.next = FeatureCount
    BY <1>6, <2>1, Typed
    DEF CommitFeature, lifecycle, features, AccountInv, FlagsOK
  <2>2. CASE ~(turn.next = FeatureCount)
    BY <1>6, <2>2, Typed
    DEF CommitFeature, lifecycle, features, AccountInv, FlagsOK
  <2> QED BY <2>1, <2>2
<1>7. ASSUME AbortFeature PROVE Goal
  <2>1. CASE turn.next = FeatureCount
    BY <1>7, <2>1, Typed
    DEF AbortFeature, lifecycle, features, AccountInv, FlagsOK
  <2>2. CASE ~(turn.next = FeatureCount)
    BY <1>7, <2>2, Typed
    DEF AbortFeature, lifecycle, features, AccountInv, FlagsOK
  <2> QED BY <2>1, <2>2
<1>8. ASSUME Answer PROVE Goal
  BY <1>8, Typed DEF Answer, lifecycle, features, AccountInv
<1>9. ASSUME EndTurn PROVE Goal
  BY <1>9, Typed DEF EndTurn, lifecycle, features, AccountInv
<1>10. ASSUME Shutdown PROVE Goal
  BY <1>10, Typed, CallChanges
  DEF Shutdown, lifecycle, features, AccountInv, CallsOK, FlagsOK
<1>11. ASSUME NEW f \in Feature, Request(f) PROVE Goal
  <2>1. /\ ~fenced[f]
        /\ call'[f] = [state |-> "asked", generation |-> generation,
                       account |-> 0, valid |-> TRUE]
        /\ \A g \in Feature \ {f} : call'[g] = call[g]
    BY <1>11 DEF Request, CallsOK
  <2>2. call'[f].state = "asked" /\ call'[f].generation = generation
    BY <2>1
  <2>3. /\ control' = control /\ closing' = closing /\ account' = account
        /\ accountOf' = accountOf /\ generation' = generation
        /\ fenced' = fenced
    BY <1>11 DEF Request, lifecycle
  <2> QED BY <2>1, <2>2, <2>3 DEF AccountInv
<1>12. ASSUME NEW f \in Feature, ReadAccount(f) PROVE Goal
  <2> DEFINE read == [call[f] EXCEPT !.state = "read", !.account = account]
  <2>0. call[f] \in Calls /\ account \in Accounts
    BY DEF CallsOK, CountersOK
  <2>1. read.account = account /\ read.generation = call[f].generation
          /\ read.valid = call[f].valid
    BY <2>0 DEF Calls
  <2>2. \A g \in Feature : call'[g] = IF g = f THEN read ELSE call[g]
    BY <1>12 DEF ReadAccount, CallsOK
  <2> HIDE DEF read
  <2>3. /\ control' = control /\ closing' = closing /\ account' = account
        /\ accountOf' = accountOf /\ generation' = generation
        /\ fenced' = fenced
    BY <1>12 DEF ReadAccount, lifecycle
  <2> QED BY <2>1, <2>2, <2>3 DEF AccountInv
<1>13. ASSUME NEW f \in Feature, Deliver(f) PROVE Goal
  BY <1>13, Typed, CallChanges
  DEF Deliver, lifecycle, features, AccountInv, CallsOK, FlagsOK
<1>q. QED
  BY <1>1, <1>2, <1>3, <1>4, <1>5, <1>6, <1>7, <1>8, <1>9, <1>10, <1>11,
     <1>12, <1>13, <1>u
  DEF Step, TurnStep, FeatureStep

-----------------------------------------------------------------------------
\* The invariant holds in the initial states.
LEMMA InvInit == ASSUME Init PROVE IInv
<1>1. TypeOK
  BY BeginTurn, IdleTurn, Numbers, CallChanges
  DEF Init, TypeOK, NoWork, Kinds, Calls, Controls
<1>2. TurnInv /\ ControlInv /\ CountInv
  BY IdleTurn DEF Init, TurnInv, ControlInv, CountInv, Walks, NoWork
<1>3. FenceInv /\ AccountInv
  BY IdleTurn, Numbers, CallChanges DEF Init, FenceInv, AccountInv, NoWork
<1> QED BY <1>1, <1>2, <1>3 DEF IInv

LEMMA InvStep == ASSUME IInv, [Step]_vars PROVE IInv'
<1>1. CountersOK /\ FlagsOK /\ TurnsOK /\ ControlOK /\ CallsOK
  BY TypeParts DEF IInv
<1>2. TurnInv /\ ControlInv /\ CountInv /\ FenceInv /\ AccountInv
  BY DEF IInv
<1>3. CountersOK' /\ FlagsOK' /\ TurnsOK' /\ ControlOK' /\ CallsOK'
  BY <1>1, <1>2, CountersTyped, FlagsTyped, TurnsTyped, ControlTyped, CallsTyped
<1>4. TypeOK'
  BY <1>3
  DEF TypeOK, CountersOK, FlagsOK, TurnsOK, ControlOK, CallsOK, Controls, Calls
<1>5. TurnInv' /\ ControlInv' /\ CountInv' /\ FenceInv' /\ AccountInv'
  BY <1>1, <1>2, TurnKept, ControlKept, CountKept, FenceKept, AccountKept
<1> QED BY <1>4, <1>5 DEF IInv

\* The invariant that carries the results below.
THEOREM Invariant == Spec => []IInv
BY InvInit, InvStep, PTL DEF Spec

\* Every reachable state has the declared types (all variables of the
\* composition root, the session and the control thread).
THEOREM TypeCorrect == Spec => []TypeOK
BY Invariant, PTL DEF IInv

\* However many features there are and whatever their handlers ask for, all of
\* them are fenced while the control thread works on the account
\* (SessionCoordinator::startOperation to finishOperation).
THEOREM Fenced == Spec => []FencedWhileAccountChanges
<1>1. IInv => FencedWhileAccountChanges
  BY DEF IInv, FenceInv, FencedWhileAccountChanges
<1> QED BY <1>1, Invariant, PTL

\* A feature that is open serves the published generation
\* (commitSessionTransition, abortSessionTransition).
THEOREM OpenIsCurrent == Spec => []OpenFeatureIsCurrent
<1>1. IInv => OpenFeatureIsCurrent
  <2> SUFFICES ASSUME IInv, NEW f \in Feature, ~fenced[f]
               PROVE serves[f] = generation
    BY DEF OpenFeatureIsCurrent
  <2>1. f < turn.next \/ f >= turn.next
    BY DEF IInv, TypeOK, Turns, Feature
  <2> QED BY <2>1 DEF IInv, FenceInv
<1> QED BY <1>1, Invariant, PTL

\* A result that a feature would still show was read under the account that
\* its generation stands for (the commit boundary of the worker calls).
THEOREM ResultsAreOfTheirAccount == Spec => []ResultIsOfItsAccount
<1>1. IInv => ResultIsOfItsAccount
  <2> SUFFICES ASSUME IInv, NEW f \in Feature,
                      call[f].state = "read", call[f].valid
               PROVE call[f].account = accountOf[call[f].generation]
    BY DEF ResultIsOfItsAccount
  <2>1. ~fenced[f] /\ call[f].generation = generation
          /\ call[f].account = account
    BY DEF IInv, AccountInv
  <2>2. control.state = "none" /\ ~closing
    BY <2>1 DEF IInv, FenceInv
  <2> QED BY <2>1, <2>2 DEF IInv, AccountInv
<1> QED BY <1>1, Invariant, PTL

-----------------------------------------------------------------------------
(* The opening of a file.  Every handler of the item's is a turn of the GUI *)
(* thread that starts a transaction or takes one on; the lemmas follow the  *)
(* calls, from a single write up to the handlers.                           *)

PlayerValues == Profiles \cup {Player!Base}
Written == [option : Options, value : PlayerValues]
PlayerItems ==
  [pending : Player!Transactions \cup {None},
   queued : Player!Configs \cup {None},
   deferred : Player!Requests \cup {None}, target : Files \cup {None},
   waits : BOOLEAN, dirty : BOOLEAN, active : Profiles \cup {None},
   flight : Seq(Written), told : Files \cup {Player!Stop}]

AtBase(p) == \A o \in Options : p[o] = Player!Base

\* The options that the transaction has restored, and those it has set.
Restored(t, o) == \E i \in DOMAIN Restores : i < t.next /\ Restores[i] = o
Set(t, o) ==
  /\ t.config \in Profiles
  /\ \E i \in DOMAIN Targets[t.config] :
       i + Player!Restored < t.next /\ Targets[t.config][i] = o

\* What libmpv has after the writes before the next one: a transaction that
\* does not roll back has had them all accepted, one that does knows whether.
Progress(t, p) ==
  \A o \in Options :
    /\ ~ t.rolling /\ Set(t, o) => p[o] = t.config
    /\ ~ t.rolling /\ ~ Set(t, o) /\ Restored(t, o) => p[o] = Player!Base
    /\ t.rolling /\ ~ t.failed /\ Restored(t, o) => p[o] = Player!Base

\* A transaction on its way.
Underway(t) ==
  /\ t \in Player!Transactions
  /\ ~ t.rolling => t.config \in Profiles \cup {Player!Off}

\* The item between two transactions of a turn, or before the next write.
Resting(s, p) ==
  /\ s \in PlayerItems
  /\ s.deferred = None
  /\ s.pending = None
  /\ s.flight = <<>>
  /\ s.dirty \/ AtBase(p)

Writing(s, p) ==
  /\ s \in PlayerItems
  /\ s.deferred = None
  /\ s.pending # None
  /\ Underway(s.pending)
  /\ s.pending.next <= Player!Writes(s.pending) + 1
  /\ Progress(s.pending, p)
  /\ s.active = None
  /\ s.flight = <<>>
  /\ s.dirty \/ AtBase(p)

\* The item between two turns: one write is in flight exactly while there is
\* a transaction, and a profile is active only where it is applied in full.
InFlight(s, p) ==
  /\ Underway(s.pending)
  /\ s.pending.next <= Player!Writes(s.pending)
  /\ Progress(s.pending, p)
  /\ s.flight = <<Player!NextWrite(s.pending)>>
  /\ Player!IsTarget(s.pending) => s.dirty

Whole(s, p) ==
  /\ s \in PlayerItems
  /\ s.deferred # None => s.pending # None
  /\ s.pending # None => s.active = None /\ InFlight(s, p)
  /\ s.pending = None => s.flight = <<>>
  /\ s.active # None =>
       s.dirty /\ \A o \in Options : p[o] = Player!Effective(s.active)[o]
  /\ s.dirty \/ AtBase(p)

\* The file the item is to play: the one that waits, or the one it told.
Wanted(s) ==
  IF s.deferred # None THEN s.deferred.file
  ELSE IF s.target # None THEN s.target
  ELSE s.told

\* A turn without an open or a stop keeps to the file that is wanted.
Follows(r, s) ==
  /\ r.deferred = s.deferred
  /\ Wanted(r) = Wanted(s)
  /\ r.target \in {s.target, None}

LEMMA PlayerConstants ==
  /\ None \notin Files /\ None \notin Profiles
  /\ None \notin Player!Transactions /\ None \notin Player!Requests
  /\ Player!Off \notin Profiles /\ Player!Bad \notin Profiles
  /\ Player!Base \notin Profiles /\ Player!Stop \notin Files
  /\ Uses \in [Profiles -> SUBSET Options]
  /\ Lower \in [Profiles -> Profiles \cup {None}]
  /\ Restores \in Seq(Options) /\ Len(Restores) \in Nat
  /\ DOMAIN Restores = 1 .. Len(Restores)
  /\ \A o \in Options : \E i \in DOMAIN Restores : Restores[i] = o
  /\ Targets \in [Profiles -> Seq(Options)]
  /\ \A c \in Profiles :
       /\ Len(Targets[c]) \in Nat
       /\ DOMAIN Targets[c] = 1 .. Len(Targets[c])
       /\ Uses[c] = {Targets[c][i] : i \in DOMAIN Targets[c]}
  /\ MaxPlays \in Nat
BY PartsAssumption DEF Player!PlayerAssumption

\* How many writes a transaction has.
LEMMA WritesOf ==
  ASSUME NEW t, Underway(t)
  PROVE  /\ Player!Restored \in Nat /\ Player!Writes(t) \in Nat
         /\ Player!Restored <= Player!Writes(t)
         /\ t.rolling => Player!Writes(t) = Player!Restored
         /\ t.next \in Nat \ {0} /\ t.rolling \in BOOLEAN
         /\ t.failed \in BOOLEAN /\ t.cancelled \in BOOLEAN
         /\ t.config \in Player!Configs
<1>1. t \in Player!Transactions
  BY DEF Underway
<1>2. /\ t.next \in Nat \ {0} /\ t.rolling \in BOOLEAN
      /\ t.failed \in BOOLEAN /\ t.cancelled \in BOOLEAN
      /\ t.config \in Player!Configs
  BY <1>1 DEF Player!Transactions
<1>3. CASE Player!Enables(t)
  <2>1. t.config \in Profiles /\ ~ t.rolling
    BY <1>3 DEF Player!Enables
  <2>2. Len(Targets[t.config]) \in Nat /\ Player!Restored \in Nat
    BY <2>1, PlayerConstants DEF Player!Restored
  <2>3. Player!Writes(t) = Player!Restored + Len(Targets[t.config])
    BY <1>3 DEF Player!Writes
  <2> QED
    BY <1>2, <2>1, <2>2, <2>3
<1>4. CASE ~ Player!Enables(t)
  BY <1>2, <1>4, PlayerConstants DEF Player!Restored, Player!Writes
<1> QED
  BY <1>3, <1>4

\* The next write is one of the options', with a value it can have.
LEMMA NextWriteOf ==
  ASSUME NEW t, Underway(t), t.next <= Player!Writes(t)
  PROVE  /\ Player!NextWrite(t) \in Written
         /\ ~ Player!IsTarget(t) =>
              /\ t.next \in DOMAIN Restores
              /\ Player!NextWrite(t).option = Restores[t.next]
              /\ Player!NextWrite(t).value = Player!Base
         /\ Player!IsTarget(t) =>
              /\ ~ t.rolling /\ t.config \in Profiles
              /\ t.next - Player!Restored \in DOMAIN Targets[t.config]
              /\ Player!NextWrite(t).option
                   = Targets[t.config][t.next - Player!Restored]
              /\ Player!NextWrite(t).value = t.config
<1>1. /\ Player!Restored \in Nat /\ Player!Writes(t) \in Nat
      /\ t.rolling => Player!Writes(t) = Player!Restored
      /\ t.next \in Nat \ {0}
  BY WritesOf
<1>2. CASE Player!IsTarget(t)
  <2>1. Player!Enables(t)
    BY <1>1, <1>2 DEF Player!IsTarget, Player!Writes
  <2>2. ~ t.rolling /\ t.config \in Profiles
    BY <2>1 DEF Player!Enables
  <2>3. /\ Len(Targets[t.config]) \in Nat
        /\ DOMAIN Targets[t.config] = 1 .. Len(Targets[t.config])
        /\ Targets[t.config] \in Seq(Options)
    BY <2>2, PlayerConstants
  <2>4. t.next - Player!Restored \in 1 .. Len(Targets[t.config])
    BY <1>1, <1>2, <2>1, <2>3 DEF Player!IsTarget, Player!Writes
  <2>5. Targets[t.config][t.next - Player!Restored] \in Options
    BY <2>3, <2>4
  <2> QED
    BY <1>2, <2>2, <2>3, <2>4, <2>5
    DEF Player!NextWrite, Written, PlayerValues
<1>3. CASE ~ Player!IsTarget(t)
  <2>1. t.next \in 1 .. Len(Restores)
    BY <1>1, <1>3, PlayerConstants DEF Player!IsTarget, Player!Restored
  <2>2. t.next \in DOMAIN Restores /\ Restores[t.next] \in Options
    BY <2>1, PlayerConstants
  <2> QED
    BY <1>3, <2>2 DEF Player!NextWrite, Written, PlayerValues
<1> QED
  BY <1>2, <1>3

\* A transaction that has written everything has libmpv where it wants it.
LEMMA AllWritten ==
  ASSUME NEW t, NEW p, Underway(t), Progress(t, p),
         t.next > Player!Writes(t)
  PROVE  /\ t.rolling /\ ~ t.failed => AtBase(p)
         /\ ~ t.rolling /\ t.config = Player!Off => AtBase(p)
         /\ ~ t.rolling /\ t.config \in Profiles =>
              \A o \in Options : p[o] = Player!Effective(t.config)[o]
<1>1. /\ Player!Restored \in Nat /\ Player!Writes(t) \in Nat
      /\ Player!Restored <= Player!Writes(t)
      /\ t.next \in Nat \ {0}
  BY WritesOf
<1>2. \A o \in Options : Restored(t, o)
  BY <1>1, PlayerConstants DEF Restored, Player!Restored
<1>3. t.rolling /\ ~ t.failed => AtBase(p)
  BY <1>2 DEF Progress, AtBase
<1>4. ASSUME ~ t.rolling, t.config = Player!Off
      PROVE  AtBase(p)
  <2>1. \A o \in Options : ~ Set(t, o)
    BY <1>4, PlayerConstants DEF Set
  <2> QED
    BY <1>2, <1>4, <2>1 DEF Progress, AtBase
<1>5. ASSUME ~ t.rolling, t.config \in Profiles, NEW o \in Options
      PROVE  p[o] = Player!Effective(t.config)[o]
  <2>1. /\ Len(Targets[t.config]) \in Nat
        /\ DOMAIN Targets[t.config] = 1 .. Len(Targets[t.config])
        /\ Uses[t.config]
             = {Targets[t.config][i] : i \in DOMAIN Targets[t.config]}
    BY <1>5, PlayerConstants
  <2>2. t.next > Player!Restored + Len(Targets[t.config])
    BY <1>1, <1>5, <2>1 DEF Player!Writes, Player!Enables
  <2>3. Set(t, o) <=> o \in Uses[t.config]
    BY <1>1, <1>5, <2>1, <2>2 DEF Set
  <2>4. Player!Effective(t.config)[o]
          = IF o \in Uses[t.config] THEN t.config ELSE Player!Base
    BY <1>5 DEF Player!Effective
  <2>5. Restored(t, o)
    BY <1>2
  <2> QED
    BY <1>5, <2>3, <2>4, <2>5 DEF Progress
<1> QED
  BY <1>3, <1>4, <1>5

\* The reply to a write: libmpv has the option, unless it refused.
LEMMA NextWritten ==
  ASSUME NEW t, NEW p \in [Options -> PlayerValues], Underway(t),
         Progress(t, p), t.next <= Player!Writes(t),
         NEW ok \in BOOLEAN, ok \/ t.rolling,
         NEW q,
         q = IF ok THEN [p EXCEPT ![Player!NextWrite(t).option]
                                    = Player!NextWrite(t).value] ELSE p,
         NEW u, u = [t EXCEPT !.next = t.next + 1,
                              !.failed = t.failed \/ ~ ok]
  PROVE  Progress(u, q)
<1>1. /\ t \in Player!Transactions /\ t.next \in Nat \ {0}
      /\ t.failed \in BOOLEAN /\ t.rolling \in BOOLEAN
      /\ Player!Restored \in Nat
      /\ t.rolling => Player!Writes(t) = Player!Restored
  BY WritesOf DEF Underway
<1>2. /\ u.next = t.next + 1 /\ u.failed = (t.failed \/ ~ ok)
      /\ u.rolling = t.rolling /\ u.config = t.config
  BY <1>1 DEF Player!Transactions
<1> DEFINE w == Player!NextWrite(t)
<1>3. w \in Written
  BY NextWriteOf
<1>4. \A o \in Options : q[o] = IF ok /\ o = w.option THEN w.value ELSE p[o]
  BY <1>3 DEF Written
<1>5. CASE ~ ok
  BY <1>2, <1>5 DEF Progress
<1>6. CASE ok /\ Player!IsTarget(t)
  <2>1. /\ ~ t.rolling /\ t.config \in Profiles
        /\ t.next - Player!Restored \in DOMAIN Targets[t.config]
        /\ w.option = Targets[t.config][t.next - Player!Restored]
        /\ w.value = t.config
    BY <1>6, NextWriteOf
  <2>2. DOMAIN Targets[t.config] \subseteq Nat /\ DOMAIN Restores \subseteq Nat
    BY <2>1, PlayerConstants
  <2>3. ASSUME NEW o \in Options, o # w.option
        PROVE  (Set(u, o) <=> Set(t, o)) /\ (Restored(u, o) => Restored(t, o))
    <3>1. Set(u, o) <=> Set(t, o)
      BY <1>1, <1>2, <2>1, <2>2, <2>3 DEF Set
    <3>2. \A i \in DOMAIN Restores : i < t.next
      BY <1>1, <1>6, PlayerConstants DEF Player!IsTarget, Player!Restored
    <3> QED
      BY <3>1, <3>2 DEF Restored
  <2>4. Set(u, w.option)
    BY <1>1, <1>2, <2>1 DEF Set
  <2> HIDE DEF w
  <2>5. ASSUME NEW o \in Options
        PROVE  /\ Set(u, o) => q[o] = t.config
               /\ ~ Set(u, o) /\ Restored(u, o) => q[o] = Player!Base
    BY <1>4, <1>6, <2>1, <2>3, <2>4 DEF Progress
  <2> QED
    BY <1>2, <2>1, <2>5 DEF Progress
<1>7. CASE ok /\ ~ Player!IsTarget(t)
  <2>1. /\ t.next \in DOMAIN Restores /\ w.option = Restores[t.next]
        /\ w.value = Player!Base
    BY <1>7, NextWriteOf
  <2>2. t.next <= Player!Restored
    BY <1>1, <1>7 DEF Player!IsTarget
  <2>3. \A o \in Options : ~ Set(u, o) /\ ~ Set(t, o)
    <3>1. SUFFICES ASSUME NEW o \in Options, t.config \in Profiles,
                          NEW i \in DOMAIN Targets[t.config]
                   PROVE  ~ (i + Player!Restored < t.next + 1)
      BY <1>1, <1>2, PlayerConstants DEF Set
    <3>2. i \in Nat /\ i >= 1
      BY <3>1, PlayerConstants
    <3> QED
      BY <1>1, <2>2, <3>2
  <2>4. ASSUME NEW o \in Options, o # w.option
        PROVE  Restored(u, o) => Restored(t, o)
    BY <1>1, <1>2, <2>1, <2>4, PlayerConstants DEF Restored
  <2> HIDE DEF w
  <2> QED
    BY <1>2, <1>4, <1>7, <2>1, <2>3, <2>4 DEF Progress
<1> QED
  BY <1>5, <1>6, <1>7

-----------------------------------------------------------------------------
\* The calls of a turn.

LEMMA FollowsOn ==
  ASSUME NEW q, NEW r, NEW s, Follows(q, r), Follows(r, s)
  PROVE  Follows(q, s)
BY DEF Follows

\* To load the file that waits changes neither the transaction nor the wish.
LEMMA LoadDispatched ==
  ASSUME NEW s, NEW p, Whole(s, p)
  PROVE  /\ Whole(Player!DispatchLoad(s), p)
         /\ Follows(Player!DispatchLoad(s), s)
         /\ Player!DispatchLoad(s).pending = s.pending
<1>1. s \in PlayerItems
  BY DEF Whole
<1>2. CASE s.target # None /\ ~ s.waits /\ ready
  <2> DEFINE r == [s EXCEPT !.told = s.target, !.target = None]
  <2>1. Player!DispatchLoad(s) = r
    BY <1>2 DEF Player!DispatchLoad
  <2>2. r \in PlayerItems
    BY <1>1, <1>2, PlayerConstants DEF PlayerItems
  <2>3. /\ r.pending = s.pending /\ r.deferred = s.deferred
        /\ r.active = s.active /\ r.dirty = s.dirty /\ r.flight = s.flight
        /\ r.target = None /\ r.told = s.target
    BY <1>1 DEF PlayerItems
  <2> HIDE DEF r
  <2>4. Whole(r, p)
    BY <2>2, <2>3 DEF Whole, InFlight
  <2>5. Follows(r, s)
    BY <1>2, <2>3 DEF Follows, Wanted
  <2> QED
    BY <2>1, <2>3, <2>4, <2>5
<1>3. CASE ~ (s.target # None /\ ~ s.waits /\ ready)
  <2>1. Player!DispatchLoad(s) = s
    BY <1>3 DEF Player!DispatchLoad
  <2> QED
    BY <2>1 DEF Follows
<1> QED
  BY <1>2, <1>3

\* The wait for the transaction is no part of the item's wholeness.
LEMMA WaitsNoMore ==
  ASSUME NEW s, NEW p, Whole(s, p)
  PROVE  /\ Whole([s EXCEPT !.waits = FALSE], p)
         /\ Follows([s EXCEPT !.waits = FALSE], s)
         /\ [s EXCEPT !.waits = FALSE].pending = s.pending
<1> DEFINE r == [s EXCEPT !.waits = FALSE]
<1>1. s \in PlayerItems
  BY DEF Whole
<1>2. /\ r \in PlayerItems
      /\ r.pending = s.pending /\ r.deferred = s.deferred
      /\ r.active = s.active /\ r.dirty = s.dirty /\ r.flight = s.flight
      /\ r.target = s.target /\ r.told = s.told
  BY <1>1 DEF PlayerItems
<1> HIDE DEF r
<1>3. Whole(r, p) /\ Follows(r, s)
  BY <1>2 DEF Whole, InFlight, Follows, Wanted
<1> QED
  BY <1>2, <1>3 DEF r

LEMMA Continued ==
  ASSUME NEW s, NEW p, Whole(s, p)
  PROVE  /\ Whole(Player!Continue(s), p)
         /\ Follows(Player!Continue(s), s)
         /\ Player!Continue(s).pending = s.pending
<1>1. CASE s.waits
  <2> DEFINE r == [s EXCEPT !.waits = FALSE]
  <2>1. Whole(r, p) /\ Follows(r, s) /\ r.pending = s.pending
    BY WaitsNoMore
  <2>2. Player!Continue(s) = Player!DispatchLoad(r)
    BY <1>1 DEF Player!Continue
  <2> HIDE DEF r
  <2>3. /\ Whole(Player!DispatchLoad(r), p)
        /\ Follows(Player!DispatchLoad(r), r)
        /\ Player!DispatchLoad(r).pending = r.pending
    BY <2>1, LoadDispatched
  <2> QED
    BY <2>1, <2>2, <2>3, FollowsOn
<1>2. CASE ~ s.waits
  <2>1. Player!Continue(s) = s
    BY <1>2 DEF Player!Continue
  <2> QED
    BY <2>1 DEF Follows
<1> QED
  BY <1>1, <1>2

\* A transaction that ends leaves options that are whole.
LEMMA Completed ==
  ASSUME NEW s, NEW p, Writing(s, p),
         s.pending.next > Player!Writes(s.pending)
  PROVE  /\ Whole(Player!Complete(s), p)
         /\ Follows(Player!Complete(s), s)
<1> DEFINE t == s.pending
           d == IF t.rolling THEN s.dirty /\ t.failed
                ELSE t.config # Player!Off
           a == IF Player!Enables(t) THEN t.config ELSE None
           r == [s EXCEPT !.pending = None, !.active = a, !.dirty = d]
<1>1. /\ s \in PlayerItems /\ s.deferred = None /\ s.flight = <<>>
      /\ Underway(t) /\ Progress(t, p)
      /\ t.next > Player!Writes(t)
  BY DEF Writing
<1>2. t.rolling \in BOOLEAN /\ t.failed \in BOOLEAN /\ s.dirty \in BOOLEAN
  BY <1>1, WritesOf DEF PlayerItems
<1>3. /\ t.rolling /\ ~ t.failed => AtBase(p)
      /\ ~ t.rolling /\ t.config = Player!Off => AtBase(p)
      /\ ~ t.rolling /\ t.config \in Profiles =>
           \A o \in Options : p[o] = Player!Effective(t.config)[o]
  BY <1>1, AllWritten
<1>4. ~ t.rolling => t.config \in Profiles \cup {Player!Off}
  BY <1>1 DEF Underway
<1>5. s.dirty \/ AtBase(p)
  BY DEF Writing
<1>6. d \in BOOLEAN /\ (d \/ AtBase(p))
  BY <1>2, <1>3, <1>4, <1>5
<1>7. /\ a \in Profiles \cup {None}
      /\ a # None => d /\ \A o \in Options : p[o] = Player!Effective(a)[o]
  <2>1. CASE Player!Enables(t)
    <3>1. t.config \in Profiles /\ ~ t.rolling
      BY <2>1 DEF Player!Enables
    <3>2. t.config # Player!Off
      BY <3>1, PlayerConstants
    <3> QED
      BY <1>3, <2>1, <3>1, <3>2
  <2>2. CASE ~ Player!Enables(t)
    BY <2>2
  <2> QED
    BY <2>1, <2>2
<1>8. Player!Complete(s) = Player!Continue(r)
  BY DEF Player!Complete
<1> HIDE DEF t, d, a
<1>9a. r \in PlayerItems
  BY <1>1, <1>6, <1>7 DEF PlayerItems
<1>9b. /\ r.pending = None /\ r.active = a /\ r.dirty = d
       /\ r.flight = s.flight /\ r.deferred = s.deferred
       /\ r.target = s.target /\ r.told = s.told
  BY <1>1 DEF PlayerItems
<1>9. /\ r \in PlayerItems /\ r.pending = None /\ r.active = a
      /\ r.dirty = d /\ r.flight = s.flight /\ r.deferred = s.deferred
      /\ r.target = s.target /\ r.told = s.told
  BY <1>9a, <1>9b
<1> HIDE DEF r
<1>10. Whole(r, p)
  BY <1>1, <1>6, <1>7, <1>9 DEF Whole
<1>11. Follows(r, s)
  BY <1>9 DEF Follows, Wanted
<1> QED
  BY <1>8, <1>10, <1>11, Continued, FollowsOn

\* A write that is handed over is the one in flight.
LEMMA Handed ==
  ASSUME NEW s, NEW p, Writing(s, p),
         s.pending.next <= Player!Writes(s.pending)
  PROVE  /\ Whole(Player!Sent(s), p)
         /\ Follows(Player!Sent(s), s)
<1> DEFINE t == s.pending
           w == Player!NextWrite(t)
           d == s.dirty \/ Player!IsTarget(t)
           r == [s EXCEPT !.flight = Append(s.flight, w), !.dirty = d]
<1>1. /\ s \in PlayerItems /\ s.deferred = None /\ s.flight = <<>>
      /\ Underway(t) /\ Progress(t, p) /\ t # None /\ s.active = None
      /\ t.next <= Player!Writes(t)
  BY DEF Writing
<1>2. /\ w \in Written /\ Append(s.flight, w) = <<w>>
  BY <1>1, NextWriteOf
<1>3. s.dirty \in BOOLEAN /\ Player!IsTarget(t) \in BOOLEAN
  BY <1>1 DEF PlayerItems, Player!IsTarget
<1>4. d \in BOOLEAN /\ (d \/ AtBase(p)) /\ (Player!IsTarget(t) => d)
  BY <1>3 DEF Writing
<1>5. Player!Sent(s) = r
  BY DEF Player!Sent
<1> HIDE DEF d, w
<1>6. <<w>> \in Seq(Written)
  BY <1>2
<1>7. /\ r \in PlayerItems /\ r.pending = t /\ r.active = s.active
      /\ r.dirty = d /\ r.flight = <<w>> /\ r.deferred = s.deferred
      /\ r.target = s.target /\ r.told = s.told
  BY <1>1, <1>2, <1>4, <1>6 DEF PlayerItems
<1> HIDE DEF r, t
<1>8. InFlight(r, p)
  BY <1>1, <1>4, <1>7 DEF InFlight, w
<1>9. Whole(r, p)
  BY <1>1, <1>4, <1>7, <1>8 DEF Whole
<1>10. Follows(r, s)
  BY <1>7 DEF Follows, Wanted
<1> QED
  BY <1>5, <1>9, <1>10

\* The writes that a rollback passes over count as failures.
LEMMA SkippedOver ==
  ASSUME NEW s, NEW p, Writing(s, p), s.pending.rolling,
         NEW n \in s.pending.next .. Player!Restored + 1
  PROVE  /\ Writing(Player!Skipped(s, n), p)
         /\ Player!Skipped(s, n).pending.next = n
         /\ Player!Skipped(s, n).pending.rolling
         /\ Follows(Player!Skipped(s, n), s)
<1> DEFINE t == s.pending
           u == [t EXCEPT !.next = n, !.failed = t.failed \/ n > t.next]
           r == Player!Skipped(s, n)
<1>1. /\ s \in PlayerItems /\ s.deferred = None /\ s.flight = <<>>
      /\ Underway(t) /\ Progress(t, p) /\ t # None /\ s.active = None
      /\ s.dirty \/ AtBase(p)
  BY DEF Writing
<1>2. /\ Player!Restored \in Nat /\ Player!Writes(t) = Player!Restored
      /\ t.next \in Nat \ {0} /\ t.failed \in BOOLEAN
      /\ t \in Player!Transactions
  BY <1>1, WritesOf DEF Underway
<1>3. n \in Nat \ {0} /\ n >= t.next
  BY <1>2
<1>4. /\ u \in Player!Transactions /\ u.next = n /\ u.rolling = t.rolling
      /\ u.failed = (t.failed \/ n > t.next) /\ u.config = t.config
  BY <1>2, <1>3 DEF Player!Transactions
<1>5. r = [s EXCEPT !.pending = u]
  BY <1>1, <1>2 DEF Player!Skipped, PlayerItems, Player!Transactions
<1> HIDE DEF u
<1>6. /\ r \in PlayerItems /\ r.pending = u /\ r.active = s.active
      /\ r.dirty = s.dirty /\ r.flight = s.flight
      /\ r.deferred = s.deferred /\ r.target = s.target /\ r.told = s.told
  BY <1>1, <1>4, <1>5 DEF PlayerItems
<1>7. Underway(u) /\ u # None
  BY <1>4, PlayerConstants DEF Underway
<1>8. Player!Writes(u) = Player!Restored
  BY <1>4, <1>7, WritesOf
<1>9. Progress(u, p)
  <2>1. CASE n = t.next
    <3>1. \A o \in Options : Restored(u, o) <=> Restored(t, o)
      BY <1>4, <2>1 DEF Restored
    <3> QED
      BY <1>1, <1>4, <2>1, <3>1 DEF Progress
  <2>2. CASE n > t.next
    BY <1>4, <2>2 DEF Progress
  <2> QED
    BY <1>2, <1>3, <2>1, <2>2
<1> HIDE DEF r
<1>10. Writing(r, p)
  BY <1>1, <1>2, <1>4, <1>6, <1>7, <1>8, <1>9 DEF Writing
<1>11. Follows(r, s)
  BY <1>6 DEF Follows, Wanted
<1> QED
  BY <1>4, <1>6, <1>10, <1>11 DEF r

LEMMA RestoringWhole ==
  ASSUME NEW s, NEW p, Writing(s, p), s.pending.rolling,
         NEW r \in Player!Restoring(s)
  PROVE  Whole(r, p) /\ Follows(r, s)
<1>1. PICK n \in s.pending.next .. Player!Restored + 1 :
        r = IF Player!Skipped(s, n).pending.next > Player!Restored
              THEN Player!Complete(Player!Skipped(s, n))
              ELSE Player!Sent(Player!Skipped(s, n))
  BY DEF Player!Restoring
<1> DEFINE k == Player!Skipped(s, n)
<1>2. /\ Writing(k, p) /\ k.pending.next = n /\ k.pending.rolling
      /\ Follows(k, s)
  BY SkippedOver
<1>3. r = IF k.pending.next > Player!Restored THEN Player!Complete(k)
          ELSE Player!Sent(k)
  BY <1>1
<1> HIDE DEF k
<1>4. /\ Player!Writes(k.pending) = Player!Restored
      /\ k.pending.next \in Nat /\ Player!Restored \in Nat
  BY <1>2, WritesOf DEF Writing
<1>5. CASE k.pending.next > Player!Restored
  BY <1>2, <1>3, <1>4, <1>5, Completed, FollowsOn
<1>6. CASE ~ k.pending.next > Player!Restored
  BY <1>2, <1>3, <1>4, <1>6, Handed, FollowsOn
<1> QED
  BY <1>5, <1>6

\* A rollback may begin at any point of a transaction.
LEMMA RollsBack ==
  ASSUME NEW s \in PlayerItems, NEW p, s.deferred = None, s.pending # None,
         Underway(s.pending), s.active = None, s.flight = <<>>,
         NEW d \in BOOLEAN, d \/ AtBase(p),
         NEW r, r = [s EXCEPT !.pending = Player!RolledBack(s.pending),
                              !.dirty = d]
  PROVE  Writing(r, p) /\ r.pending.rolling /\ Follows(r, s)
<1> DEFINE t == s.pending
           u == Player!RolledBack(t)
<1>1. Underway(t) /\ t # None
  OBVIOUS
<1>2. t \in Player!Transactions /\ Player!Restored \in Nat
  BY <1>1, WritesOf DEF Underway
<1>3. /\ u \in Player!Transactions /\ u.next = 1 /\ u.rolling
  <2>1. u = [t EXCEPT !.rolling = TRUE, !.next = 1]
    BY DEF Player!RolledBack
  <2> HIDE DEF u, t
  <2>2. u \in Player!Transactions
    <3>1. 1 \in Nat \ {0}
      OBVIOUS
    <3> QED
      BY <1>2, <2>1, <3>1 DEF Player!Transactions
  <2>3. u.next = 1 /\ u.rolling
    BY <1>2, <2>1 DEF Player!Transactions
  <2> QED
    BY <2>2, <2>3
<1>4. Underway(u) /\ u # None
  BY <1>3, PlayerConstants DEF Underway
<1>5. u.next <= Player!Writes(u) + 1
  BY <1>3, <1>4, WritesOf
<1>6. \A o \in Options : ~ Restored(u, o)
  BY <1>3, PlayerConstants DEF Restored
<1>7. Progress(u, p)
  BY <1>3, <1>6 DEF Progress
<1> HIDE DEF u
<1>8. /\ r \in PlayerItems /\ r.pending = u /\ r.active = s.active
      /\ r.dirty = d /\ r.flight = s.flight
      /\ r.deferred = s.deferred /\ r.target = s.target /\ r.told = s.told
  BY <1>1, <1>3 DEF PlayerItems, u
<1>9. Writing(r, p)
  BY <1>1, <1>4, <1>5, <1>7, <1>8 DEF Writing
<1>10. Follows(r, s)
  BY <1>8 DEF Follows, Wanted
<1> QED
  BY <1>3, <1>8, <1>9, <1>10

LEMMA DispatchedWhole ==
  ASSUME NEW s, NEW p, Writing(s, p), NEW r \in Player!DispatchNext(s)
  PROVE  Whole(r, p) /\ Follows(r, s)
<1>1. Underway(s.pending) /\ s \in PlayerItems
  BY DEF Writing
<1>2. s.pending.next \in Nat /\ Player!Writes(s.pending) \in Nat
  BY <1>1, WritesOf
<1>3. CASE s.pending.next > Player!Writes(s.pending)
  BY <1>3, Completed DEF Player!DispatchNext
<1>4. CASE s.pending.next <= Player!Writes(s.pending) /\ s.pending.rolling
  BY <1>2, <1>4, RestoringWhole DEF Player!DispatchNext
<1>5. CASE s.pending.next <= Player!Writes(s.pending) /\ ~ s.pending.rolling
  <2> DEFINE d == s.dirty \/ Player!IsTarget(s.pending)
             k == [s EXCEPT !.pending = Player!RolledBack(s.pending),
                            !.dirty = d]
  <2>1. r = Player!Sent(s) \/ r \in Player!Restoring(k)
    BY <1>2, <1>5 DEF Player!DispatchNext
  <2>2. d \in BOOLEAN
    BY <1>1 DEF PlayerItems, Player!IsTarget
  <2>3. d \/ AtBase(p)
    BY DEF Writing
  <2> HIDE DEF d
  <2>4. Writing(k, p) /\ k.pending.rolling /\ Follows(k, s)
    BY <2>2, <2>3, RollsBack DEF Writing
  <2> HIDE DEF k
  <2>5. CASE r = Player!Sent(s)
    BY <1>5, <2>5, Handed
  <2>6. CASE r \in Player!Restoring(k)
    BY <2>4, <2>6, RestoringWhole, FollowsOn
  <2> QED
    BY <2>1, <2>5, <2>6
<1> QED
  BY <1>2, <1>3, <1>4, <1>5

\* A configuration that begins.
LEMMA BegunWhole ==
  ASSUME NEW s, NEW p, Resting(s, p), NEW c \in Player!Configs,
         NEW r \in Player!Begin(s, c)
  PROVE  Whole(r, p) /\ Follows(r, s)
<1>1. /\ s \in PlayerItems /\ s.deferred = None /\ s.pending = None
      /\ s.flight = <<>> /\ (s.dirty \/ AtBase(p))
  BY DEF Resting
<1>2. CASE c = Player!Off /\ ~ s.dirty
  <2> DEFINE k == [s EXCEPT !.active = None]
  <2>1. r = Player!Continue(k)
    BY <1>2 DEF Player!Begin
  <2>2. /\ k \in PlayerItems /\ k.pending = s.pending /\ k.active = None
        /\ k.dirty = s.dirty /\ k.flight = s.flight
        /\ k.deferred = s.deferred /\ k.target = s.target /\ k.told = s.told
    BY <1>1 DEF PlayerItems
  <2> HIDE DEF k
  <2>3. Whole(k, p) /\ Follows(k, s)
    BY <1>1, <2>2 DEF Whole, Follows, Wanted
  <2> QED
    BY <2>1, <2>3, Continued, FollowsOn
<1>3. CASE ~ (c = Player!Off /\ ~ s.dirty)
  <2> DEFINE t == Player!Begun(c)
             k == [s EXCEPT !.pending = t, !.active = None]
  <2>1. r \in Player!DispatchNext(k)
    BY <1>3 DEF Player!Begin
  <2>2. /\ t \in Player!Transactions /\ t.next = 1 /\ t.config = c
        /\ t.rolling = (c = Player!Bad)
    BY DEF Player!Begun, Player!Transactions
  <2>3. Underway(t) /\ t # None
    BY <2>2, PlayerConstants DEF Underway, Player!Configs
  <2>4. Player!Restored \in Nat /\ t.next <= Player!Writes(t) + 1
    BY <2>2, <2>3, WritesOf
  <2>5. \A o \in Options : ~ Restored(t, o) /\ ~ Set(t, o)
    BY <2>2, <2>4, PlayerConstants DEF Restored, Set
  <2>6. Progress(t, p)
    BY <2>5 DEF Progress
  <2> HIDE DEF t
  <2>7. /\ k \in PlayerItems /\ k.pending = t /\ k.active = None
        /\ k.dirty = s.dirty /\ k.flight = s.flight
        /\ k.deferred = s.deferred /\ k.target = s.target /\ k.told = s.told
    BY <1>1, <2>2 DEF PlayerItems
  <2> HIDE DEF k
  <2>8. Writing(k, p)
    BY <1>1, <2>3, <2>4, <2>6, <2>7 DEF Writing
  <2>9. Follows(k, s)
    BY <2>7 DEF Follows, Wanted
  <2> QED
    BY <2>1, <2>8, <2>9, DispatchedWhole, FollowsOn
<1> QED
  BY <1>2, <1>3

\* A file that is opened is the one that is wanted, however its
\* configuration goes.
LEMMA OpenedWhole ==
  ASSUME NEW s, NEW p, Resting(s, p), NEW f \in Files,
         NEW c \in Player!Configs, NEW r \in Player!OpenNow(s, f, c)
  PROVE  Whole(r, p) /\ Wanted(r) = f
<1> DEFINE k == [s EXCEPT !.target = f, !.waits = TRUE]
<1>1. PICK b \in Player!Begin(k, c) :
        r = Player!DispatchLoad(IF b.pending = None
                                  THEN [b EXCEPT !.waits = FALSE] ELSE b)
  BY DEF Player!OpenNow
<1>2. /\ s \in PlayerItems /\ s.deferred = None /\ s.pending = None
      /\ s.flight = <<>> /\ (s.dirty \/ AtBase(p))
  BY DEF Resting
<1>3. /\ k \in PlayerItems /\ k.deferred = None /\ k.pending = None
      /\ k.flight = <<>> /\ k.dirty = s.dirty /\ k.target = f
  BY <1>2 DEF PlayerItems
<1> HIDE DEF k
<1>4. Resting(k, p)
  BY <1>2, <1>3 DEF Resting
<1>5. Wanted(k) = f
  BY <1>3, PlayerConstants DEF Wanted
<1>6. Whole(b, p) /\ Follows(b, k)
  BY <1>4, BegunWhole
<1> DEFINE e == IF b.pending = None THEN [b EXCEPT !.waits = FALSE] ELSE b
<1>7. Whole(e, p) /\ Wanted(e) = f
  <2>1. CASE b.pending = None
    BY <1>5, <1>6, <2>1, WaitsNoMore DEF Follows
  <2>2. CASE b.pending # None
    BY <1>5, <1>6, <2>2 DEF Follows
  <2> QED
    BY <2>1, <2>2
<1>8. r = Player!DispatchLoad(e)
  BY <1>1
<1> HIDE DEF e
<1> QED
  BY <1>7, <1>8, LoadDispatched DEF Follows

-----------------------------------------------------------------------------
\* The handlers.

PlayerShape ==
  /\ props \in [Options -> PlayerValues]
  /\ ready \in BOOLEAN
  /\ posted \in BOOLEAN
  /\ wanted \in Files \cup {Player!Stop}
  /\ plays \in 0 .. MaxPlays

\* The inductive invariant of the item.
PlayerInv ==
  /\ PlayerShape
  /\ Whole(item, props)
  /\ Wanted(item) = wanted

\* A call of the user's or of the system's counts, within its bound.
LEMMA EventCounts ==
  ASSUME plays \in 0 .. MaxPlays, Player!Event
  PROVE  plays' \in 0 .. MaxPlays
BY PlayerConstants DEF Player!Event

LEMMA PlayerStarts == ASSUME Player!Init PROVE PlayerInv
<1>1. /\ item.pending = None /\ item.deferred = None /\ item.target = None
      /\ item.active = None /\ item.flight = <<>> /\ item.told = Player!Stop
  BY DEF Player!Init
<1>2. <<>> \in Seq(Written)
  OBVIOUS
<1>3. item \in PlayerItems
  BY <1>2 DEF Player!Init, PlayerItems
<1>4. PlayerShape
  <2>1. plays \in 0 .. MaxPlays
    BY PlayerConstants DEF Player!Init
  <2>2. props \in [Options -> PlayerValues]
    BY DEF Player!Init, PlayerValues
  <2> QED
    BY <2>1, <2>2 DEF Player!Init, PlayerShape
<1>5. AtBase(props)
  BY DEF Player!Init, AtBase
<1>6. Wanted(item) = wanted
  BY <1>1 DEF Player!Init, Wanted
<1> QED
  BY <1>1, <1>3, <1>4, <1>5, <1>6 DEF PlayerInv, Whole

\* Without a transaction the item is between two of them.
LEMMA RestingItem ==
  ASSUME PlayerInv, item.pending = None
  PROVE  Resting(item, props)
BY DEF PlayerInv, Whole, Resting

LEMMA OpenKeeps ==
  ASSUME PlayerInv, NEW f \in Files, NEW c \in Player!Configs,
         Player!Open(f, c)
  PROVE  PlayerInv'
<1>1. PlayerShape'
  <2>1. Player!Event /\ PlayerShape
    BY DEF PlayerInv, Player!Open
  <2>2. plays' \in 0 .. MaxPlays
    BY <2>1, EventCounts DEF PlayerShape
  <2>3. wanted' \in Files \cup {Player!Stop}
    BY <2>1 DEF PlayerShape, Player!Open
  <2> QED
    BY <2>1, <2>2, <2>3, Zenon DEF PlayerShape, Player!Open
<1>2. wanted' = f /\ props' = props /\ item \in PlayerItems
  BY DEF Player!Open, PlayerInv, Whole
<1>3. Whole(item', props) /\ Wanted(item') = f
  <2>1. CASE item.pending # None
    <3> DEFINE r == [item EXCEPT !.deferred = [file |-> f, config |-> c]]
    <3>1. item' = r
      BY <2>1 DEF Player!Open
    <3>2. [file |-> f, config |-> c] \in Player!Requests
      BY DEF Player!Requests
    <3>3. /\ r \in PlayerItems /\ r.pending = item.pending
          /\ r.active = item.active /\ r.dirty = item.dirty
          /\ r.flight = item.flight
          /\ r.deferred = [file |-> f, config |-> c]
      BY <1>2, <3>2 DEF PlayerItems
    <3> HIDE DEF r
    <3>4. r.deferred # None /\ r.deferred.file = f
      BY <3>2, <3>3, PlayerConstants
    <3>5. Whole(item, props)
      BY DEF PlayerInv
    <3>6. Whole(r, props)
      BY <2>1, <3>3, <3>5 DEF Whole, InFlight
    <3> QED
      BY <3>1, <3>4, <3>6 DEF Wanted
  <2>2. CASE item.pending = None
    <3>1. item' \in Player!OpenNow(item, f, c)
      BY <2>2 DEF Player!Open
    <3> QED
      BY <2>2, <3>1, RestingItem, OpenedWhole
  <2> QED
    BY <2>1, <2>2
<1> QED
  BY <1>1, <1>2, <1>3 DEF PlayerInv

LEMMA ConfigureKeeps ==
  ASSUME PlayerInv, NEW c \in Player!Configs, Player!Configure(c)
  PROVE  PlayerInv'
<1>1. PlayerShape'
  <2>1. Player!Event /\ PlayerShape
    BY DEF PlayerInv, Player!Configure
  <2>2. plays' \in 0 .. MaxPlays
    BY <2>1, EventCounts DEF PlayerShape
  <2>3. wanted' \in Files \cup {Player!Stop}
    BY <2>1 DEF PlayerShape, Player!Configure
  <2> QED
    BY <2>1, <2>2, <2>3, Zenon DEF PlayerShape, Player!Configure
<1>2. /\ wanted' = wanted /\ props' = props /\ item \in PlayerItems
      /\ Whole(item, props) /\ Wanted(item) = wanted
  BY DEF Player!Configure, PlayerInv, Whole
<1>3. Whole(item', props) /\ Wanted(item') = wanted
  <2>1. CASE item.pending = None
    <3>1. item' \in Player!Begin(item, c)
      BY <2>1 DEF Player!Configure
    <3> QED
      BY <1>2, <2>1, <3>1, RestingItem, BegunWhole DEF Follows
  <2>2. CASE item.pending # None /\ item.deferred # None
    <3> DEFINE q == [item.deferred EXCEPT !.config = c]
               r == [item EXCEPT !.deferred = q]
    <3>1. item' = r
      BY <2>2 DEF Player!Configure
    <3>2. item.deferred \in Player!Requests
      BY <1>2, <2>2 DEF PlayerItems
    <3>3. q \in Player!Requests /\ q.file = item.deferred.file
      BY <3>2 DEF Player!Requests
    <3> HIDE DEF q
    <3>4. /\ r \in PlayerItems /\ r.pending = item.pending
          /\ r.active = item.active /\ r.dirty = item.dirty
          /\ r.flight = item.flight /\ r.deferred = q
      BY <1>2, <3>3 DEF PlayerItems
    <3> HIDE DEF r
    <3>5. r.deferred # None
      BY <3>3, <3>4, PlayerConstants
    <3>6. Whole(r, props)
      BY <1>2, <2>2, <3>4 DEF Whole, InFlight
    <3> QED
      BY <1>2, <2>2, <3>1, <3>3, <3>4, <3>5, <3>6 DEF Wanted
  <2>3. CASE item.pending # None /\ item.deferred = None
    <3> DEFINE r == [item EXCEPT !.queued = c]
    <3>1. item' = r
      BY <2>3 DEF Player!Configure
    <3>2. /\ r \in PlayerItems /\ r.pending = item.pending
          /\ r.active = item.active /\ r.dirty = item.dirty
          /\ r.flight = item.flight /\ r.deferred = item.deferred
          /\ r.target = item.target /\ r.told = item.told
      BY <1>2 DEF PlayerItems
    <3> HIDE DEF r
    <3> QED
      BY <1>2, <3>1, <3>2 DEF Whole, InFlight, Wanted
  <2> QED
    BY <2>1, <2>2, <2>3
<1> QED
  BY <1>1, <1>2, <1>3 DEF PlayerInv

\* What is left of a turn that stops.
LEMMA StoppedWhole ==
  ASSUME NEW s, NEW p, Whole(s, p), s.deferred = None, s.target = None,
         NEW r, r = [s EXCEPT !.active = None, !.told = Player!Stop]
  PROVE  Whole(r, p) /\ Wanted(r) = Player!Stop
<1>1. s \in PlayerItems
  BY DEF Whole
<1>2. /\ r \in PlayerItems /\ r.pending = s.pending /\ r.active = None
      /\ r.dirty = s.dirty /\ r.flight = s.flight
      /\ r.deferred = s.deferred /\ r.target = s.target
      /\ r.told = Player!Stop
  BY <1>1 DEF PlayerItems
<1> QED
  BY <1>2 DEF Whole, InFlight, Wanted

LEMMA StopKeeps ==
  ASSUME PlayerInv, Player!StopPlayback
  PROVE  PlayerInv'
<1> DEFINE s == [item EXCEPT !.deferred = None, !.queued = None,
                             !.target = None, !.waits = FALSE]
<1>1. PlayerShape'
  <2>1. Player!Event /\ PlayerShape
    BY DEF PlayerInv, Player!StopPlayback
  <2>2. plays' \in 0 .. MaxPlays
    BY <2>1, EventCounts DEF PlayerShape
  <2>3. wanted' \in Files \cup {Player!Stop}
    BY <2>1 DEF PlayerShape, Player!StopPlayback
  <2> QED
    BY <2>1, <2>2, <2>3, Zenon DEF PlayerShape, Player!StopPlayback
<1>2. /\ wanted' = Player!Stop /\ props' = props /\ item \in PlayerItems
      /\ Whole(item, props)
  BY DEF Player!StopPlayback, PlayerInv, Whole
<1>3. /\ s \in PlayerItems /\ s.pending = item.pending
      /\ s.active = item.active /\ s.dirty = item.dirty
      /\ s.flight = item.flight /\ s.deferred = None /\ s.target = None
  BY <1>2 DEF PlayerItems
<1>4. Whole(item', props) /\ Wanted(item') = Player!Stop
  <2>1. CASE item.pending # None
    <3> DEFINE t == item.pending
               u == [t EXCEPT !.cancelled = TRUE]
               k == [s EXCEPT !.pending.cancelled = TRUE]
    <3>1. item' = [k EXCEPT !.active = None, !.told = Player!Stop]
      BY <2>1 DEF Player!StopPlayback
    <3>2. k = [s EXCEPT !.pending = u]
      BY <1>3
    <3>3. InFlight(item, props) /\ item.active = None
      BY <1>2, <2>1 DEF Whole
    <3>4. Underway(t) /\ t \in Player!Transactions
      BY <3>3 DEF InFlight, Underway
    <3>5. /\ u \in Player!Transactions /\ u.next = t.next
          /\ u.rolling = t.rolling /\ u.failed = t.failed
          /\ u.config = t.config
      BY <3>4 DEF Player!Transactions
    <3> HIDE DEF s, u
    <3>6. /\ k \in PlayerItems /\ k.pending = u /\ k.active = s.active
          /\ k.dirty = s.dirty /\ k.flight = s.flight
          /\ k.deferred = None /\ k.target = None
      BY <1>3, <3>2, <3>5 DEF PlayerItems
    <3>7. u # None /\ Underway(u)
      BY <3>4, <3>5, PlayerConstants DEF Underway
    <3>8. /\ Player!Writes(u) = Player!Writes(t)
          /\ Player!NextWrite(u) = Player!NextWrite(t)
          /\ Player!IsTarget(u) = Player!IsTarget(t)
      BY <3>5 DEF Player!Writes, Player!Enables, Player!NextWrite,
                  Player!IsTarget
    <3>9. Progress(u, props)
      <4>1. \A o \in Options : /\ Restored(u, o) <=> Restored(t, o)
                               /\ Set(u, o) <=> Set(t, o)
        BY <3>5 DEF Restored, Set
      <4> QED
        BY <3>3, <3>5, <4>1 DEF InFlight, Progress
    <3> HIDE DEF k
    <3>10. InFlight(k, props)
      BY <1>3, <3>3, <3>5, <3>6, <3>7, <3>8, <3>9 DEF InFlight
    <3>11. Whole(k, props)
      BY <1>2, <1>3, <3>3, <3>6, <3>7, <3>10 DEF Whole
    <3> QED
      BY <3>1, <3>6, <3>11, StoppedWhole
  <2>2. CASE item.pending = None
    <3>1. PICK b \in Player!Begin(s, Player!Off) :
            item' = [b EXCEPT !.active = None, !.told = Player!Stop]
      BY <2>2 DEF Player!StopPlayback
    <3> HIDE DEF s
    <3>2. Resting(s, props)
      BY <1>2, <1>3, <2>2 DEF Whole, Resting
    <3>3. Whole(b, props) /\ Follows(b, s)
      BY <3>1, <3>2, BegunWhole DEF Player!Configs
    <3>4. b.deferred = None /\ b.target = None
      BY <1>3, <3>3 DEF Follows
    <3> QED
      BY <3>1, <3>3, <3>4, StoppedWhole
  <2> QED
    BY <2>1, <2>2
<1> QED
  BY <1>1, <1>2, <1>4 DEF PlayerInv

\* A profile that is given up for another one, or for none.
LEMMA BeginKeeps ==
  ASSUME PlayerInv, item.active # None, NEW c \in Player!Configs,
         item' \in Player!Begin(item, c), Player!Event,
         UNCHANGED <<props, ready, posted, wanted>>
  PROVE  PlayerInv'
<1>1. item.pending = None /\ Wanted(item) = wanted /\ PlayerShape
  BY DEF PlayerInv, Whole
<1>2. Whole(item', props) /\ Follows(item', item)
  BY <1>1, RestingItem, BegunWhole
<1>3. PlayerShape'
  <2>1. plays' \in 0 .. MaxPlays
    BY <1>1, EventCounts DEF PlayerShape
  <2> QED
    BY <1>1, <2>1, Zenon DEF PlayerShape
<1> QED
  BY <1>1, <1>2, <1>3 DEF PlayerInv, Follows

LEMMA DowngradeKeeps ==
  ASSUME PlayerInv, Player!Downgrade
  PROVE  PlayerInv'
<1> DEFINE lower == Lower[item.active]
           c == IF lower = None THEN Player!Off ELSE lower
<1>1. /\ Player!Event /\ item.active # None
      /\ item' \in Player!Begin(item, c)
      /\ UNCHANGED <<props, ready, posted, wanted>>
  BY DEF Player!Downgrade, Player!MayOverload
<1>2. item.active \in Profiles
  BY <1>1 DEF PlayerInv, Whole, PlayerItems
<1>3. c \in Player!Configs
  BY <1>2, PlayerConstants DEF Player!Configs
<1> QED
  BY <1>1, <1>3, BeginKeeps

LEMMA ShaderKeeps ==
  ASSUME PlayerInv, Player!ShaderFails
  PROVE  PlayerInv'
BY BeginKeeps DEF Player!ShaderFails, Player!Configs

LEMMA RendererKeeps ==
  ASSUME PlayerInv, Player!RendererLost \/ Player!RendererReady
  PROVE  PlayerInv'
<1>1. UNCHANGED <<item, props, wanted>>
  BY DEF Player!RendererLost, Player!RendererReady
<1>2. ready' \in BOOLEAN /\ posted' \in BOOLEAN
  BY DEF Player!RendererLost, Player!RendererReady, PlayerInv, PlayerShape
<1>3. plays' \in 0 .. MaxPlays
  BY EventCounts
  DEF Player!RendererLost, Player!RendererReady, PlayerInv, PlayerShape
<1> QED
  BY <1>1, <1>2, <1>3, Zenon DEF PlayerInv, PlayerShape

LEMMA PendingLoadKeeps ==
  ASSUME PlayerInv, Player!PendingLoad
  PROVE  PlayerInv'
<1>1. /\ item' = Player!DispatchLoad(item) /\ posted' = FALSE
      /\ UNCHANGED <<props, ready, wanted, plays>>
  BY DEF Player!PendingLoad
<1>2. Whole(item', props) /\ Follows(item', item)
  BY <1>1, LoadDispatched DEF PlayerInv
<1>3. PlayerShape'
  BY <1>1, Zenon DEF PlayerInv, PlayerShape
<1> QED
  BY <1>1, <1>2, <1>3 DEF PlayerInv, Follows

\* The reply ends the flight of its write; what follows is a turn of its own.
LEMMA FinishedWhole ==
  ASSUME NEW t, NEW p \in [Options -> PlayerValues], Whole(t, p),
         t.pending # None, NEW ok \in BOOLEAN,
         NEW q,
         q = IF ok THEN [p EXCEPT ![Player!NextWrite(t.pending).option]
                                    = Player!NextWrite(t.pending).value]
             ELSE p,
         NEW r \in Player!Finish([t EXCEPT !.flight = <<>>], ok)
  PROVE  Whole(r, q) /\ Wanted(r) = Wanted(t)
<1> DEFINE u == t.pending
           w == Player!NextWrite(u)
           s == [t EXCEPT !.flight = <<>>]
<1>1. /\ t \in PlayerItems /\ InFlight(t, p) /\ t.active = None
      /\ t.dirty \/ AtBase(p)
  BY DEF Whole
<1>2. /\ Underway(u) /\ u.next <= Player!Writes(u) /\ Progress(u, p)
      /\ Player!IsTarget(u) => t.dirty
  BY <1>1 DEF InFlight
<1>3. /\ w \in Written
      /\ ~ Player!IsTarget(u) => w.value = Player!Base
  BY <1>2, NextWriteOf
<1>4. \A o \in Options : q[o] = IF ok /\ o = w.option THEN w.value ELSE p[o]
  BY <1>3 DEF Written
<1>5. t.dirty \/ AtBase(q)
  BY <1>1, <1>2, <1>3, <1>4 DEF AtBase
<1>6. <<>> \in Seq(Written)
  OBVIOUS
<1>7. /\ s \in PlayerItems /\ s.pending = u /\ s.active = None
      /\ s.dirty = t.dirty /\ s.flight = <<>> /\ s.deferred = t.deferred
      /\ s.queued = t.queued /\ s.target = t.target /\ s.told = t.told
  BY <1>1, <1>6 DEF PlayerItems
<1>8. Wanted(s) = Wanted(t)
  BY <1>7 DEF Wanted
<1>8a. q = IF ok THEN [p EXCEPT ![w.option] = w.value] ELSE p
  OBVIOUS
<1>8b. r \in Player!Finish(s, ok)
  OBVIOUS
<1> HIDE DEF u, w, s
<1>9. CASE s.deferred # None
  <2> DEFINE k == [s EXCEPT !.deferred = None, !.queued = None,
                            !.pending = None, !.target = None,
                            !.waits = FALSE]
  <2>1. r \in Player!OpenNow(k, s.deferred.file, s.deferred.config)
    BY <1>9, <1>8b DEF Player!Finish
  <2>2. s.deferred.file \in Files /\ s.deferred.config \in Player!Configs
    BY <1>7, <1>9 DEF PlayerItems, Player!Requests
  <2>3. k \in PlayerItems
    BY <1>7 DEF PlayerItems
  <2>3a. /\ k.deferred = None /\ k.pending = None
         /\ k.flight = <<>> /\ k.dirty = s.dirty
    BY <1>7 DEF PlayerItems
  <2> HIDE DEF k
  <2>4. Resting(k, q)
    BY <1>5, <1>7, <2>3, <2>3a DEF Resting
  <2>5. Whole(r, q) /\ Wanted(r) = s.deferred.file
    BY <2>1, <2>2, <2>4, OpenedWhole
  <2> QED
    BY <1>8, <1>9, <2>5 DEF Wanted
<1>10. CASE s.deferred = None /\ s.queued # None
  <2> DEFINE k == [s EXCEPT !.queued = None, !.pending = None]
  <2>1. r \in Player!Begin(k, s.queued)
    BY <1>10, <1>8b DEF Player!Finish
  <2>2. s.queued \in Player!Configs
    BY <1>7, <1>10 DEF PlayerItems
  <2>3. /\ k \in PlayerItems /\ k.deferred = None /\ k.pending = None
        /\ k.flight = <<>> /\ k.dirty = s.dirty
        /\ k.target = s.target /\ k.told = s.told
    BY <1>7, <1>10 DEF PlayerItems
  <2> HIDE DEF k
  <2>4. Resting(k, q)
    BY <1>5, <1>7, <2>3 DEF Resting
  <2>5. Wanted(k) = Wanted(s)
    BY <1>10, <2>3 DEF Wanted
  <2> QED
    BY <1>8, <2>1, <2>2, <2>4, <2>5, BegunWhole DEF Follows
<1>11. CASE s.deferred = None /\ s.queued = None
  <2>1. CASE ~ u.rolling /\ (u.cancelled \/ ~ ok)
    <3> DEFINE k == [s EXCEPT !.pending = Player!RolledBack(s.pending)]
    <3>1. r \in Player!Restoring(k)
      BY <1>7, <1>11, <1>8b, <2>1 DEF Player!Finish, Player!Rollback
    <3>2. k = [s EXCEPT !.pending = Player!RolledBack(s.pending),
                        !.dirty = s.dirty]
      BY <1>7 DEF PlayerItems
    <3>3. s.dirty \in BOOLEAN /\ (s.dirty \/ AtBase(q)) /\ u # None
      BY <1>5, <1>7 DEF PlayerItems, u
    <3> HIDE DEF k
    <3>4. Writing(k, q) /\ k.pending.rolling /\ Follows(k, s)
      BY <1>2, <1>7, <1>11, <3>2, <3>3, RollsBack
    <3>5. Whole(r, q) /\ Follows(r, k)
      BY <3>1, <3>4, RestoringWhole
    <3> QED
      BY <1>8, <3>4, <3>5 DEF Follows
  <2>2. CASE ~ (~ u.rolling /\ (u.cancelled \/ ~ ok))
    <3> DEFINE e == u.failed \/ ~ ok
               v == [u EXCEPT !.next = u.next + 1, !.failed = e]
               k == [s EXCEPT !.pending.next = u.next + 1,
                              !.pending.failed = e]
    <3>1. r \in Player!DispatchNext(k)
      BY <1>7, <1>11, <1>8b, <2>2 DEF Player!Finish
    <3>2. ok \/ u.rolling
      BY <1>2, <2>2, WritesOf
    <3>3. Progress(v, q)
      BY <1>2, <1>8a, <3>2, NextWritten DEF w
    <3>4. /\ u \in Player!Transactions /\ u.next \in Nat \ {0}
          /\ e \in BOOLEAN
      BY <1>2, WritesOf DEF Underway
    <3> HIDE DEF e
    <3>5. /\ v \in Player!Transactions /\ v.next = u.next + 1
          /\ v.config = u.config /\ v.rolling = u.rolling
      <4>1. u.next + 1 \in Nat \ {0}
        BY <3>4
      <4>2. v \in Player!Transactions
        BY <3>4, <4>1 DEF Player!Transactions
      <4>3. v.next = u.next + 1 /\ v.config = u.config
        BY <3>4 DEF Player!Transactions
      <4>4. v.rolling = u.rolling
        BY <3>4 DEF Player!Transactions
      <4> QED
        BY <4>2, <4>3, <4>4
    <3>6. k = [s EXCEPT !.pending = v]
      BY <1>7, <3>4 DEF PlayerItems, Player!Transactions
    <3> HIDE DEF k
    <3>7. /\ Player!Writes(v) = Player!Writes(u)
          /\ Underway(v) /\ v # None
      BY <1>2, <3>5, PlayerConstants
      DEF Player!Writes, Player!Enables, Underway
    <3> HIDE DEF v
    <3>8. /\ k \in PlayerItems /\ k.pending = v /\ k.active = None
          /\ k.dirty = s.dirty /\ k.flight = <<>> /\ k.deferred = s.deferred
          /\ k.target = s.target /\ k.told = s.told
      BY <1>7, <3>5, <3>6 DEF PlayerItems
    <3>9. v.next <= Player!Writes(v) + 1
      BY <1>2, <3>4, <3>5, <3>7, WritesOf
    <3>10. Writing(k, q)
      BY <1>5, <1>7, <1>11, <3>3, <3>7, <3>8, <3>9 DEF Writing
    <3>11. Wanted(k) = Wanted(s)
      BY <3>8 DEF Wanted
    <3> QED
      BY <1>8, <3>1, <3>10, <3>11, DispatchedWhole DEF Follows
  <2> QED
    BY <2>1, <2>2
<1> QED
  BY <1>9, <1>10, <1>11

LEMMA ReplyKeeps ==
  ASSUME PlayerInv, NEW ok \in BOOLEAN, Player!Reply(ok)
  PROVE  PlayerInv'
<1> DEFINE t == item.pending
           w == Player!NextWrite(t)
           s == [item EXCEPT !.flight = <<>>]
<1>1. /\ item.flight # <<>> /\ UNCHANGED <<ready, posted, wanted, plays>>
      /\ props' = IF ok THEN [props EXCEPT ![Head(item.flight).option]
                                            = Head(item.flight).value]
                 ELSE props
  BY DEF Player!Reply
<1>2. /\ PlayerShape /\ Whole(item, props) /\ Wanted(item) = wanted
      /\ props \in [Options -> PlayerValues]
  BY DEF PlayerInv, PlayerShape
<1>3. item.pending # None /\ InFlight(item, props)
  BY <1>1, <1>2 DEF Whole
<1>4. item.flight = <<w>> /\ Underway(t) /\ t.next <= Player!Writes(t)
  BY <1>3 DEF InFlight
<1>5. w \in Written
  BY <1>4, NextWriteOf
<1> HIDE DEF w
<1>6. /\ Head(item.flight) = w /\ Len(item.flight) = 1
      /\ Tail(item.flight) = <<>>
  BY <1>4
<1>7. item' \in Player!Finish(s, ok)
  BY <1>3, <1>6 DEF Player!Reply
<1>8. props' = IF ok THEN [props EXCEPT ![w.option] = w.value] ELSE props
  BY <1>1, <1>6
<1>9. Whole(item', props') /\ Wanted(item') = Wanted(item)
  BY <1>2, <1>3, <1>7, <1>8, FinishedWhole DEF w
<1>10. props' \in [Options -> PlayerValues]
  BY <1>2, <1>5, <1>8 DEF Written
<1>11. PlayerShape'
  BY <1>1, <1>2, <1>10, Zenon DEF PlayerShape
<1> QED
  BY <1>1, <1>2, <1>9, <1>11 DEF PlayerInv

LEMMA PlayerKept ==
  ASSUME PlayerInv, [Player!Next]_playerVars
  PROVE  PlayerInv'
<1>1. CASE UNCHANGED playerVars
  <2>1. UNCHANGED <<item, props, ready, posted, wanted, plays>>
    BY <1>1 DEF playerVars
  <2> QED
    BY <2>1, Zenon DEF PlayerInv, PlayerShape
<1>2. CASE Player!Next
  BY <1>2, OpenKeeps, ConfigureKeeps, StopKeeps, DowngradeKeeps, ShaderKeeps,
     RendererKeeps, PendingLoadKeeps, ReplyKeeps DEF Player!Next
<1> QED
  BY <1>1, <1>2

\* What the invariant says of the properties that the run checks.
LEMMA PlayerPromises ==
  ASSUME PlayerInv
  PROVE  OptionsAreWhole /\ NewestOpenWins
<1>1. /\ item \in PlayerItems /\ props \in [Options -> PlayerValues]
      /\ Whole(item, props) /\ Wanted(item) = wanted
  BY DEF PlayerInv, PlayerShape, Whole
<1>2. ASSUME item.active # None
      PROVE  props = Player!Effective(item.active)
  <2>1. \A o \in Options : props[o] = Player!Effective(item.active)[o]
    BY <1>1, <1>2 DEF Whole
  <2> QED
    BY <1>1, <2>1 DEF Player!Effective
<1>3. ASSUME ~ item.dirty
      PROVE  props = [o \in Options |-> Player!Base]
  BY <1>1, <1>3 DEF Whole, AtBase
<1>4. NewestOpenWins
  BY <1>1 DEF NewestOpenWins, Player!NewestOpenWins, Wanted
<1> QED
  BY <1>2, <1>3, <1>4 DEF OptionsAreWhole, Player!OptionsAreWhole

-----------------------------------------------------------------------------
(* The watch over the file.                                                 *)

StallItems ==
  [loaded : BOOLEAN, state : Stall!ItemStates, timer : BOOLEAN,
   late : BOOLEAN, dog : Stall!DogStates, seeking : BOOLEAN,
   armed : BOOLEAN, reanchor : BOOLEAN,
   quiet : {Stall!Fresh, Stall!Silent, Stall!Hopeless}, slept : BOOLEAN,
   buffering : BOOLEAN, reported : BOOLEAN, cache : BOOLEAN, eof : BOOLEAN,
   handled : BOOLEAN, wantsPause : BOOLEAN, paused : BOOLEAN]

\* A stall is shown, and a report of one is not left behind.
Shown(s) ==
  /\ s.timer
  /\ s.dog # "inactive"
  /\ s.buffering <=> Stall!IsStalled(s)
  /\ s.reported => Stall!IsStalled(s) \/ s.dog = "suspended"

Watched(s) ==
  /\ s \in StallItems
  /\ s.loaded /\ ~ s.handled => Shown(s)

\* Two items that show the same.
Alike(r, s) ==
  /\ r \in StallItems
  /\ r.loaded = s.loaded /\ r.handled = s.handled /\ r.timer = s.timer
  /\ r.dog = s.dog /\ r.buffering = s.buffering /\ r.reported = s.reported

LEMMA AlikeWatched ==
  ASSUME NEW r, NEW s, Watched(s), Alike(r, s)
  PROVE  Watched(r)
<1>1. Stall!IsStalled(r) <=> Stall!IsStalled(s)
  BY DEF Alike, Stall!IsStalled
<1> QED
  BY <1>1 DEF Watched, Shown, Alike

LEMMA AlikeOn ==
  ASSUME NEW q, NEW r, NEW s, Alike(q, r), Alike(r, s)
  PROVE  Alike(q, s)
BY DEF Alike

LEMMA NormalizedAlike ==
  ASSUME NEW s \in StallItems
  PROVE  Alike(Stall!Normalized(s), s)
<1>1. CASE s.slept
  <2>1. Stall!Normalized(s)
          = [s EXCEPT !.quiet = Stall!Fresh, !.slept = FALSE]
    BY <1>1 DEF Stall!Normalized
  <2> QED
    BY <2>1 DEF Alike, StallItems
<1>2. CASE ~ s.slept
  BY <1>2 DEF Stall!Normalized, Alike
<1> QED
  BY <1>1, <1>2

LEMMA NoSeekAlike ==
  ASSUME NEW s \in StallItems
  PROVE  Alike(Stall!NoSeek(s), s) /\ Stall!NoSeek(s).wantsPause = s.wantsPause
BY DEF Stall!NoSeek, Alike, StallItems

LEMMA RefreshedAlike ==
  ASSUME NEW s \in StallItems
  PROVE  Alike(Stall!Refreshed(s), s)
<1>1. CASE ~ s.loaded \/ s.handled
  BY <1>1 DEF Stall!Refreshed, Alike
<1>2. CASE ~ (~ s.loaded \/ s.handled)
  <2> DEFINE state == IF s.wantsPause THEN "paused"
                      ELSE IF s.cache \/ s.buffering THEN "buffering"
                      ELSE "playing"
  <2>1. state \in Stall!ItemStates
    BY DEF Stall!ItemStates
  <2>2. Stall!Refreshed(s) = [s EXCEPT !.state = state]
    BY <1>2 DEF Stall!Refreshed
  <2> HIDE DEF state
  <2> QED
    BY <2>1, <2>2 DEF Alike, StallItems
<1> QED
  BY <1>1, <1>2

\* Whatever the watch changes of what is shown, it changes as one.
LEMMA ChangedWatched ==
  ASSUME NEW s, Watched(s), NEW dog \in Stall!DogStates,
         NEW buffering \in BOOLEAN, NEW reported \in BOOLEAN,
         NEW r, Alike(r, [s EXCEPT !.dog = dog, !.buffering = buffering,
                                   !.reported = reported]),
         s.loaded /\ ~ s.handled =>
           /\ dog # "inactive"
           /\ buffering <=> dog \in {"stalled", "timedOut"}
           /\ reported => dog \in {"stalled", "timedOut", "suspended"}
  PROVE  Watched(r)
<1>1. s \in StallItems
  BY DEF Watched
<1>2. /\ r \in StallItems
      /\ r.loaded = s.loaded /\ r.handled = s.handled /\ r.timer = s.timer
      /\ r.dog = dog /\ r.buffering = buffering /\ r.reported = reported
  BY <1>1 DEF Alike, StallItems
<1>3. Stall!IsStalled(r) <=> dog \in {"stalled", "timedOut"}
  BY <1>2 DEF Stall!IsStalled
<1> QED
  BY <1>2, <1>3 DEF Watched, Shown

LEMMA JudgedWatched ==
  ASSUME NEW s, Watched(s)
  PROVE  Watched(Stall!Judged(s))
<1>1. s \in StallItems
  BY DEF Watched
<1>2. CASE s.dog # "timedOut" /\ s.quiet = Stall!Hopeless
  <2> DEFINE k == [s EXCEPT !.dog = "timedOut", !.buffering = TRUE,
                            !.reported = TRUE]
  <2>1. Stall!Judged(s) = Stall!Refreshed(k)
    BY <1>2 DEF Stall!Judged
  <2>2. k \in StallItems
    BY <1>1 DEF StallItems, Stall!DogStates
  <2>3. Alike(Stall!Judged(s), k)
    BY <2>1, <2>2, RefreshedAlike
  <2> QED
    BY <2>3, ChangedWatched DEF Stall!DogStates
<1>3. CASE /\ ~ (s.dog # "timedOut" /\ s.quiet = Stall!Hopeless)
           /\ s.dog = "monitoring" /\ s.quiet = Stall!Silent
  <2> DEFINE k == [s EXCEPT !.dog = "stalled", !.buffering = TRUE]
  <2>1. Stall!Judged(s) = Stall!Refreshed(k)
    BY <1>3 DEF Stall!Judged
  <2>2. k = [s EXCEPT !.dog = "stalled", !.buffering = TRUE,
                      !.reported = s.reported]
    BY <1>1 DEF StallItems
  <2>3. k \in StallItems
    BY <1>1 DEF StallItems, Stall!DogStates
  <2>4. Alike(Stall!Judged(s), k)
    BY <2>1, <2>3, RefreshedAlike
  <2>5. s.reported \in BOOLEAN
    BY <1>1 DEF StallItems
  <2> QED
    BY <2>2, <2>4, <2>5, ChangedWatched DEF Stall!DogStates
<1>4. CASE /\ ~ (s.dog # "timedOut" /\ s.quiet = Stall!Hopeless)
           /\ ~ (s.dog = "monitoring" /\ s.quiet = Stall!Silent)
  <2>1. Stall!Judged(s) = s
    BY <1>4 DEF Stall!Judged
  <2> QED
    BY <2>1
<1> QED
  BY <1>2, <1>3, <1>4

LEMMA AdvancedWatched ==
  ASSUME NEW s, Watched(s), s.dog # "suspended"
  PROVE  Watched(Stall!Advanced(s))
<1> DEFINE moved == [s EXCEPT !.quiet = Stall!Fresh, !.dog = "monitoring"]
           k == [s EXCEPT !.dog = "monitoring", !.buffering = FALSE,
                          !.reported = FALSE]
           m == [moved EXCEPT !.buffering = FALSE, !.reported = FALSE]
<1>1. s \in StallItems
  BY DEF Watched
<1>2. moved \in StallItems /\ m \in StallItems /\ k \in StallItems
  BY <1>1 DEF StallItems, Stall!DogStates
<1>3. CASE Stall!IsStalled(s)
  <2>1. Stall!Advanced(s) = Stall!Refreshed(m)
    BY <1>3 DEF Stall!Advanced
  <2>2. Alike(m, k)
    BY <1>1, <1>2 DEF Alike, StallItems
  <2>3. Alike(Stall!Advanced(s), k)
    BY <1>2, <2>1, <2>2, RefreshedAlike, AlikeOn
  <2> QED
    BY <2>3, ChangedWatched DEF Stall!DogStates
<1>4. CASE ~ Stall!IsStalled(s)
  <2>1. Stall!Advanced(s) = moved
    BY <1>4 DEF Stall!Advanced
  <2>2. /\ moved.loaded = s.loaded /\ moved.handled = s.handled
        /\ moved.timer = s.timer /\ moved.dog = "monitoring"
        /\ moved.buffering = s.buffering /\ moved.reported = s.reported
    BY <1>1 DEF StallItems
  <2> HIDE DEF moved
  <2> QED
    BY <1>2, <1>4, <2>1, <2>2 DEF Watched, Shown, Stall!IsStalled
<1> QED
  BY <1>3, <1>4

LEMMA ObservedWatched ==
  ASSUME NEW s, Watched(s), NEW advances \in BOOLEAN
  PROVE  Watched(Stall!ObservePosition(s, advances))
<1> DEFINE n == Stall!Normalized(s)
           a == [n EXCEPT !.reanchor = FALSE]
<1>1. s \in StallItems
  BY DEF Watched
<1>2. Alike(n, s)
  BY <1>1, NormalizedAlike
<1>3. Watched(n) /\ n \in StallItems
  BY <1>2, AlikeWatched DEF Alike
<1> HIDE DEF n
<1>4. Alike(a, n)
  BY <1>3 DEF Alike, StallItems
<1>5. Watched(a)
  BY <1>3, <1>4, AlikeWatched
<1> HIDE DEF a
<1>6. CASE s.dog = "inactive"
  BY <1>6 DEF Stall!ObservePosition
<1>7. CASE s.dog = "suspended"
  BY <1>3, <1>7 DEF Stall!ObservePosition, n
<1>8. CASE s.dog # "inactive" /\ s.dog # "suspended"
  <2>1. Stall!ObservePosition(s, advances)
          = IF s.seeking THEN Stall!Judged(n)
            ELSE IF s.reanchor THEN Stall!Judged(a)
            ELSE IF advances THEN Stall!Advanced(n)
            ELSE Stall!Judged(n)
    BY <1>8 DEF Stall!ObservePosition, n, a
  <2>2. n.dog # "suspended"
    BY <1>2, <1>8 DEF Alike
  <2>3. /\ Watched(Stall!Judged(n)) /\ Watched(Stall!Judged(a))
        /\ Watched(Stall!Advanced(n))
    BY <1>3, <1>5, <2>2, JudgedWatched, AdvancedWatched
  <2> QED
    BY <2>1, <2>3
<1> QED
  BY <1>6, <1>7, <1>8

LEMMA BeginSeekAlike ==
  ASSUME NEW s \in StallItems
  PROVE  Alike(Stall!BeginSeek(s), s)
<1>1. CASE s.dog \in {"inactive", "suspended"}
  BY <1>1 DEF Stall!BeginSeek, Alike
<1>2. CASE s.dog \notin {"inactive", "suspended"}
  <2> DEFINE n == Stall!NoSeek(s)
  <2>1. Stall!BeginSeek(s) = [n EXCEPT !.seeking = TRUE,
                                       !.quiet = Stall!Fresh, !.slept = FALSE]
    BY <1>2 DEF Stall!BeginSeek
  <2>2. Alike(n, s) /\ n \in StallItems
    BY NoSeekAlike DEF Alike
  <2> HIDE DEF n
  <2>3. Alike(Stall!BeginSeek(s), n)
    BY <2>1, <2>2 DEF Alike, StallItems
  <2> QED
    BY <2>2, <2>3, AlikeOn
<1> QED
  BY <1>1, <1>2

LEMMA SeekStartedAlike ==
  ASSUME NEW s \in StallItems
  PROVE  Alike(Stall!SeekStarted(s), s)
<1> DEFINE b == Stall!BeginSeek(s)
<1>1. Alike(b, s) /\ b \in StallItems
  BY BeginSeekAlike DEF Alike
<1>2. \/ Stall!SeekStarted(s) = s
      \/ Stall!SeekStarted(s) = [s EXCEPT !.armed = TRUE]
      \/ Stall!SeekStarted(s) = [b EXCEPT !.armed = TRUE]
  BY DEF Stall!SeekStarted
<1> HIDE DEF b
<1>3. Alike(s, s) /\ Alike([s EXCEPT !.armed = TRUE], s)
  BY DEF Alike, StallItems
<1>4. Alike([b EXCEPT !.armed = TRUE], b)
  BY <1>1 DEF Alike, StallItems
<1>5. Alike([b EXCEPT !.armed = TRUE], s)
  BY <1>1, <1>4, AlikeOn
<1> QED
  BY <1>2, <1>3, <1>5

LEMMA RestartedAlike ==
  ASSUME NEW s \in StallItems
  PROVE  Alike(Stall!Restarted(s), s)
<1> DEFINE n == Stall!Normalized(s)
           k == Stall!NoSeek(n)
<1>1. Alike(n, s) /\ n \in StallItems
  BY NormalizedAlike DEF Alike
<1> HIDE DEF n
<1>2. Alike(k, n) /\ k \in StallItems
  BY <1>1, NoSeekAlike DEF Alike
<1> HIDE DEF k
<1>3. Alike(s, s) /\ Alike([k EXCEPT !.reanchor = TRUE], k)
  BY <1>2 DEF Alike, StallItems
<1>4. \/ Stall!Restarted(s) = s
      \/ Stall!Restarted(s) = [k EXCEPT !.reanchor = TRUE]
  BY DEF Stall!Restarted, n, k
<1> QED
  BY <1>1, <1>2, <1>3, <1>4, AlikeOn

\* A pause hides the stall it interrupts.
LEMMA WatchPausedWatched ==
  ASSUME NEW s, Watched(s)
  PROVE  Watched(Stall!WatchPaused(s))
<1> DEFINE n == Stall!Normalized(s)
           k == Stall!NoSeek(n)
           b == s.buffering /\ ~ Stall!IsStalled(s)
<1>1. s \in StallItems
  BY DEF Watched
<1>2. Alike(n, s) /\ n \in StallItems
  BY <1>1, NormalizedAlike DEF Alike
<1> HIDE DEF n
<1>3. Alike(k, s) /\ k \in StallItems
  BY <1>2, NoSeekAlike, AlikeOn DEF Alike
<1> HIDE DEF k
<1>4. CASE s.dog = "inactive"
  BY <1>4 DEF Stall!WatchPaused
<1>5. CASE s.dog # "inactive"
  <2>1. Stall!WatchPaused(s)
          = [k EXCEPT !.dog = "suspended", !.buffering = b]
    BY <1>5 DEF Stall!WatchPaused, k, n
  <2>2. b \in BOOLEAN /\ (s.loaded /\ ~ s.handled => ~ b)
    BY <1>1 DEF Watched, Shown, StallItems, Stall!IsStalled
  <2>3. s.reported \in BOOLEAN
    BY <1>1 DEF StallItems
  <2> HIDE DEF b
  <2> DEFINE r == [k EXCEPT !.dog = "suspended", !.buffering = b]
             q == [s EXCEPT !.dog = "suspended", !.buffering = b,
                            !.reported = s.reported]
  <2>4. r \in StallItems
    BY <1>3, <2>2 DEF StallItems, Stall!DogStates
  <2>5. /\ r.loaded = k.loaded /\ r.handled = k.handled
        /\ r.timer = k.timer /\ r.dog = "suspended"
        /\ r.buffering = b /\ r.reported = k.reported
    BY <1>3, <2>2 DEF StallItems
  <2>6. /\ q.loaded = s.loaded /\ q.handled = s.handled
        /\ q.timer = s.timer /\ q.dog = "suspended"
        /\ q.buffering = b /\ q.reported = s.reported
    BY <1>1, <2>2 DEF StallItems
  <2> HIDE DEF r
  <2>7. Alike(r, q)
    BY <1>3, <2>4, <2>5, <2>6 DEF Alike
  <2>8. Watched(r)
    BY <2>2, <2>3, <2>7, ChangedWatched DEF Stall!DogStates
  <2> QED
    BY <2>1, <2>8 DEF r
<1> QED
  BY <1>4, <1>5

\* To mark a stall changes only the state of the watchdog.
LEMMA MarkedAs ==
  ASSUME NEW s \in StallItems, NEW r, r = Stall!MarkStalled(s)
  PROVE  /\ r \in StallItems
         /\ r.loaded = s.loaded /\ r.handled = s.handled
         /\ r.timer = s.timer /\ r.buffering = s.buffering
         /\ r.reported = s.reported
         /\ r.dog = IF s.dog \in {"monitoring", "stalled"} THEN "stalled"
                    ELSE s.dog
<1>1. CASE s.dog \in {"monitoring", "stalled"}
  <2> DEFINE n == Stall!Normalized(s)
  <2>1. r = [n EXCEPT !.dog = "stalled"]
    BY <1>1 DEF Stall!MarkStalled
  <2>2. Alike(n, s)
    BY NormalizedAlike
  <2> HIDE DEF n
  <2>3. r \in StallItems
    BY <2>1, <2>2 DEF StallItems, Stall!DogStates, Alike
  <2>4. /\ r.loaded = n.loaded /\ r.handled = n.handled
        /\ r.timer = n.timer /\ r.buffering = n.buffering
        /\ r.reported = n.reported /\ r.dog = "stalled"
    BY <2>1, <2>2 DEF StallItems, Alike
  <2> QED
    BY <1>1, <2>2, <2>3, <2>4 DEF Alike
<1>2. CASE s.dog \notin {"monitoring", "stalled"}
  BY <1>2 DEF Stall!MarkStalled
<1> QED
  BY <1>1, <1>2

LEMMA WatchResumedWatched ==
  ASSUME NEW s, Watched(s)
  PROVE  Watched(Stall!WatchResumed(s))
<1> DEFINE n == IF s.dog = "suspended"
                  THEN [Stall!NoSeek(s) EXCEPT
                          !.dog = "monitoring", !.quiet = Stall!Fresh,
                          !.slept = FALSE]
                  ELSE IF s.dog = "inactive" THEN s ELSE Stall!Normalized(s)
           m == Stall!MarkStalled(n)
           k == [m EXCEPT !.buffering = TRUE]
<1>1. s \in StallItems
  BY DEF Watched
<1>2. /\ n \in StallItems
      /\ n.loaded = s.loaded /\ n.handled = s.handled
      /\ n.timer = s.timer /\ n.buffering = s.buffering
      /\ n.reported = s.reported
      /\ n.dog = IF s.dog = "suspended" THEN "monitoring" ELSE s.dog
  <2>1. CASE s.dog = "suspended"
    <3> DEFINE a == Stall!NoSeek(s)
    <3>1. Alike(a, s)
      BY <1>1, NoSeekAlike
    <3>2. n = [a EXCEPT !.dog = "monitoring", !.quiet = Stall!Fresh,
                        !.slept = FALSE]
      BY <2>1
    <3> HIDE DEF a, n
    <3>3. n \in StallItems
      BY <3>1, <3>2 DEF StallItems, Stall!DogStates, Alike
    <3>4. /\ n.loaded = a.loaded /\ n.handled = a.handled
          /\ n.timer = a.timer /\ n.buffering = a.buffering
          /\ n.reported = a.reported /\ n.dog = "monitoring"
      BY <3>1, <3>2 DEF StallItems, Alike
    <3> QED
      BY <2>1, <3>1, <3>3, <3>4 DEF Alike
  <2>2. CASE s.dog = "inactive"
    BY <1>1, <2>2
  <2>3. CASE s.dog \notin {"suspended", "inactive"}
    <3>1. n = Stall!Normalized(s)
      BY <2>3
    <3> HIDE DEF n
    <3> QED
      BY <1>1, <2>3, <3>1, NormalizedAlike DEF Alike
  <2> QED
    BY <2>1, <2>2, <2>3
<1>3. Stall!WatchResumed(s) = IF s.reported THEN k ELSE n
  BY DEF Stall!WatchResumed
<1> HIDE DEF n
<1>4. CASE s.reported
  <2>1. /\ m \in StallItems
        /\ m.loaded = n.loaded /\ m.handled = n.handled
        /\ m.timer = n.timer /\ m.reported = n.reported
        /\ m.dog = IF n.dog \in {"monitoring", "stalled"} THEN "stalled"
                   ELSE n.dog
    BY <1>2, MarkedAs
  <2> HIDE DEF m
  <2>2. k \in StallItems
    BY <2>1 DEF StallItems
  <2>3. /\ k.loaded = m.loaded /\ k.handled = m.handled
        /\ k.timer = m.timer /\ k.reported = m.reported /\ k.dog = m.dog
        /\ k.buffering
    BY <2>1 DEF StallItems
  <2> HIDE DEF k
  <2>4. Watched(k)
    BY <1>1, <1>2, <1>4, <2>1, <2>2, <2>3
    DEF Watched, Shown, Stall!IsStalled
  <2> QED
    BY <1>3, <1>4, <2>4
<1>5. CASE ~ s.reported
  <2>1. Watched(n)
    BY <1>1, <1>2, <1>5 DEF Watched, Shown, Stall!IsStalled
  <2> QED
    BY <1>3, <1>5, <2>1
<1> QED
  BY <1>4, <1>5

LEMMA PauseWatched ==
  ASSUME NEW s, Watched(s), NEW paused \in BOOLEAN
  PROVE  Watched(Stall!PauseMonitored(s, paused))
<1>1. CASE ~ s.loaded \/ s.handled
  BY <1>1 DEF Stall!PauseMonitored
<1>2. CASE ~ (~ s.loaded \/ s.handled)
  <2> DEFINE k == IF paused THEN Stall!WatchPaused(s)
                  ELSE Stall!WatchResumed(s)
  <2>1. Stall!PauseMonitored(s, paused) = Stall!Refreshed(k)
    BY <1>2 DEF Stall!PauseMonitored
  <2>2. Watched(k)
    BY WatchPausedWatched, WatchResumedWatched
  <2> HIDE DEF k
  <2>3. k \in StallItems
    BY <2>2 DEF Watched
  <2> QED
    BY <2>1, <2>2, <2>3, RefreshedAlike, AlikeWatched
<1> QED
  BY <1>1, <1>2

\* A file that is not there, or that has ended, has nothing to show.
LEMMA NothingShown ==
  ASSUME NEW s \in StallItems, ~ s.loaded \/ s.handled
  PROVE  Watched(s)
BY DEF Watched

LEMMA ResetAs ==
  ASSUME NEW s \in StallItems, NEW r, r = Stall!ResetStall(s)
  PROVE  r \in StallItems
<1> DEFINE n == Stall!NoSeek(s)
<1>1. n \in StallItems
  BY NoSeekAlike DEF Alike
<1>2. r = [n EXCEPT !.timer = FALSE, !.dog = "inactive",
                    !.quiet = Stall!Fresh, !.slept = FALSE, !.late = FALSE,
                    !.buffering = FALSE, !.reported = FALSE]
  BY DEF Stall!ResetStall
<1> HIDE DEF n
<1> DEFINE k == [n EXCEPT !.timer = FALSE, !.dog = "inactive", !.quiet = Stall!Fresh]
<1>3. k \in StallItems
  BY <1>1 DEF StallItems, Stall!DogStates
<1>4. r = [k EXCEPT !.slept = FALSE, !.late = FALSE, !.buffering = FALSE,
                    !.reported = FALSE]
  BY <1>2
<1> HIDE DEF k
<1> QED
  BY <1>3, <1>4 DEF StallItems

LEMMA NoFileAs ==
  ASSUME NEW s \in StallItems, NEW r, r = Stall!NoFile(s)
  PROVE  r \in StallItems /\ ~ r.loaded
<1> DEFINE n == Stall!ResetStall(s)
<1>1. n \in StallItems
  BY ResetAs
<1>2. r = [n EXCEPT !.loaded = FALSE, !.cache = FALSE]
  BY DEF Stall!NoFile
<1> HIDE DEF n
<1> QED
  BY <1>1, <1>2 DEF StallItems

LEMMA OpenedWatched ==
  ASSUME NEW s, Watched(s)
  PROVE  Watched(Stall!Opened(s))
<1> DEFINE n == Stall!NoFile(s)
           r == Stall!Opened(s)
<1>1. s \in StallItems
  BY DEF Watched
<1>2. n \in StallItems /\ ~ n.loaded
  BY <1>1, NoFileAs
<1>3. r = [n EXCEPT !.wantsPause = s.paused, !.eof = FALSE,
                    !.handled = FALSE, !.state = "loading", !.timer = TRUE]
  BY DEF Stall!Opened
<1>4. s.paused \in BOOLEAN
  BY <1>1 DEF StallItems
<1> HIDE DEF n, r
<1>5. r \in StallItems
  BY <1>2, <1>3, <1>4 DEF StallItems, Stall!ItemStates
<1>6. ~ r.loaded
  BY <1>2, <1>3 DEF StallItems
<1> QED
  BY <1>5, <1>6, NothingShown DEF r

LEMMA StoppedWatched ==
  ASSUME NEW s, Watched(s)
  PROVE  Watched(Stall!Stopped(s))
<1> DEFINE n == Stall!NoFile(s)
           r == Stall!Stopped(s)
<1>1. s \in StallItems
  BY DEF Watched
<1>2. n \in StallItems /\ ~ n.loaded
  BY <1>1, NoFileAs
<1>3. r = [n EXCEPT !.eof = FALSE, !.handled = FALSE, !.state = "idle"]
  BY DEF Stall!Stopped
<1> HIDE DEF n, r
<1>4. r \in StallItems
  BY <1>2, <1>3 DEF StallItems, Stall!ItemStates
<1>5. ~ r.loaded
  BY <1>2, <1>3 DEF StallItems
<1> QED
  BY <1>4, <1>5, NothingShown DEF r

LEMMA EndedWatched ==
  ASSUME NEW s, Watched(s), NEW state \in Stall!ItemStates
  PROVE  Watched(Stall!Ended(s, state))
<1> DEFINE n == Stall!NoFile(s)
           r == Stall!Ended(s, state)
<1>1. s \in StallItems
  BY DEF Watched
<1>2. n \in StallItems /\ ~ n.loaded
  BY <1>1, NoFileAs
<1>3. r = [n EXCEPT !.state = state]
  BY DEF Stall!Ended
<1> HIDE DEF n, r
<1>4. r \in StallItems /\ ~ r.loaded
  BY <1>2, <1>3 DEF StallItems
<1> QED
  BY <1>4, NothingShown DEF r

\* A file that loads shows a stall if its load was reported late.
LEMMA LoadedWatched ==
  ASSUME NEW s, Watched(s)
  PROVE  Watched(Stall!Loaded(s))
<1> DEFINE n == Stall!NoSeek(s)
           dog == IF s.wantsPause THEN "suspended" ELSE "monitoring"
           late == s.reported /\ ~ s.wantsPause
           a == [n EXCEPT !.loaded = TRUE, !.eof = FALSE, !.handled = FALSE,
                          !.dog = dog, !.quiet = Stall!Fresh,
                          !.slept = FALSE, !.buffering = late]
           b == IF a.buffering THEN Stall!MarkStalled(a) ELSE a
           c == [b EXCEPT !.timer = TRUE]
<1>1. s \in StallItems
  BY DEF Watched
<1>2. Alike(n, s) /\ n \in StallItems
  BY <1>1, NoSeekAlike DEF Alike
<1>3. Stall!Loaded(s) = Stall!Refreshed(c)
  BY DEF Stall!Loaded
<1>4. late \in BOOLEAN /\ dog \in Stall!DogStates
  BY <1>1 DEF StallItems, Stall!DogStates
<1>5. /\ late => s.reported /\ dog = "monitoring"
      /\ ~ late => ~ s.reported \/ dog = "suspended"
      /\ dog \in {"suspended", "monitoring"}
  OBVIOUS
<1> HIDE DEF n, dog, late
<1>6. a \in StallItems
  BY <1>2, <1>4 DEF StallItems
<1>7. /\ a.loaded /\ ~ a.handled /\ a.dog = dog /\ a.buffering = late
      /\ a.reported = n.reported
  BY <1>2, <1>4 DEF StallItems
<1> HIDE DEF a
<1>8. /\ b \in StallItems
      /\ b.buffering = late /\ b.reported = s.reported
      /\ b.dog = IF late THEN "stalled" ELSE dog
  <2>1. CASE late
    <3>1. b = Stall!MarkStalled(a)
      BY <1>7, <2>1
    <3> HIDE DEF b
    <3> QED
      BY <1>2, <1>5, <1>6, <1>7, <2>1, <3>1, MarkedAs DEF Alike
  <2>2. CASE ~ late
    BY <1>2, <1>6, <1>7, <2>2 DEF Alike
  <2> QED
    BY <2>1, <2>2
<1> HIDE DEF b
<1>9. c \in StallItems
  BY <1>8 DEF StallItems
<1>10. /\ c.timer /\ c.buffering = b.buffering /\ c.reported = b.reported
       /\ c.dog = b.dog
  BY <1>8 DEF StallItems
<1> HIDE DEF c
<1>11. Watched(c)
  BY <1>4, <1>5, <1>8, <1>9, <1>10 DEF Watched, Shown, Stall!IsStalled
<1> QED
  BY <1>3, <1>9, <1>11, RefreshedAlike, AlikeWatched

LEMMA EofWatched ==
  ASSUME NEW s, Watched(s), NEW value \in BOOLEAN
  PROVE  Watched(Stall!EofSeen(s, value))
<1> DEFINE seen == [s EXCEPT !.eof = value]
           n == Stall!ResetStall(seen)
           r == [n EXCEPT !.handled = TRUE, !.cache = FALSE,
                          !.state = "ended"]
<1>1. s \in StallItems
  BY DEF Watched
<1>2. Alike(seen, s) /\ seen \in StallItems
  BY <1>1 DEF Alike, StallItems
<1>3. \/ Stall!EofSeen(s, value) = r
      \/ Stall!EofSeen(s, value) = seen
  BY DEF Stall!EofSeen
<1> HIDE DEF seen
<1>4. n \in StallItems
  BY <1>2, ResetAs
<1> HIDE DEF n
<1>5. r \in StallItems /\ r.handled
  BY <1>4 DEF StallItems, Stall!ItemStates
<1> HIDE DEF r
<1> QED
  BY <1>2, <1>3, <1>5, NothingShown, AlikeWatched

LEMMA PauseSeenWatched ==
  ASSUME NEW s, Watched(s), NEW value \in BOOLEAN
  PROVE  Watched(Stall!PauseSeen(s, value))
<1> DEFINE k == [s EXCEPT !.paused = value, !.wantsPause = value]
<1>1. Alike(k, s)
  BY DEF Alike, StallItems, Watched
<1>2. Stall!PauseSeen(s, value) = Stall!PauseMonitored(k, value)
  BY DEF Stall!PauseSeen
<1> HIDE DEF k
<1> QED
  BY <1>1, <1>2, AlikeWatched, PauseWatched

LEMMA CacheWatched ==
  ASSUME NEW s, Watched(s), NEW value \in BOOLEAN
  PROVE  Watched(Stall!Refreshed([s EXCEPT !.cache = value]))
<1> DEFINE k == [s EXCEPT !.cache = value]
<1>1. Alike(k, s) /\ k \in StallItems
  BY DEF Alike, StallItems, Watched
<1> HIDE DEF k
<1>2. Watched(Stall!Refreshed(k))
  BY <1>1, AlikeWatched, RefreshedAlike
<1> QED
  BY <1>2 DEF k

\* Every report of libmpv's, whatever load it is about.
LEMMA HandledWatched ==
  ASSUME NEW s, Watched(s), NEW r \in Stall!Reports
  PROVE  Watched(Stall!Handled(s, r))
<1>1. s \in StallItems
  BY DEF Watched
<1>2. CASE r = "loaded"
  BY <1>2, LoadedWatched DEF Stall!Handled
<1>3. CASE r = "stopped"
  BY <1>3, EndedWatched DEF Stall!Handled, Stall!ItemStates
<1>4. CASE r = "failed"
  BY <1>4, EndedWatched DEF Stall!Handled, Stall!ItemStates
<1>5. CASE r = "seeks"
  <2>1. Stall!Handled(s, r) = IF s.loaded THEN Stall!SeekStarted(s) ELSE s
    BY <1>5 DEF Stall!Handled
  <2> QED
    BY <1>1, <2>1, SeekStartedAlike, AlikeWatched
<1>6. CASE r = "restarts"
  <2>1. Stall!Handled(s, r) = IF s.loaded THEN Stall!Restarted(s) ELSE s
    BY <1>6 DEF Stall!Handled
  <2> QED
    BY <1>1, <2>1, RestartedAlike, AlikeWatched
<1>7. CASE r = "advances"
  BY <1>7, ObservedWatched DEF Stall!Handled
<1>8. CASE r = "stands"
  BY <1>8, ObservedWatched DEF Stall!Handled
<1>9. CASE r = "pauses"
  BY <1>9, PauseSeenWatched DEF Stall!Handled
<1>10. CASE r = "resumes"
  BY <1>10, PauseSeenWatched DEF Stall!Handled
<1>11. CASE r = "starves"
  BY <1>11, CacheWatched DEF Stall!Handled
<1>12. CASE r = "feeds"
  BY <1>12, CacheWatched DEF Stall!Handled
<1>13. CASE r = "eof"
  BY <1>13, EofWatched DEF Stall!Handled
<1>14. CASE r = "rewinds"
  BY <1>14, EofWatched DEF Stall!Handled
<1> QED
  BY <1>2, <1>3, <1>4, <1>5, <1>6, <1>7, <1>8, <1>9, <1>10, <1>11, <1>12,
     <1>13, <1>14 DEF Stall!Reports

LEMMA SoughtWatched ==
  ASSUME NEW s, Watched(s)
  PROVE  Watched(Stall!Sought(s))
<1> DEFINE b == Stall!BeginSeek(s)
           k == [b EXCEPT !.timer = TRUE]
<1>1. Stall!Sought(s) = k \/ Stall!Sought(s) = s
  BY DEF Stall!Sought
<1>2. Alike(b, s)
  BY BeginSeekAlike DEF Watched
<1>3. Watched(b) /\ b \in StallItems
  BY <1>2, AlikeWatched DEF Alike
<1> HIDE DEF b
<1>4. /\ k \in StallItems /\ k.timer
      /\ k.loaded = b.loaded /\ k.handled = b.handled /\ k.dog = b.dog
      /\ k.buffering = b.buffering /\ k.reported = b.reported
  BY <1>3 DEF StallItems
<1> HIDE DEF k
<1>5. Watched(k)
  BY <1>3, <1>4 DEF Watched, Shown, Stall!IsStalled
<1> QED
  BY <1>1, <1>5

LEMMA PolledLoadWatched ==
  ASSUME NEW s, Watched(s), ~ s.loaded
  PROVE  Watched(Stall!PolledLoad(s))
<1> DEFINE a == [s EXCEPT !.slept = FALSE, !.late = FALSE]
           b == [s EXCEPT !.reported = TRUE]
<1>1. \/ Stall!PolledLoad(s) = a
      \/ Stall!PolledLoad(s) = b
      \/ Stall!PolledLoad(s) = s
  BY DEF Stall!PolledLoad
<1>2. a \in StallItems /\ ~ a.loaded
  BY DEF Watched, StallItems
<1>3. b \in StallItems /\ ~ b.loaded
  BY DEF Watched, StallItems
<1> HIDE DEF a, b
<1> QED
  BY <1>1, <1>2, <1>3, NothingShown

LEMMA PolledFileWatched ==
  ASSUME NEW s, Watched(s)
  PROVE  Watched(Stall!PolledFile(s))
<1>1. \/ Stall!PolledFile(s) = s
      \/ Stall!PolledFile(s) = Stall!Normalized(s)
      \/ Stall!PolledFile(s) = Stall!Judged(s)
  BY DEF Stall!PolledFile
<1>2. Watched(Stall!Normalized(s))
  BY NormalizedAlike, AlikeWatched DEF Watched
<1> QED
  BY <1>1, <1>2, JudgedWatched

-----------------------------------------------------------------------------
StallShape ==
  /\ core \in {"idle", "opening", "playing"}
  /\ inbox \in Seq(Stall!Reports)
  /\ Len(inbox) <= MaxInbox
  /\ stalls \in 0 .. MaxStalls

\* The inductive invariant of the watch.
StallInv == StallShape /\ Watched(watched)

LEMMA StallConstants == MaxStalls \in Nat /\ MaxInbox \in Nat
BY PartsAssumption DEF Stall!StallAssumption

LEMMA StallStarts == ASSUME Stall!Init PROVE StallInv
<1>1. watched \in StallItems /\ ~ watched.loaded
  <2>1. watched \in StallItems
    BY DEF Stall!Init, StallItems, Stall!ItemStates, Stall!DogStates
  <2>2. watched.loaded = FALSE
    BY DEF Stall!Init
  <2> QED
    BY <2>1, <2>2
<1>2. inbox = <<>> /\ core = "idle" /\ stalls = 0
  BY DEF Stall!Init
<1>3. StallShape
  BY <1>2, StallConstants DEF StallShape
<1> QED
  BY <1>1, <1>3, NothingShown DEF StallInv

LEMMA StallEventCounts ==
  ASSUME stalls \in 0 .. MaxStalls, Stall!Event
  PROVE  stalls' \in 0 .. MaxStalls
BY StallConstants DEF Stall!Event

\* There is room for one more report.
LEMMA ReportFits ==
  ASSUME StallShape, Len(inbox) < MaxInbox, NEW r \in Stall!Reports
  PROVE  /\ Stall!Report(r) \in Seq(Stall!Reports)
         /\ Len(Stall!Report(r)) <= MaxInbox
BY StallConstants DEF StallShape, Stall!Report

LEMMA GivesUpFits ==
  ASSUME StallShape, Len(inbox) < MaxInbox
  PROVE  /\ Stall!GivesUp \in Seq(Stall!Reports)
         /\ Len(Stall!GivesUp) <= MaxInbox
<1>1. /\ Stall!Report("stopped") \in Seq(Stall!Reports)
      /\ Len(Stall!Report("stopped")) <= MaxInbox
  BY ReportFits DEF Stall!Reports
<1>2. inbox \in Seq(Stall!Reports) /\ Len(inbox) <= MaxInbox
  BY DEF StallShape
<1> QED
  BY <1>1, <1>2 DEF Stall!GivesUp

LEMMA StallKept ==
  ASSUME StallInv, [Stall!Next]_stallVars
  PROVE  StallInv'
<1>1. StallShape /\ Watched(watched) /\ watched \in StallItems
  BY DEF StallInv, Watched
<1>2. stalls \in 0 .. MaxStalls /\ inbox \in Seq(Stall!Reports)
      /\ Len(inbox) <= MaxInbox /\ core \in {"idle", "opening", "playing"}
  BY <1>1 DEF StallShape
<1>3. CASE Stall!Open
  <2>1. /\ Stall!Event /\ Len(inbox) < MaxInbox /\ core' = "opening"
        /\ watched' = Stall!Opened(watched) /\ inbox' = Stall!GivesUp
    BY <1>3 DEF Stall!Open
  <2>2. StallShape'
    BY <1>1, <1>2, <2>1, StallEventCounts, GivesUpFits DEF StallShape
  <2> QED
    BY <1>1, <2>1, <2>2, OpenedWatched DEF StallInv
<1>4. CASE Stall!StopPlayback
  <2>1. /\ Stall!Event /\ Len(inbox) < MaxInbox /\ core' = "idle"
        /\ watched' = Stall!Stopped(watched) /\ inbox' = Stall!GivesUp
    BY <1>4 DEF Stall!StopPlayback
  <2>2. StallShape'
    BY <1>1, <1>2, <2>1, StallEventCounts, GivesUpFits DEF StallShape
  <2> QED
    BY <1>1, <2>1, <2>2, StoppedWatched DEF StallInv
<1>5. CASE Stall!Seek
  <2>1. /\ Stall!Event /\ UNCHANGED <<core, inbox>>
        /\ watched' = Stall!Sought(watched)
    BY <1>5 DEF Stall!Seek
  <2>2. StallShape'
    BY <1>2, <2>1, StallEventCounts DEF StallShape
  <2> QED
    BY <1>1, <2>1, <2>2, SoughtWatched DEF StallInv
<1>6. ASSUME NEW paused \in BOOLEAN, NEW accepted \in BOOLEAN,
             Stall!SetPaused(paused, accepted)
      PROVE  StallInv'
  <2> DEFINE k == [watched EXCEPT !.wantsPause = paused]
             s == Stall!PauseMonitored(k, paused)
             b == [s EXCEPT !.wantsPause = s.paused]
             r == IF paused THEN "pauses" ELSE "resumes"
  <2>1. /\ Stall!Event /\ Len(inbox) < MaxInbox /\ UNCHANGED core
        /\ watched' = IF accepted THEN s
                      ELSE Stall!PauseMonitored(b, s.paused)
        /\ inbox' = IF accepted THEN Stall!Report(r) ELSE inbox
    BY <1>6 DEF Stall!SetPaused
  <2>2. r \in Stall!Reports
    BY DEF Stall!Reports
  <2>3. Alike(k, watched)
    BY <1>1 DEF Alike, StallItems
  <2> HIDE DEF k, r
  <2>4. Watched(s) /\ s \in StallItems
    BY <1>1, <2>3, AlikeWatched, PauseWatched DEF Watched
  <2> HIDE DEF s
  <2>5. s.paused \in BOOLEAN /\ Alike(b, s)
    BY <2>4 DEF Alike, StallItems
  <2> HIDE DEF b
  <2>6. Watched(Stall!PauseMonitored(b, s.paused))
    BY <2>4, <2>5, AlikeWatched, PauseWatched
  <2>7. StallShape'
    BY <1>1, <1>2, <2>1, <2>2, StallEventCounts, ReportFits DEF StallShape
  <2> QED
    BY <2>1, <2>4, <2>6, <2>7 DEF StallInv
<1>7. CASE Stall!CoreLoads
  <2>1. /\ Len(inbox) < MaxInbox /\ core' = "playing"
        /\ inbox' = Stall!Report("loaded") /\ UNCHANGED <<watched, stalls>>
    BY <1>7 DEF Stall!CoreLoads
  <2>2. StallShape'
    BY <1>1, <1>2, <2>1, ReportFits DEF StallShape, Stall!Reports
  <2> QED
    BY <1>1, <2>1, <2>2 DEF StallInv
<1>8. CASE Stall!CoreFails
  <2>1. /\ Stall!Event /\ Len(inbox) < MaxInbox /\ core' = "idle"
        /\ inbox' = Stall!Report("failed") /\ UNCHANGED watched
    BY <1>8 DEF Stall!CoreFails
  <2>2. "failed" \in Stall!Reports
    BY DEF Stall!Reports
  <2>3. StallShape'
    BY <1>1, <1>2, <2>1, <2>2, StallEventCounts, ReportFits DEF StallShape
  <2> QED
    BY <1>1, <2>1, <2>3 DEF StallInv
<1>9. ASSUME NEW r \in Stall!Reports, Stall!CoreReports(r)
      PROVE  StallInv'
  <2>1. /\ Stall!Event /\ Len(inbox) < MaxInbox
        /\ inbox' = Stall!Report(r) /\ UNCHANGED <<watched, core>>
    BY <1>9 DEF Stall!CoreReports
  <2>2. StallShape'
    BY <1>1, <1>2, <2>1, <1>9, StallEventCounts, ReportFits DEF StallShape
  <2> QED
    BY <1>1, <2>1, <2>2 DEF StallInv
<1>10. CASE Stall!DrainEvents
  <2>1. /\ inbox # <<>> /\ inbox' = Tail(inbox)
        /\ watched' = Stall!Handled(watched, Head(inbox))
        /\ UNCHANGED <<core, stalls>>
    BY <1>10 DEF Stall!DrainEvents
  <2>2. Head(inbox) \in Stall!Reports
    BY <1>2, <2>1
  <2>3. inbox' \in Seq(Stall!Reports) /\ Len(inbox') <= MaxInbox
    BY <1>2, <2>1, StallConstants
  <2>4. StallShape'
    BY <1>2, <2>1, <2>3 DEF StallShape
  <2> QED
    BY <1>1, <2>1, <2>2, <2>4, HandledWatched DEF StallInv
<1>11. CASE Stall!Tick
  <2> DEFINE q == IF watched.quiet = Stall!Fresh THEN Stall!Silent
                  ELSE Stall!Hopeless
             a == [watched EXCEPT !.quiet = q]
             b == [watched EXCEPT !.late = TRUE]
  <2>1. /\ watched' = IF watched.loaded THEN a ELSE b
        /\ UNCHANGED <<core, inbox, stalls>>
    BY <1>11 DEF Stall!Tick
  <2>2. q \in {Stall!Fresh, Stall!Silent, Stall!Hopeless}
    OBVIOUS
  <2> HIDE DEF q
  <2>3. Alike(a, watched) /\ Alike(b, watched)
    BY <1>1, <2>2 DEF Alike, StallItems
  <2> HIDE DEF a, b
  <2> QED
    BY <1>1, <2>1, <2>3, AlikeWatched DEF StallInv, StallShape
<1>12. CASE Stall!Sleep
  <2>1. /\ Stall!Event /\ UNCHANGED <<core, inbox>>
        /\ watched' = [watched EXCEPT !.slept = TRUE]
    BY <1>12 DEF Stall!Sleep
  <2>2. Alike(watched', watched)
    BY <1>1, <2>1 DEF Alike, StallItems
  <2>3. StallShape'
    BY <1>2, <2>1, StallEventCounts DEF StallShape
  <2> QED
    BY <1>1, <2>2, <2>3, AlikeWatched DEF StallInv
<1>13. CASE Stall!PollPlaybackStall
  <2>1. /\ watched' = IF watched.loaded THEN Stall!PolledFile(watched)
                      ELSE Stall!PolledLoad(watched)
        /\ UNCHANGED <<core, inbox, stalls>>
    BY <1>13 DEF Stall!PollPlaybackStall
  <2>2. Watched(watched')
    BY <1>1, <2>1, PolledFileWatched, PolledLoadWatched
  <2> QED
    BY <1>1, <2>1, <2>2 DEF StallInv, StallShape
<1>14. CASE UNCHANGED stallVars
  BY <1>1, <1>14 DEF StallInv, StallShape, stallVars
<1> QED
  BY <1>3, <1>4, <1>5, <1>6, <1>7, <1>8, <1>9, <1>10, <1>11, <1>12, <1>13,
     <1>14 DEF Stall!Next

LEMMA StallPromises == ASSUME StallInv PROVE StallIsShown
BY DEF StallInv, Watched, Shown, StallIsShown, Stall!StallIsShown

-----------------------------------------------------------------------------
(* The application: a step is one of a component's, and leaves the others   *)
(* as they are.                                                             *)

\* No component disturbs another one's invariant.
LEMMA PlayerAlways == ApplicationSpec => []PlayerInv
<1>1. ApplicationInit => PlayerInv
  BY PlayerStarts DEF ApplicationInit
<1>2. PlayerInv /\ [ApplicationNext]_allVars => PlayerInv'
  <2>1. ASSUME PlayerInv, [ApplicationNext]_allVars
        PROVE  [Player!Next]_playerVars
    BY <2>1 DEF ApplicationNext, allVars, LifecycleAlone, PlayerAlone,
                StallAlone, playerVars
  <2> QED
    BY <2>1, PlayerKept
<1> QED
  BY <1>1, <1>2, PTL DEF ApplicationSpec

LEMMA StallAlways == ApplicationSpec => []StallInv
<1>1. ApplicationInit => StallInv
  BY StallStarts DEF ApplicationInit
<1>2. StallInv /\ [ApplicationNext]_allVars => StallInv'
  <2>1. ASSUME StallInv, [ApplicationNext]_allVars
        PROVE  [Stall!Next]_stallVars
    BY <2>1 DEF ApplicationNext, allVars, LifecycleAlone, PlayerAlone,
                StallAlone, stallVars
  <2> QED
    BY <2>1, StallKept
<1> QED
  BY <1>1, <1>2, PTL DEF ApplicationSpec

\* MpvVideoItem::finishConfigurationTransaction: whatever writes libmpv
\* refuses, and whatever is opened, configured or stopped while a transaction
\* runs, the profile that is shown as active is applied in full, and options
\* that are not remembered as touched have their baseline.
THEOREM OptionsAlwaysWhole == ApplicationSpec => []OptionsAreWhole
<1>1. PlayerInv => OptionsAreWhole
  BY PlayerPromises
<1> QED
  BY <1>1, PlayerAlways, PTL

\* MpvVideoItem::openWithConfig and dispatchPendingLoad: an open that waited,
\* for a transaction or for the renderer, never follows a newer one or a stop.
THEOREM NewestOpenAlwaysWins == ApplicationSpec => []NewestOpenWins
<1>1. PlayerInv => NewestOpenWins
  BY PlayerPromises
<1> QED
  BY <1>1, PlayerAlways, PTL

\* MpvVideoItem::pollPlaybackStall and the handlers of libmpv's events: in
\* whatever order seeks, pauses, sleeps and late events come, a stall is shown
\* exactly while there is one, and a reported timeout keeps its recovery.
THEOREM StallAlwaysShown == ApplicationSpec => []StallIsShown
<1>1. StallInv => StallIsShown
  BY StallPromises
<1> QED
  BY <1>1, StallAlways, PTL
=============================================================================
