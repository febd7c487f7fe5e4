--------------------------- MODULE SessionLifecycle ---------------------------
(***************************************************************************)
(* A change of account on the desktop: SessionViewModel asks,               *)
(* SessionCoordinator runs login_emby or logout_emby on the control thread, *)
(* and DesktopBackendServices fences the feature coordinators before it and *)
(* reopens them after it.  Signals are direct calls, so a turn of the UI    *)
(* thread is a sequence of small steps between which a handler may call     *)
(* back: it may ask for another change of account, and it may start calls   *)
(* of the features that are open.  A feature is reduced to its fence, the   *)
(* session it serves and one call on a worker thread.                       *)
(*                                                                          *)
(* An account is named by the request that installed it, or by 0.           *)
(***************************************************************************)
EXTENDS Integers

CONSTANTS FeatureCount,   \* features, numbered in the order of fenceFeatures
          MaxRequests     \* bound: logins and logouts asked for

ASSUME FeaturesAssumption == FeatureCount \in Nat \ {0}
ASSUME RequestsAssumption == MaxRequests \in Nat

Feature == 1..FeatureCount
Requests == 1..MaxRequests
Accounts == 0..MaxRequests
Generations == 1..(MaxRequests + 1)

VARIABLES asked,        \* requests made so far
          pending,      \* SessionViewModel: the request it waits for, or 0
          operation,    \* m_operationRequestId of m_operation, or 0
          connected,    \* m_connected
          generation,   \* m_generation
          transition,   \* transitionRequestId of the composition root, or 0
          closing,      \* shuttingDown
          fenced,       \* m_sessionFenced of each feature
          serves,       \* the generation each feature has committed
          turn,         \* the UI turn under way: stage and next feature
          outer,        \* the turn it was called from
          control,      \* the control thread
          account,      \* the account active in Rust
          accountOf,    \* the account each generation stands for
          call          \* the call of each feature

lifecycle == <<asked, pending, operation, connected, generation, transition,
               closing, accountOf>>
features == <<fenced, serves, call>>
vars == <<lifecycle, features, turn, outer, control, account>>

Stages == {"idle", "fence", "launch", "commit", "abort", "answer", "answered"}
Turns == [stage : Stages, next : 1..(FeatureCount + 1), request : Accounts]
Idle == [stage |-> "idle", next |-> 1, request |-> 0]
Kinds == {"login", "logout"}
NoCall == [state |-> "none", generation |-> 1, account |-> 0, valid |-> FALSE]
NoWork == [state |-> "none", kind |-> "login", request |-> 0, ok |-> FALSE]

TypeOK ==
  /\ asked \in Accounts /\ pending \in Accounts /\ operation \in Accounts
  /\ connected \in BOOLEAN /\ generation \in Generations
  /\ transition \in Accounts /\ closing \in BOOLEAN
  /\ fenced \in [Feature -> BOOLEAN] /\ serves \in [Feature -> Generations]
  /\ turn \in Turns /\ outer \in Turns
  /\ control \in [state : {"none", "running", "done"}, kind : Kinds,
                  request : Accounts, ok : BOOLEAN]
  /\ account \in Accounts /\ accountOf \in [Generations -> Accounts]
  /\ call \in [Feature -> [state : {"none", "asked", "read"},
                           generation : Generations, account : Accounts,
                           valid : BOOLEAN]]

\* After start-up: the session restored from disk, if any, is generation 1.
Init ==
  /\ asked = 0 /\ pending = 0 /\ operation = 0
  /\ connected \in BOOLEAN /\ generation = 1
  /\ transition = 0 /\ closing = FALSE
  /\ fenced = [f \in Feature |-> FALSE] /\ serves = [f \in Feature |-> 1]
  /\ turn = Idle /\ outer = Idle
  /\ control = NoWork
  /\ account = 0 /\ accountOf = [g \in Generations |-> 0]
  /\ call = [f \in Feature |-> NoCall]

-----------------------------------------------------------------------------
(* Asking for a change of account.                                          *)

Begin(stage, request) == [stage |-> stage, next |-> 1, request |-> request]
Next(t) == [t EXCEPT !.next = t.next + 1]

\* startOperation: the operation is set before transitionStarted is emitted.
StartOperation(kind, request) ==
  /\ operation' = request
  /\ transition' = request
  /\ turn' = Begin("fence", request)
  /\ outer' = turn
  /\ control' = [state |-> "none", kind |-> kind, request |-> request,
                 ok |-> FALSE]

\* SessionViewModel and SessionCoordinator::login, logout: between turns, or
\* from a handler.  A rejected request is answered at once.
Ask(kind) ==
  /\ asked < MaxRequests /\ outer = Idle
  /\ pending = 0
  /\ asked' = asked + 1
  /\ IF closing \/ operation # 0 \/ (kind = "logout" /\ ~connected)
       THEN UNCHANGED <<pending, operation, transition, turn, outer, control>>
       ELSE pending' = asked + 1 /\ StartOperation(kind, asked + 1)
  /\ UNCHANGED <<connected, generation, closing, accountOf, features, account>>

\* fenceFeatures: the feature gives up its call, and takes no other.
FenceFeature ==
  /\ turn.stage = "fence"
  /\ fenced' = [fenced EXCEPT ![turn.next] = TRUE]
  /\ call' = [call EXCEPT ![turn.next].valid = FALSE]
  /\ turn' = IF turn.next = FeatureCount
               THEN Begin("launch", turn.request) ELSE Next(turn)
  /\ UNCHANGED <<lifecycle, serves, outer, control, account>>

\* Only then is the work handed to the control thread.
Launch ==
  /\ turn.stage = "launch"
  /\ control' = [control EXCEPT !.state = "running"]
  /\ turn' = outer /\ outer' = Idle
  /\ UNCHANGED <<lifecycle, features, account>>

-----------------------------------------------------------------------------
(* The control thread: EmbySession models login_emby and logout_emby.       *)

\* Slip: an account change that then fails in Rust is kept.
WorkCommitsAnyway ==
  /\ control.state = "running"
  /\ \E ok \in BOOLEAN :
       /\ control' = [control EXCEPT !.state = "done", !.ok = ok]
       /\ account' = control.request
  /\ UNCHANGED <<lifecycle, features, turn, outer>>

Work ==
  /\ control.state = "running"
  /\ \E ok \in BOOLEAN :
       /\ control' = [control EXCEPT !.state = "done", !.ok = ok]
       /\ account' = IF ok THEN control.request ELSE account
  /\ UNCHANGED <<lifecycle, features, turn, outer>>

-----------------------------------------------------------------------------
(* finishOperation.                                                         *)

\* What the composition root makes of the outcome: it commits the transition
\* under way, and aborts the one of the same request.
Outcome(ok) ==
  Begin(IF ok /\ transition # 0 THEN "commit"
        ELSE IF ~ok /\ transition = operation THEN "abort" ELSE "answer",
        operation)

\* Success: the new generation is published, and committed while the
\* operation is still busy.  Failure: the operation ends first.
FinishOperation ==
  /\ turn = Idle /\ control.state = "done"
  /\ control' = [control EXCEPT !.state = "none"]
  /\ IF operation = 0
       THEN UNCHANGED <<operation, connected, generation, accountOf, turn>>
       ELSE IF control.ok
         THEN /\ generation' = generation + 1
              /\ connected' = (control.kind = "login")
              /\ accountOf' = [accountOf EXCEPT ![generation + 1] = account]
              /\ turn' = Outcome(TRUE)
              /\ operation' = operation
         ELSE /\ turn' = Outcome(FALSE)
              /\ operation' = 0
              /\ UNCHANGED <<connected, generation, accountOf>>
  /\ UNCHANGED <<asked, pending, transition, closing, features, outer,
                 account>>

\* Slip: the feature opens before it has adopted the generation.
CommitFeatureLate ==
  /\ turn.stage = "commit"
  /\ serves' = IF turn.next = 1 THEN serves
               ELSE [serves EXCEPT ![turn.next - 1] = generation]
  /\ fenced' = [fenced EXCEPT ![turn.next] = FALSE]
  /\ IF turn.next = FeatureCount
       THEN turn' = Begin("answer", turn.request) /\ transition' = 0
       ELSE turn' = Next(turn) /\ transition' = transition
  /\ UNCHANGED <<asked, pending, operation, connected, generation, closing,
                 accountOf, call, outer, control, account>>

\* commitSessionTransition: a feature adopts the new generation and opens.
CommitFeature ==
  /\ turn.stage = "commit"
  /\ serves' = [serves EXCEPT ![turn.next] = generation]
  /\ fenced' = [fenced EXCEPT ![turn.next] = FALSE]
  /\ IF turn.next = FeatureCount
       THEN turn' = Begin("answer", turn.request) /\ transition' = 0
       ELSE turn' = Next(turn) /\ transition' = transition
  /\ UNCHANGED <<asked, pending, operation, connected, generation, closing,
                 accountOf, call, outer, control, account>>

\* abortSessionTransition: a feature opens again for the session it had.
AbortFeature ==
  /\ turn.stage = "abort"
  /\ fenced' = [fenced EXCEPT ![turn.next] = FALSE]
  /\ IF turn.next = FeatureCount
       THEN turn' = Begin("answer", turn.request) /\ transition' = 0
       ELSE turn' = Next(turn) /\ transition' = transition
  /\ UNCHANGED <<asked, pending, operation, connected, generation, closing,
                 accountOf, serves, call, outer, control, account>>

\* The operation is over, and the view model hears of it.
Answer ==
  /\ turn.stage = "answer"
  /\ operation' = IF operation = turn.request THEN 0 ELSE operation
  /\ pending' = IF pending = turn.request THEN 0 ELSE pending
  /\ turn' = Begin("answered", turn.request)
  /\ UNCHANGED <<asked, connected, generation, transition, closing, accountOf,
                 features, outer, control, account>>

\* The last stateChanged; then the handlers of the turn have returned.
EndTurn ==
  /\ turn.stage = "answered"
  /\ turn' = outer /\ outer' = Idle
  /\ UNCHANGED <<lifecycle, features, control, account>>

\* Slip: SessionCoordinator::shutdown drops the operation silently.
ShutdownSilently ==
  /\ turn = Idle /\ ~closing
  /\ closing' = TRUE
  /\ fenced' = [f \in Feature |-> TRUE]
  /\ call' = [f \in Feature |-> [call[f] EXCEPT !.valid = FALSE]]
  /\ operation' = 0
  /\ UNCHANGED <<asked, pending, connected, generation, transition, accountOf,
                 serves, turn, outer, control, account>>

\* DesktopBackendServices::shutdown: the features stop, then the session
\* fails its operation.  The control thread goes on until it is drained.
Shutdown ==
  /\ turn = Idle /\ ~closing
  /\ closing' = TRUE
  /\ fenced' = [f \in Feature |-> TRUE]
  /\ call' = [f \in Feature |-> [call[f] EXCEPT !.valid = FALSE]]
  /\ operation' = 0
  /\ pending' = IF pending = operation THEN 0 ELSE pending
  /\ UNCHANGED <<asked, connected, generation, transition, accountOf, serves,
                 turn, outer, control, account>>

-----------------------------------------------------------------------------
(* Calls of the features.                                                   *)

\* A connected, open feature starts a call, between turns or from a handler.
Request(f) ==
  /\ ~fenced[f] /\ connected /\ call[f].state = "none"
  /\ call' = [call EXCEPT ![f] = [state |-> "asked", generation |-> generation,
                                  account |-> 0, valid |-> TRUE]]
  /\ UNCHANGED <<lifecycle, fenced, serves, turn, outer, control, account>>

\* Its worker takes the client of the account that is active then.
ReadAccount(f) ==
  /\ call[f].state = "asked"
  /\ call' = [call EXCEPT ![f] = [@ EXCEPT !.state = "read",
                                          !.account = account]]
  /\ UNCHANGED <<lifecycle, fenced, serves, turn, outer, control, account>>

\* The answer comes in a later turn, and is dropped or shown.
Deliver(f) ==
  /\ turn = Idle /\ call[f].state = "read"
  /\ call' = [call EXCEPT ![f] = NoCall]
  /\ UNCHANGED <<lifecycle, fenced, serves, turn, outer, control, account>>

-----------------------------------------------------------------------------
TurnStep == FenceFeature \/ Launch \/ CommitFeature \/ AbortFeature \/ Answer
              \/ EndTurn
FeatureStep == \E f \in Feature : Request(f) \/ ReadAccount(f) \/ Deliver(f)

Step ==
  \/ \E kind \in Kinds : Ask(kind)
  \/ TurnStep \/ Work \/ FinishOperation \/ Shutdown \/ FeatureStep

Spec == Init /\ [][Step]_vars

\* A turn runs to its end, the control thread returns, and its watcher's
\* finished signal is delivered.
Fairness == WF_vars(TurnStep) /\ WF_vars(Work) /\ WF_vars(FinishOperation)

FairSpec == Spec /\ Fairness

-----------------------------------------------------------------------------
\* While Rust may be changing the account no feature is open, whatever the
\* handlers of the transition's own signals do (docs/ARCHITECTURE.md:131).
FencedWhileAccountChanges ==
  control.state # "none" => \A f \in Feature : fenced[f]

\* A feature that is open serves the published generation: one that missed
\* the commit would show the old account's data as the new one's
\* (DesktopBackendServices.cpp:252-265).
OpenFeatureIsCurrent ==
  \A f \in Feature : ~fenced[f] => serves[f] = generation

\* A result a feature can still accept came from the account its generation
\* stands for, however late it is (docs/ARCHITECTURE.md:212).
ResultIsOfItsAccount ==
  \A f \in Feature :
    call[f].state = "read" /\ call[f].valid =>
      call[f].account = accountOf[call[f].generation]

\* Every request is answered, also when the application closes in its middle:
\* the page waits on it (SessionCoordinator.cpp:75-99).
RequestIsAnswered == pending # 0 ~> pending = 0
=============================================================================
