------------------------------ MODULE MpvVideoItem --------------------------
(***************************************************************************)
(* MpvVideoItem.cpp, the owner of libmpv: how a file is opened under an    *)
(* upscaling configuration.  A configuration is a transaction of property  *)
(* writes, one in flight at a time: first every option goes back to its    *)
(* baseline, then the options of the profile are written.  A write that    *)
(* fails rolls the transaction back.  While one runs, a new file waits     *)
(* (deferred), a new configuration waits (queued), and the file of the     *)
(* open that began it waits (target) to be loaded.                         *)
(*                                                                         *)
(* The item lives on the GUI thread, where handlers call each other in one *)
(* turn; they are operators from a record of its fields to the records     *)
(* the turn may end with.  libmpv is the mpv half: the properties it has   *)
(* applied and its replies.  The watch over a file that plays is modelled  *)
(* in PlaybackStall.                                                       *)
(***************************************************************************)
EXTENDS Naturals, Sequences, FiniteSets

CONSTANTS
  Files,       \* what can be opened
  Profiles,    \* the valid upscaling profiles
  Options,     \* the libmpv options that upscaling touches
  Uses,        \* the options a profile writes
  Lower,       \* the next of the profile's fallbacks, None after the last
  Restores,    \* the order in which the baseline is written
  Targets,     \* the order in which a profile's options are written
  MaxEvents,   \* bound: what users, the scene graph and the health poll do
  None

Off  == "off"    \* a valid configuration that is not enabled
Bad  == "bad"    \* one the validation refuses
Base == "base"   \* the value an option had before any upscaling
Stop == "stop"

Configs == Profiles \cup {Off, Bad}

Transactions ==
  [config : Configs, next : Nat \ {0}, rolling : BOOLEAN, failed : BOOLEAN,
   cancelled : BOOLEAN]

Requests == [file : Files, config : Configs]

PlayerAssumption ==
  /\ None \notin Files \cup Profiles \cup Transactions \cup Requests
  /\ Profiles \cap {Off, Bad, Base} = {}
  /\ Stop \notin Files
  /\ Uses \in [Profiles -> SUBSET Options]
  /\ Lower \in [Profiles -> Profiles \cup {None}]
  /\ Restores \in Seq(Options)
  /\ \A o \in Options : \E i \in DOMAIN Restores : Restores[i] = o
  /\ Targets \in [Profiles -> Seq(Options)]
  /\ \A p \in Profiles :
       Uses[p] = {Targets[p][i] : i \in DOMAIN Targets[p]}
  /\ MaxEvents \in Nat

VARIABLES
  item,    \* the fields of MpvVideoItem
  props,   \* the value libmpv has for each option
  ready,   \* the scene graph has a render context
  posted,  \* a call of dispatchPendingLoad is queued to the GUI thread
  asked,   \* what the user asked for last: a file, or to stop
  events

vars == <<item, props, ready, posted, asked, events>>

Init ==
  /\ item = [pending |-> None, queued |-> None, deferred |-> None,
             target |-> None, waits |-> FALSE, dirty |-> FALSE,
             active |-> None, flight |-> <<>>, told |-> Stop]
  /\ props = [o \in Options |-> Base]
  /\ ready = FALSE
  /\ posted = FALSE
  /\ asked = Stop
  /\ events = 0

-----------------------------------------------------------------------------
\* The writes of a transaction: the baseline, and then, unless it rolls back
\* or turns upscaling off, the options of its profile.

Restored == Len(Restores)

Enables(t) == t.config \in Profiles /\ ~ t.rolling

Writes(t) == Restored + (IF Enables(t) THEN Len(Targets[t.config]) ELSE 0)

IsTarget(t) == t.next > Restored

NextWrite(t) ==
  IF IsTarget(t)
    THEN [option |-> Targets[t.config][t.next - Restored], value |-> t.config]
    ELSE [option |-> Restores[t.next], value |-> Base]

Begun(c) ==
  [config |-> c, next |-> 1, rolling |-> c = Bad, failed |-> FALSE,
   cancelled |-> FALSE]

RolledBack(t) == [t EXCEPT !.rolling = TRUE, !.next = 1]

-----------------------------------------------------------------------------
\* What happens within a turn of the GUI thread.

\* The load of the file that waits.
DispatchLoad(s) ==
  IF s.target # None /\ ~ s.waits /\ ready
    THEN [s EXCEPT !.told = s.target, !.target = None]
    ELSE s

\* Slip: the file that waited is not loaded when the transaction ends.
ContinueSlip(s) == [s EXCEPT !.waits = FALSE]

\* After a transaction, when no other file was asked for meanwhile.
Continue(s) ==
  IF s.waits THEN DispatchLoad([s EXCEPT !.waits = FALSE]) ELSE s

Complete(s) ==
  LET t == s.pending
  IN  Continue(
        [s EXCEPT
           !.pending = None,
           !.active = IF Enables(t) THEN t.config ELSE None,
           !.dirty  = IF t.rolling THEN s.dirty /\ t.failed
                                   ELSE t.config # Off])

\* Slip: that an option is touched is recorded only when all are written.
SentSlip(s) == [s EXCEPT !.flight = Append(s.flight, NextWrite(s.pending))]

\* The write that is next is handed to libmpv, which has accepted it.
Sent(s) ==
  [s EXCEPT !.flight = Append(s.flight, NextWrite(s.pending)),
            !.dirty  = s.dirty \/ IsTarget(s.pending)]

\* A rollback passes over the writes that libmpv does not accept.
Skipped(s, n) ==
  [s EXCEPT !.pending.next = n,
            !.pending.failed = s.pending.failed \/ n > s.pending.next]

Restoring(s) ==
  {IF r.pending.next > Restored THEN Complete(r) ELSE Sent(r) :
     r \in {Skipped(s, n) : n \in s.pending.next .. Restored + 1}}

\* libmpv may refuse a write at once; then the transaction rolls back.
DispatchNext(s) ==
  IF s.pending.next > Writes(s.pending) THEN {Complete(s)}
  ELSE IF s.pending.rolling THEN Restoring(s)
  ELSE {Sent(s)} \cup
         Restoring([s EXCEPT !.pending = RolledBack(s.pending),
                             !.dirty = s.dirty \/ IsTarget(s.pending)])

Rollback(s) == Restoring([s EXCEPT !.pending = RolledBack(s.pending)])

\* To turn off what is already off needs no transaction.
Begin(s, c) ==
  IF c = Off /\ ~ s.dirty
    THEN {Continue([s EXCEPT !.active = None])}
    ELSE DispatchNext([s EXCEPT !.pending = Begun(c), !.active = None])

\* Slip: a file that already waits keeps its place.
OpenNowSlip(s, f, c) ==
  {DispatchLoad(IF r.pending = None THEN [r EXCEPT !.waits = FALSE] ELSE r) :
     r \in Begin([s EXCEPT !.target = IF s.target = None THEN f ELSE s.target,
                           !.waits = TRUE], c)}

\* The load waits from before the configuration begins, so that one which
\* ends within this turn releases it.
OpenNow(s, f, c) ==
  {DispatchLoad(IF r.pending = None THEN [r EXCEPT !.waits = FALSE] ELSE r) :
     r \in Begin([s EXCEPT !.target = f, !.waits = TRUE], c)}

-----------------------------------------------------------------------------
\* What the user, the health poll and the scene graph do.

Event ==
  /\ events < MaxEvents
  /\ events' = events + 1

Open(f, c) ==
  /\ Event
  /\ asked' = f
  /\ IF item.pending # None
       THEN item' = [item EXCEPT !.deferred = [file |-> f, config |-> c]]
       ELSE item' \in OpenNow(item, f, c)
  /\ UNCHANGED <<props, ready, posted>>

Configure(c) ==
  /\ Event
  /\ IF item.pending = None THEN item' \in Begin(item, c)
     ELSE IF item.deferred # None
       THEN item' = [item EXCEPT !.deferred.config = c]
       ELSE item' = [item EXCEPT !.queued = c]
  /\ UNCHANGED <<props, ready, posted, asked>>

StopPlayback ==
  /\ Event
  /\ asked' = Stop
  /\ LET s == [item EXCEPT !.deferred = None, !.queued = None,
                           !.target = None, !.waits = FALSE]
         stopped(r) == [r EXCEPT !.active = None, !.told = Stop]
     IN  IF item.pending # None
           THEN item' = stopped([s EXCEPT !.pending.cancelled = TRUE])
           ELSE \E r \in Begin(s, Off) : item' = stopped(r)
  /\ UNCHANGED <<props, ready, posted>>

\* The protection of the performance measures what plays under a profile, and
\* may find at any time that it overloads the renderer.
MayOverload == item.active # None

\* Then the next lower profile is begun, or none.
Downgrade ==
  /\ Event
  /\ MayOverload
  /\ LET lower == Lower[item.active]
     IN  item' \in Begin(item, IF lower = None THEN Off ELSE lower)
  /\ UNCHANGED <<props, ready, posted, asked>>

\* libmpv logs that a shader did not compile.
ShaderFails ==
  /\ Event
  /\ item.active # None
  /\ item' \in Begin(item, Off)
  /\ UNCHANGED <<props, ready, posted, asked>>

RendererLost ==
  /\ Event
  /\ ready
  /\ ready' = FALSE
  /\ UNCHANGED <<item, props, posted, asked>>

RendererReady ==
  /\ ~ ready
  /\ ready' = TRUE
  /\ posted' = TRUE
  /\ UNCHANGED <<item, props, asked, events>>

PendingLoad ==
  /\ posted
  /\ posted' = FALSE
  /\ item' = DispatchLoad(item)
  /\ UNCHANGED <<props, ready, asked, events>>

-----------------------------------------------------------------------------
\* The reply of libmpv to the oldest write.  Only the reply to the newest
\* one is that of the transaction.

Finish(s, ok) ==
  LET t == s.pending
  IN  IF s.deferred # None
        THEN OpenNow([s EXCEPT !.deferred = None, !.queued = None,
                               !.pending = None, !.target = None,
                               !.waits = FALSE],
                     s.deferred.file, s.deferred.config)
      ELSE IF s.queued # None
        THEN Begin([s EXCEPT !.queued = None, !.pending = None], s.queued)
      ELSE IF ~ t.rolling /\ (t.cancelled \/ ~ ok) THEN Rollback(s)
      ELSE DispatchNext([s EXCEPT !.pending.next = t.next + 1,
                                  !.pending.failed = t.failed \/ ~ ok])

Reply(ok) ==
  /\ item.flight # <<>>
  /\ UNCHANGED <<ready, posted, asked, events>>
  /\ LET w == Head(item.flight)
     IN  props' = IF ok THEN [props EXCEPT ![w.option] = w.value] ELSE props
  /\ \E s \in {[item EXCEPT !.flight = Tail(item.flight)]} :
       IF item.pending # None /\ Len(item.flight) = 1
         THEN item' \in Finish(s, ok)
         ELSE item' = s

Next ==
  \/ \E f \in Files, c \in Configs : Open(f, c)
  \/ \E c \in Configs : Configure(c)
  \/ StopPlayback
  \/ Downgrade
  \/ ShaderFails
  \/ RendererLost
  \/ RendererReady
  \/ PendingLoad
  \/ \E ok \in BOOLEAN : Reply(ok)

\* libmpv answers every write it accepts, the scene graph renders again after
\* a request for an update, and the GUI thread takes what is queued to it.
Fairness ==
  /\ WF_vars(\E ok \in BOOLEAN : Reply(ok))
  /\ WF_vars(RendererReady)
  /\ WF_vars(PendingLoad)

Spec == Init /\ [][Next]_vars /\ Fairness

-----------------------------------------------------------------------------
PlayerType ==
  /\ item \in
       [pending : Transactions \cup {None}, queued : Configs \cup {None},
        deferred : Requests \cup {None}, target : Files \cup {None},
        waits : BOOLEAN, dirty : BOOLEAN, active : Profiles \cup {None},
        flight : Seq([option : Options, value : Profiles \cup {Base}]),
        told : Files \cup {Stop}]
  /\ props \in [Options -> Profiles \cup {Base}]
  /\ ready \in BOOLEAN
  /\ posted \in BOOLEAN
  /\ asked \in Files \cup {Stop}
  /\ events \in 0 .. MaxEvents
  /\ item.deferred # None => item.pending # None

\* What libmpv has when a profile is in effect.
Effective(p) == [o \in Options |-> IF o \in Uses[p] THEN p ELSE Base]

\* libmpv never runs with a mixture of two option sets that the item takes
\* for a whole one: the profile it shows as active is applied in full, and
\* options it does not remember having touched are those of the baseline.
OptionsAreWhole ==
  /\ item.active # None => props = Effective(item.active)
  /\ ~ item.dirty => props = [o \in Options |-> Base]

\* The newest open or stop wins: what libmpv was told last is what the user
\* asked for last, unless that open still waits; an older one never follows.
NewestOpenWins ==
  asked = IF item.deferred # None THEN item.deferred.file
          ELSE IF item.target # None THEN item.target
          ELSE item.told

\* A file that was asked for is loaded, or no longer wanted.
OpensEnd ==
  (item.deferred # None \/ item.target # None)
    ~> (item.deferred = None /\ item.target = None)
=============================================================================
