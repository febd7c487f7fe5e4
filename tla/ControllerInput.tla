----------------------------- MODULE ControllerInput -------------------------
(***************************************************************************)
(* Gamepads, from the device to the application: the neutral gate and the  *)
(* press and release events of ControllerNavigation.cpp, and the input     *)
(* test of the settings in InputModalityController.cpp, which captures     *)
(* what is pressed while it runs.                                          *)
(*                                                                         *)
(* A control is a button or a direction of a stick that has passed its     *)
(* threshold.  The pads move between two polls; a poll looks at all of     *)
(* them, and the service and the page hear of every event within the poll. *)
(* A device is an instance id: a pad that is plugged in again is another   *)
(* one, or the same after the source has dropped it.                       *)
(***************************************************************************)
EXTENDS Naturals, FiniteSets

CONSTANTS
  Devices,
  Controls,
  Repeating,  \* the controls that repeat while they are held: directions
  Back,       \* the control by which the page leaves the test
  MaxEvents   \* bound: what users and devices do

InputAssumption ==
  /\ Repeating \subseteq Controls
  /\ Back \in Controls \ Repeating
  /\ MaxEvents \in Nat

VARIABLES
  plugged,   \* the devices that are there
  held,      \* per device, the controls that are held
  old,       \* of these, the ones held since before the application was
             \* active and the device was found
  focused,   \* the application is active
  slots,     \* the devices the source has found
  waits,     \* per device, m_awaitingNeutral
  pressed,   \* per device, what the source has reported as pressed
  test,      \* an input test runs
  captured,  \* per device, m_capturedControllerActions
  events

vars ==
  <<plugged, held, old, focused, slots, waits, pressed, test, captured,
    events>>

Init ==
  /\ plugged = {}
  /\ held = [d \in Devices |-> {}]
  /\ old = [d \in Devices |-> {}]
  /\ focused = FALSE
  /\ slots = {}
  /\ waits = [d \in Devices |-> TRUE]
  /\ pressed = [d \in Devices |-> {}]
  /\ test = FALSE
  /\ captured = [d \in Devices |-> {}]
  /\ events = 0

Event ==
  /\ events < MaxEvents
  /\ events' = events + 1

-----------------------------------------------------------------------------
\* The devices.

PlugIn(d) ==
  /\ Event
  /\ d \notin plugged \cup slots
  /\ plugged' = plugged \cup {d}
  /\ UNCHANGED
       <<held, old, focused, slots, waits, pressed, test, captured>>

\* A device that is gone reads as neutral.
Unplug(d) ==
  /\ Event
  /\ d \in plugged
  /\ plugged' = plugged \ {d}
  /\ held' = [held EXCEPT ![d] = {}]
  /\ old' = [old EXCEPT ![d] = {}]
  /\ UNCHANGED <<focused, slots, waits, pressed, test, captured>>

Hold(d, c) ==
  /\ Event
  /\ d \in plugged
  /\ c \notin held[d]
  /\ held' = [held EXCEPT ![d] = @ \cup {c}]
  /\ old' = IF focused /\ d \in slots THEN old
            ELSE [old EXCEPT ![d] = @ \cup {c}]
  /\ UNCHANGED <<plugged, focused, slots, waits, pressed, test, captured>>

LetGo(d, c) ==
  /\ c \in held[d]
  /\ held' = [held EXCEPT ![d] = @ \ {c}]
  /\ old' = [old EXCEPT ![d] = @ \ {c}]
  /\ UNCHANGED
       <<plugged, focused, slots, waits, pressed, test, captured, events>>

-----------------------------------------------------------------------------
\* What the service does with the events of a turn: presses and repeats that
\* a test hears are captured, and so is all that follows until the release.

\* Slip: while a test runs, a release does not end what was captured.
CapturedAfterSlip(d, came, went, hears) ==
  (captured[d] \ (IF test THEN {} ELSE went))
    \cup {c \in came : <<d, c>> \in hears}

CapturedAfter(d, came, went, hears) ==
  (captured[d] \ went) \cup {c \in came : <<d, c>> \in hears}

-----------------------------------------------------------------------------
\* The source.

\* What is pressed is released, and nothing acts until it was let go of.
ResetInputStates ==
  /\ pressed' = [d \in Devices |-> {}]
  /\ waits' = [d \in Devices |-> TRUE]
  /\ captured' = [d \in Devices |-> CapturedAfter(d, {}, pressed[d], {})]

\* The application comes to the front or leaves it.
HandleApplicationStateChanged(active) ==
  /\ Event
  /\ active # focused
  /\ focused' = active
  /\ ResetInputStates
  /\ old' = held
  /\ UNCHANGED <<plugged, held, slots, test>>

\* A scan that is not due, or that fails, keeps the devices; one that
\* succeeds drops those that are gone and opens what it can.
Scanned == {slots} \cup {s \in SUBSET plugged : slots \cap plugged \subseteq s}

\* Slip: a device that was just found acts at once.
StillWaitsSlip(d) == d \in slots /\ waits[d] /\ held[d] # {}

\* The gate opens at the first look that finds nothing held.
StillWaits(d) == (d \in slots => waits[d]) /\ held[d] # {}

\* The look at a device that is there; at the first, or while it waits, it
\* reports nothing.
PressedNow(d, found) ==
  IF d \notin found \/ StillWaits(d) THEN {}
  ELSE IF d \notin slots \/ waits[d] THEN {}
  ELSE held[d]

\* What each device reports, and the presses and repeats among it.
Now(found)   == [d \in Devices |-> PressedNow(d, found)]
Presses(now) == {e \in Devices \X Controls : e[2] \in now[e[1]] \ pressed[e[1]]}
Repeats(now) ==
  {e \in Devices \X Repeating : e[2] \in now[e[1]] \cap pressed[e[1]]}
OfDevice(d, es) == {c \in Controls : <<d, c>> \in es}

\* The look at all devices, of whose events es the test hears some.
Look(found, now, es, hears) ==
  /\ captured' = [d \in Devices |->
                    CapturedAfter(d, OfDevice(d, es), pressed[d] \ now[d], hears)]
  /\ pressed' = now
  /\ waits' = [d \in Devices |-> d \in found => StillWaits(d)]
  /\ slots' = found
  /\ old' = [d \in Devices |-> IF d \in found \ slots THEN held[d] ELSE old[d]]

\* The test ends at the first press of Back: the events before it, early, are
\* the test's, and so is that press.
Heard(es, exits, early) ==
  /\ early \subseteq es
  /\ ~ test => early = {}
  /\ test /\ exits = {} => early = es
  /\ test /\ exits # {} => Cardinality(early \cap exits) = 1
  /\ test' = (test /\ exits = {})

Poll ==
  /\ focused
  /\ \E found \in Scanned :
       LET fresh == Presses(Now(found))
           exits == {e \in fresh : e[2] = Back}
       IN  \E again \in SUBSET Repeats(Now(found)),
              early \in SUBSET (Devices \X Controls) :
             /\ Heard(fresh \cup again, exits, early)
             /\ Look(found, Now(found), fresh \cup again, early)
  /\ UNCHANGED <<plugged, held, focused, events>>

-----------------------------------------------------------------------------
\* The settings page.

AcquireControllerInputTest ==
  /\ Event
  /\ ~ test
  /\ test' = TRUE
  /\ UNCHANGED
       <<plugged, held, old, focused, slots, waits, pressed, captured>>

ReleaseControllerInputTest ==
  /\ test
  /\ test' = FALSE
  /\ UNCHANGED
       <<plugged, held, old, focused, slots, waits, pressed, captured, events>>

Next ==
  \/ \E d \in Devices : PlugIn(d) \/ Unplug(d)
  \/ \E d \in Devices, c \in Controls : Hold(d, c) \/ LetGo(d, c)
  \/ \E active \in BOOLEAN : HandleApplicationStateChanged(active)
  \/ Poll
  \/ AcquireControllerInputTest
  \/ ReleaseControllerInputTest

Spec == Init /\ [][Next]_vars

-----------------------------------------------------------------------------
InputType ==
  /\ plugged \subseteq Devices
  /\ held \in [Devices -> SUBSET Controls]
  /\ old \in [Devices -> SUBSET Controls]
  /\ focused \in BOOLEAN
  /\ slots \subseteq Devices
  /\ waits \in [Devices -> BOOLEAN]
  /\ pressed \in [Devices -> SUBSET Controls]
  /\ test \in BOOLEAN
  /\ captured \in [Devices -> SUBSET Controls]
  /\ events \in 0 .. MaxEvents

\* A control that was held when the application came to the front, or when
\* its device was found, does not act before it was let go of: nothing the
\* user did elsewhere is taken for a press here.
HeldOverNeverActs ==
  \A d \in Devices : pressed[d] \cap old[d] = {}

\* What the service holds back as captured is pressed: no release, of the
\* user's, of a device that goes or of the application's that leaves, and in
\* a test or after it, is missed, or the next press would be swallowed.
CapturedIsPressed ==
  \A d \in Devices : captured[d] \subseteq pressed[d]
=============================================================================
