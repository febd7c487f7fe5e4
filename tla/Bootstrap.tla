----------------------------- MODULE Bootstrap -----------------------------
(***************************************************************************)
(* Starting the program: the launcher that keeps one instance, shows a     *)
(* splash, starts the desktop and waits until its first frame is shown     *)
(* (BootstrapWindows.cpp, BootstrapLinux.cpp, BootstrapProtocol.cpp, and   *)
(* the desktop's side in main.cpp).  The lock is held by whoever has a     *)
(* handle of it: a launcher, and the desktop it hands its handle to.       *)
(***************************************************************************)
EXTENDS Naturals, FiniteSets

CONSTANTS Launches,  \* starts of the program
          MaxChoices \* bound: cancellations, retries, failures, timeouts

BootstrapAssumption == MaxChoices \in Nat

VARIABLES windows,   \* the platform
          waits,     \* waitForDesktopExit: the launcher stays to the end
          lock,      \* who holds a handle of the instance lock
          at,        \* where a launcher is; "looked" has seen no ready signal
          result,    \* its exit code
          desktop,   \* its desktop: "none", "running", "closing", "gone"
          published, \* what that desktop signalled: "no", "file", "event", "failed"
          cancel,    \* cancelRequested
          exited,    \* observedChildExitCode
          choices

bootVars == <<windows, waits, lock, at, result, desktop, published, cancel, exited, choices>>
platform == <<windows, waits>>

Init ==
  /\ windows \in BOOLEAN /\ waits \in BOOLEAN /\ lock = {}
  /\ at = [l \in Launches |-> "new"] /\ result = [l \in Launches |-> "none"]
  /\ desktop = [l \in Launches |-> "none"] /\ published = [l \in Launches |-> "no"]
  /\ cancel = [l \in Launches |-> FALSE] /\ exited = [l \in Launches |-> FALSE]
  /\ choices = 0

Choice == choices < MaxChoices /\ choices' = choices + 1
Launcher(l) == [of |-> l, as |-> "launcher"]
Desktop(l) == [of |-> l, as |-> "desktop"]

\* The launcher returns; closing its handle, and that of a killed desktop.
Leave(l, code, killed) ==
  /\ at' = [at EXCEPT ![l] = "done"] /\ result' = [result EXCEPT ![l] = code]
  /\ lock' = lock \ ({Launcher(l)} \cup IF killed THEN {Desktop(l)} ELSE {})
  /\ desktop' = IF killed THEN [desktop EXCEPT ![l] = "gone"] ELSE desktop
Goto(l, where) == at' = [at EXCEPT ![l] = where] /\ UNCHANGED <<result, lock, desktop>>

(***************************************************************************)
(* The launcher.                                                           *)
(***************************************************************************)
\* A hook of the installer is served by the updater, without a window.
Enter(l) ==
  /\ at[l] = "new"
  /\ \/ windows /\ Leave(l, "hook", FALSE)
     \/ IF lock # {} THEN Leave(l, "existing", FALSE)
        ELSE /\ lock' = {Launcher(l)} /\ at' = [at EXCEPT ![l] = "launching"]
             /\ UNCHANGED <<result, desktop>>
  /\ UNCHANGED <<platform, published, cancel, exited, choices>>

\* Slip: the desktop gets no handle of the lock.
InheritedSlip(l) == lock
Inherited(l) == lock \cup {Desktop(l)}

Launch(l) ==
  /\ at[l] = "launching"
  /\ lock' = Inherited(l) /\ at' = [at EXCEPT ![l] = "waiting"]
  /\ desktop' = [desktop EXCEPT ![l] = "running"]
  /\ published' = [published EXCEPT ![l] = "no"]
  /\ exited' = [exited EXCEPT ![l] = FALSE] /\ cancel' = [cancel EXCEPT ![l] = FALSE]
  /\ UNCHANGED <<platform, result, choices>>
LaunchFails(l) ==
  /\ at[l] = "launching" /\ Choice
  /\ \/ windows /\ Goto(l, "launching")  \* the user retries
     \/ Leave(l, "failed", FALSE)
  /\ UNCHANGED <<platform, published, cancel, exited>>

\* The user closes the splash.
RequestCancel(l) ==
  /\ at[l] \in {"waiting", "looked", "fading"} /\ Choice
  /\ cancel' = [cancel EXCEPT ![l] = TRUE]
  /\ UNCHANGED <<platform, lock, at, result, desktop, published, exited>>

\* On Windows a desktop that does not close is killed only if the user says so.
Cancelled(l) ==
  /\ at[l] \in {"waiting", "fading"} /\ cancel[l]
  /\ \/ Leave(l, "cancelled", TRUE) /\ UNCHANGED cancel
     \/ windows /\ cancel' = [cancel EXCEPT ![l] = FALSE]
          /\ UNCHANGED <<at, result, lock, desktop>>
  /\ UNCHANGED <<platform, published, exited, choices>>

\* Slip: the event is waited for where there is none.
SignalledSlip(l) == published[l] = "event"
Signalled(l) == published[l] = IF windows THEN "event" ELSE "file"

HandOff(l) ==
  IF exited[l] THEN Leave(l, "child", FALSE)
  ELSE IF waits THEN Goto(l, "handed") ELSE Leave(l, "success", FALSE)

LookForReady(l) ==
  /\ at[l] = "waiting" /\ ~cancel[l]
  /\ IF ~Signalled(l) THEN Goto(l, "looked")
     ELSE IF windows THEN Goto(l, "fading") ELSE HandOff(l)
  /\ UNCHANGED <<platform, published, cancel, exited, choices>>
\* A payload that is not the desktop's own.
RejectReady(l) ==
  /\ at[l] = "waiting" /\ ~cancel[l] /\ ~windows /\ Signalled(l) /\ Choice
  /\ at' = [at EXCEPT ![l] = "done"] /\ result' = [result EXCEPT ![l] = "invalid"]
  /\ lock' = lock \ {Launcher(l)}
  /\ desktop' = [desktop EXCEPT ![l] = IF @ = "running" THEN "closing" ELSE @]
  /\ UNCHANGED <<platform, published, cancel, exited>>
FadeCompletes(l) ==
  /\ at[l] = "fading" /\ ~cancel[l] /\ HandOff(l)
  /\ UNCHANGED <<platform, published, cancel, exited, choices>>

LookForExit(l) ==
  /\ at[l] \in {"looked", "fading", "handed"}
  /\ IF desktop[l] # "gone"
     THEN at[l] = "looked" /\ Goto(l, "waiting") /\ UNCHANGED <<exited, choices>>
     ELSE CASE at[l] = "handed" \/ (at[l] = "looked" /\ waits) ->
                 Leave(l, "child", FALSE) /\ UNCHANGED <<exited, choices>>
            [] at[l] = "fading" ->
                 /\ ~exited[l] /\ exited' = [exited EXCEPT ![l] = TRUE]
                 /\ UNCHANGED <<at, result, lock, desktop, choices>>
            [] at[l] = "looked" /\ ~waits ->
                 /\ UNCHANGED exited
                 /\ \/ Leave(l, "failed", FALSE) /\ UNCHANGED choices
                    \/ windows /\ Choice /\ Goto(l, "launching")
  /\ UNCHANGED <<platform, published, cancel>>

\* Too long: whoever waits for the exit ends the desktop, the user is asked.
Timeout(l) ==
  /\ at[l] = "looked" /\ desktop[l] # "gone" /\ Choice
  /\ IF waits
     THEN IF windows THEN Leave(l, "timeout", TRUE) /\ UNCHANGED cancel
          ELSE /\ at' = [at EXCEPT ![l] = "done"] /\ result' = [result EXCEPT ![l] = "timeout"]
               /\ lock' = lock \ {Launcher(l)}
               /\ desktop' = [desktop EXCEPT ![l] = "closing"] /\ UNCHANGED cancel
     ELSE /\ Goto(l, "waiting")
          /\ cancel' \in {cancel} \cup IF windows THEN {[cancel EXCEPT ![l] = TRUE]} ELSE {}
  /\ UNCHANGED <<platform, published, exited>>

(***************************************************************************)
(* The desktop: its second frame is published as a file, then an event.    *)
(***************************************************************************)
Publish(l) ==
  /\ desktop[l] = "running" /\ published[l] \in IF windows THEN {"no", "file"} ELSE {"no"}
  /\ \/ /\ published' = [published EXCEPT ![l] = IF @ = "no" THEN "file" ELSE "event"]
        /\ UNCHANGED choices
     \/ Choice /\ published' = [published EXCEPT ![l] = "failed"]
  /\ UNCHANGED <<platform, lock, at, result, desktop, cancel, exited>>
Exit(l) ==
  /\ desktop[l] \in {"running", "closing"}
  /\ desktop' = [desktop EXCEPT ![l] = "gone"] /\ lock' = lock \ {Desktop(l)}
  /\ UNCHANGED <<platform, at, result, published, cancel, exited, choices>>

Monitor == \E l \in Launches : Launch(l) \/ Cancelled(l) \/ LookForReady(l)
                               \/ FadeCompletes(l) \/ LookForExit(l)
Start == \E l \in Launches : Publish(l)
Next ==
  \/ Monitor \/ Start
  \/ \E l \in Launches : Enter(l) \/ LaunchFails(l) \/ RequestCancel(l) \/ RejectReady(l)
                         \/ Timeout(l) \/ Exit(l)

\* The launcher's loop runs, and the desktop gets to its second frame.
Fairness == WF_bootVars(Monitor) /\ WF_bootVars(Start)
Spec == Init /\ [][Next]_bootVars /\ Fairness

(***************************************************************************)
(* Properties.                                                             *)
(***************************************************************************)
\* Two desktops never run at once: not after a handoff, a timeout, a forced
\* stop or a retry; and who is told "success" had a desktop that was shown.
OneDesktop ==
  /\ \A k, l \in Launches : {desktop[k], desktop[l]} \subseteq {"running", "closing"} => k = l
  /\ \A l \in Launches : result[l] = "success" => published[l] # "no"

\* A launcher ends, unless it waits for a desktop that is there to stay.
LaunchesEnd ==
  <>[](\A l \in Launches :
         \/ at[l] \in {"new", "done"}
         \/ desktop[l] = "running" /\ (waits \/ published[l] = "failed"))
=============================================================================
