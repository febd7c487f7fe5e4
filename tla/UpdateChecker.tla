--------------------------- MODULE UpdateChecker ---------------------------
(***************************************************************************)
(* Updates: the checker the settings page drives (UpdateChecker.cpp), the  *)
(* worker that owns the updater process and hands its lines over in order  *)
(* (UpdateHelperProcess.cpp), and the updater itself, which checks,        *)
(* downloads and applies releases (VelopackUpdater.cpp).  Without an       *)
(* updater, or when it fails, the checker asks the release page.           *)
(***************************************************************************)
EXTENDS Naturals, Sequences

CONSTANT MaxClicks  \* bound: what the user asks for

UpdateAssumption == MaxClicks \in Nat

VARIABLES release,  \* external: what the service offers, "none", "current", "newer"
          pending,  \* external: a downloaded release waits to be applied
          ui,       \* the flags the page shows
          op,       \* m_helperOperation: "none", "check", "download", "apply"
          helper,   \* the process: "none", "running", "half" way, "said" all, "good", "bad"
          lines,    \* what it wrote and the checker has not read
          heard,    \* m_helperProducedResult
          cancelled,
          reply,    \* m_reply: a request of the release page runs
          quit, clicks

updateVars == <<release, pending, ui, op, helper, lines, heard, cancelled, reply, quit, clicks>>
world == <<release, pending>>
process == <<op, helper, lines, heard, cancelled>>

Idle == [checking |-> FALSE, downloading |-> FALSE, applying |-> FALSE, checked |-> FALSE,
         supported |-> FALSE, available |-> FALSE, ready |-> FALSE, error |-> FALSE]

Init ==
  /\ release \in {"none", "current", "newer"} /\ pending \in BOOLEAN
  /\ ui = Idle /\ op = "none" /\ helper = "none" /\ lines = <<>>
  /\ heard = FALSE /\ cancelled = FALSE /\ reply = FALSE /\ quit = FALSE /\ clicks = 0

Busy == ui.checking \/ ui.downloading \/ ui.applying \/ op # "none"
Click == ~quit /\ clicks < MaxClicks /\ clicks' = clicks + 1

Start(o) ==
  /\ op' = o /\ helper' = "running" /\ lines' = <<>>
  /\ heard' = FALSE /\ cancelled' = FALSE

(***************************************************************************)
(* The page.                                                               *)
(***************************************************************************)
\* A portable build has no updater.
Check ==
  /\ Click /\ ~Busy
  /\ ui' = [Idle EXCEPT !.checking = TRUE]
  /\ \/ Start("check") /\ UNCHANGED reply
     \/ reply' = TRUE /\ UNCHANGED process
  /\ UNCHANGED <<world, quit>>

Download ==
  /\ Click /\ ~Busy /\ ui.supported /\ ui.available
  /\ ui' = [ui EXCEPT !.downloading = TRUE, !.ready = FALSE, !.error = FALSE]
  /\ Start("download")
  /\ UNCHANGED <<world, reply, quit>>

CancelDownload ==
  /\ Click /\ ui.downloading /\ op = "download" /\ cancelled' = TRUE
  /\ UNCHANGED <<world, ui, op, helper, lines, heard, reply, quit>>

Apply ==
  /\ Click /\ ~Busy /\ ui.ready
  /\ ui' = [ui EXCEPT !.applying = TRUE, !.error = FALSE]
  /\ Start("apply")
  /\ UNCHANGED <<world, reply, quit>>

(***************************************************************************)
(* The updater process.  It writes its answer and exits; it may die at any *)
(* point, and the worker kills it when it is cancelled or too slow.        *)
(***************************************************************************)
Say(line, exits) ==
  /\ helper \in {"running", "half"} /\ lines' = Append(lines, line) /\ helper' = exits
  /\ UNCHANGED <<ui, op, heard, cancelled, reply, quit, clicks>>

\* Every command ends in an error when it is not installed or the service fails.
Fails == Say("error", "bad") /\ UNCHANGED world
RunCheck ==
  /\ op = "check" /\ Say(IF pending THEN "pending" ELSE release, "said") /\ UNCHANGED world
RunDownload ==
  /\ op = "download"
  /\ \/ release # "newer" /\ Say(release, "said") /\ UNCHANGED world
     \/ /\ release = "newer" /\ helper = "running"  \* one report of progress
        /\ Say("progress", "half") /\ UNCHANGED world
     \/ release = "newer" /\ Say("ready", "said") /\ pending' = TRUE /\ UNCHANGED release
RunApply ==
  /\ op = "apply"
  /\ IF pending THEN Say("handed_off", "said") ELSE Say("error", "bad")
  /\ UNCHANGED world

Exits ==
  /\ helper = "said" /\ helper' = "good"
  /\ UNCHANGED <<world, ui, op, lines, heard, cancelled, reply, quit, clicks>>
Dies ==
  /\ helper \in {"running", "half", "said"} /\ helper' = "bad"
  /\ UNCHANGED <<world, ui, op, lines, heard, cancelled, reply, quit, clicks>>

(***************************************************************************)
(* What the checker hears.                                                 *)
(***************************************************************************)
\* Slip: a download that only progressed counts as ready.
CompletesSlip == {"progress", "ready"}
Completes == {"ready"}
Told(line) ==
  CASE line \in {"pending", "newer"} ->
         [ui EXCEPT !.supported = TRUE, !.checked = TRUE, !.error = FALSE,
                    !.available = TRUE, !.ready = (line = "pending")]
    [] line \in {"current", "none"} ->
         [ui EXCEPT !.supported = TRUE, !.checked = TRUE, !.error = FALSE, !.available = FALSE]
    [] line \in Completes -> [ui EXCEPT !.ready = TRUE, !.error = FALSE]
    [] line = "handed_off" -> [ui EXCEPT !.applying = FALSE]
    [] line = "error" -> [ui EXCEPT !.error = @ \/ op # "check"]
    [] OTHER -> ui

HandleLine ==
  /\ op # "none" /\ lines # <<>> /\ lines' = Tail(lines)
  /\ IF cancelled /\ op = "download" THEN UNCHANGED <<ui, heard, quit>>
     ELSE /\ ui' = Told(Head(lines)) /\ heard' = TRUE
          /\ quit' = (quit \/ Head(lines) = "handed_off")
  /\ UNCHANGED <<world, op, helper, cancelled, reply, clicks>>

\* finishHelper, after the last line.
\* Slip: a failed check leaves the request of the release page to nobody.
FallsBackSlip == FALSE
FallsBack == ~heard \/ helper = "bad"

FinishHelper ==
  /\ op # "none" /\ helper \in {"good", "bad"} /\ lines = <<>>
  /\ op' = "none" /\ helper' = "none"
  /\ CASE op = "check" ->
            IF ~heard \/ helper = "bad"
            THEN ui' = [ui EXCEPT !.supported = FALSE] /\ reply' = FallsBack
            ELSE ui' = [ui EXCEPT !.checking = FALSE] /\ UNCHANGED reply
       [] op = "download" ->
            /\ ui' = [ui EXCEPT !.downloading = FALSE, !.ready = @ /\ ~cancelled,
                                !.error = ~cancelled /\ (@ \/ (~ui.ready /\ FallsBack))]
            /\ UNCHANGED reply
       [] op = "apply" ->
            /\ ui' = IF FallsBack THEN [ui EXCEPT !.applying = FALSE, !.error = TRUE] ELSE ui
            /\ UNCHANGED reply
  /\ UNCHANGED <<world, lines, heard, cancelled, quit, clicks>>

\* finishRequest: an answer, no release, or an error.
FinishRequest ==
  /\ reply /\ reply' = FALSE
  /\ \E failed \in BOOLEAN :
       ui' = [ui EXCEPT !.checking = FALSE, !.checked = TRUE, !.error = failed,
                        !.available = ~failed /\ release = "newer"]
  /\ UNCHANGED <<world, process, quit, clicks>>

Released == /\ release' = "newer" /\ release # "newer"
            /\ UNCHANGED <<pending, ui, process, reply, quit, clicks>>

Progress == Fails \/ RunCheck \/ RunDownload \/ RunApply \/ Exits \/ Dies
            \/ HandleLine \/ FinishHelper \/ FinishRequest
Next == Progress \/ Check \/ Download \/ CancelDownload \/ Apply \/ Released

Fairness == WF_updateVars(Progress)
Spec == Init /\ [][Next]_updateVars /\ Fairness

(***************************************************************************)
(* Properties.                                                             *)
(***************************************************************************)
\* What is offered to be applied is a download that ended, whatever the
\* updater died of and however its lines and a cancellation crossed.
ReadyIsPending == ui.ready => pending

\* Checking, downloading and applying come to an end.
UpdateSettles == <>[]~(ui.checking \/ ui.downloading \/ ui.applying)
=============================================================================
