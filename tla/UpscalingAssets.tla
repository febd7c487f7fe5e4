-------------------------- MODULE UpscalingAssets --------------------------
(***************************************************************************)
(* The shader files of the upscaling profiles (UpscalingAssetManager.cpp,  *)
(* driven by UpscalingViewModel.cpp): asset sets that share files are      *)
(* verified by workers, downloaded one set at a time under a lock that     *)
(* other processes respect, and verified again.  A generation only decides *)
(* whether a verification still counts, so one that does not is forgotten. *)
(***************************************************************************)
EXTENDS Naturals, Sequences, FiniteSets, SequencesExt

CONSTANTS Sets,      \* asset sets
          Needs,     \* set -> the files it is made of
          None,
          MaxEvents  \* bound: what the user does, and failures

Files == UNION {Needs[s] : s \in Sets}
UpscalingAssumption == MaxEvents \in Nat /\ \A s \in Sets : Needs[s] # {}

VARIABLES disk,    \* file -> "absent", "bad", "good"
          phase,   \* the phase the page shows, "unseen" at first
          check,   \* the verification of a set that counts, or None
          queue,   \* m_downloadQueue
          task,    \* m_currentTask, holding the set's lock
          retry,   \* startNextDownload is posted
          events

assetVars == <<disk, phase, check, queue, task, retry, events>>

Busy == {"checking", "queued", "downloading", "verifying"}

Init ==
  /\ disk \in [Files -> {"absent", "bad", "good"}]
  /\ phase = [s \in Sets |-> "unseen"] /\ check = [s \in Sets |-> None]
  /\ queue = <<>> /\ task = None /\ retry = FALSE /\ events = 0

Event == events < MaxEvents /\ events' = events + 1

Began(download) == [download |-> download, read |-> FALSE, missing |-> {}, bad |-> FALSE]
Begin(sets, download, as) ==
  /\ phase' = [s \in Sets |-> IF s \in sets THEN as ELSE phase[s]]
  /\ check' = [s \in Sets |-> IF s \in sets THEN Began(download) ELSE check[s]]

\* startNextDownload, with the queue q, the phases ph and no task: a set that
\* left the queue's phase, or whose lock another process has, is passed over.
StartNext(q, ph) ==
  IF q = <<>> THEN queue' = q /\ phase' = ph /\ task' = None /\ UNCHANGED <<retry, events>>
  ELSE LET s == Head(q) IN
    /\ queue' = Tail(q)
    /\ \/ /\ ph[s] # "queued"
          /\ phase' = ph /\ task' = None /\ retry' = TRUE /\ UNCHANGED events
       \/ /\ ph[s] = "queued" /\ Event
          /\ phase' = [ph EXCEPT ![s] = "failed"] /\ task' = None /\ retry' = TRUE
       \/ /\ ph[s] = "queued"
          /\ phase' = [ph EXCEPT ![s] = "downloading"]
          /\ task' = [set |-> s, left |-> check[s].missing] /\ UNCHANGED <<retry, events>>

\* The page: a set is verified when it is first selected.
Select(s) ==
  /\ phase[s] = "unseen" /\ Begin({s}, FALSE, "checking")
  /\ UNCHANGED <<disk, queue, task, retry, events>>
Download(s) ==
  /\ Event /\ phase[s] \notin {"unseen", "downloading", "queued", "verifying"}
  /\ Begin({s}, TRUE, "checking")
  /\ UNCHANGED <<disk, queue, task, retry>>

\* Slip: the sets behind a cancelled one are not looked at.
NextAfterCancelSlip(s) == FALSE
NextAfterCancel(s) == task = None \/ task.set = s
Cancel(s) ==
  /\ events < MaxEvents /\ phase[s] # "unseen"
  /\ check' = [check EXCEPT ![s] = None]
  /\ LET ph == [phase EXCEPT ![s] = "missing"]
         q == SelectSeq(queue, LAMBDA x : x # s)
     IN  IF NextAfterCancel(s) THEN StartNext(q, ph)
         ELSE /\ queue' = q /\ phase' = ph /\ UNCHANGED <<retry, events>>
              /\ task' = IF task # None /\ task.set = s THEN None ELSE task
  /\ UNCHANGED disk

\* A verification worker reads the files, hashes them, and is heard.
\* Slip: a file that is there is taken for the right one.
MissingSlip(s) == {f \in Needs[s] : disk[f] = "absent"}
Missing(s) == {f \in Needs[s] : disk[f] # "good"}
Read(s) ==
  /\ check[s] # None /\ ~check[s].read
  /\ check' = [check EXCEPT ![s] = [@ EXCEPT !.read = TRUE, !.missing = Missing(s),
                                            !.bad = \E f \in Needs[s] : disk[f] = "bad"]]
  /\ UNCHANGED <<disk, phase, queue, task, retry, events>>

\* Sets that share a file with one that got ready are verified again.
Sharing(s) == {t \in Sets \ {s} : phase[t] \in {"missing", "failed"} /\ Needs[t] \cap Needs[s] # {}}
Heard(s) ==
  /\ check[s] # None /\ check[s].read /\ phase[s] \in {"checking", "verifying"}
  /\ IF check[s].missing = {}
     THEN /\ phase' = [t \in Sets |-> IF t = s THEN "ready"
                                      ELSE IF t \in Sharing(s) THEN "checking" ELSE phase[t]]
          /\ check' = [t \in Sets |-> IF t = s THEN None
                                      ELSE IF t \in Sharing(s) THEN Began(FALSE) ELSE check[t]]
          /\ UNCHANGED <<queue, task, retry, events>>
     ELSE IF ~check[s].download
     THEN /\ phase' = [phase EXCEPT ![s] = IF check[s].bad THEN "failed" ELSE "missing"]
          /\ check' = [check EXCEPT ![s] = None]
          /\ UNCHANGED <<queue, task, retry, events>>
     ELSE LET ph == [phase EXCEPT ![s] = "queued"]
              q == IF s \in ToSet(queue) THEN queue ELSE Append(queue, s)
          IN  /\ IF task = None THEN StartNext(q, ph)
                 ELSE queue' = q /\ phase' = ph /\ UNCHANGED <<task, retry, events>>
              /\ UNCHANGED check
  /\ UNCHANGED disk

\* A file is installed whole or not at all; after the last the set is verified.
Install ==
  /\ task # None
  /\ \E f \in task.left :
       /\ disk' = [disk EXCEPT ![f] = "good"]
       /\ IF task.left # {f}
          THEN /\ task' = [task EXCEPT !.left = @ \ {f}]
               /\ UNCHANGED <<phase, check, queue, retry, events>>
          ELSE /\ StartNext(queue, [phase EXCEPT ![task.set] = "verifying"])
               /\ check' = [check EXCEPT ![task.set] = Began(FALSE)]
Fail ==
  /\ task # None /\ events < MaxEvents
  /\ StartNext(queue, [phase EXCEPT ![task.set] = "failed"])
  /\ check' = [check EXCEPT ![task.set] = None] /\ UNCHANGED disk
Retry ==
  /\ retry /\ UNCHANGED <<disk, check>>
  /\ IF task = None /\ queue # <<>>
     THEN \/ Head(queue) \in {s \in Sets : phase[s] = "queued"} /\ retry' = FALSE
             /\ queue' = Tail(queue) /\ UNCHANGED events
             /\ phase' = [phase EXCEPT ![Head(queue)] = "downloading"]
             /\ task' = [set |-> Head(queue), left |-> check[Head(queue)].missing]
          \/ /\ queue' = Tail(queue) /\ UNCHANGED <<task, retry>>
             /\ IF phase[Head(queue)] = "queued"
                THEN Event /\ phase' = [phase EXCEPT ![Head(queue)] = "failed"]
                ELSE UNCHANGED <<phase, events>>
     ELSE retry' = FALSE /\ UNCHANGED <<phase, queue, task, events>>

Progress == Install \/ Retry \/ \E s \in Sets : Read(s) \/ Heard(s)
Next == Progress \/ Fail \/ \E s \in Sets : Select(s) \/ Download(s) \/ Cancel(s)

Fairness == WF_assetVars(Progress)
Spec == Init /\ [][Next]_assetVars /\ Fairness

(***************************************************************************)
(* Properties.                                                             *)
(***************************************************************************)
\* A set the player is given has every one of its files, whatever was
\* cancelled, failed or downloaded for another set meanwhile.
ReadyIsInstalled == \A s \in Sets : phase[s] = "ready" => \A f \in Needs[s] : disk[f] = "good"

\* A verification or a download ends, the queued ones too.
AssetsSettle == \A s \in Sets : (phase[s] \in Busy) ~> (phase[s] \notin Busy)
=============================================================================
