----------------------------- MODULE MCMutations -----------------------------
(***************************************************************************)
(* Media mutations, in two runs: the coordinator, which takes its scheduler *)
(* at its promise (KeyedFifo), and the scheduler, which keeps it.  They     *)
(* share no state here: each run lets one of them step.                     *)
(***************************************************************************)
EXTENDS MediaCoordinator

CONSTANTS m1, m2,             \* items of the coordinator
          Keys, k1,           \* keys of the scheduler; k1 may have two in line
          optimistic,         \* a payload of the scheduler
          Payloads, Compatible, MaxActiveKeys, QueueBound

VARIABLES queues, active, ready, pc, remaining, discard, cursor, retained, kept,
          unfiltered

Lines == INSTANCE KeyedMutationScheduler WITH Requests <- Payloads

ASSUME LinesAssumption == Lines!SchedulerAssumption

linesVars ==
  <<queues, active, ready, pc, remaining, discard, cursor, retained, kept,
    unfiltered>>
allVars == <<vars, linesVars>>

MCItems == {m1, m2}
MCMenu == {<<m1, "LoadMetadata">>, <<m2, "LoadMetadata">>,
           <<m1, "RefreshMetadata">>, <<m1, "SetPlayed">>, <<m2, "SetPlayed">>}

\* The test MediaCoordinator installs: two optimistic requests never run at
\* the same time.
SingleJournal == (Payloads \X Payloads) \ {<<optimistic, optimistic>>}
MCBounds == [k \in Keys |-> IF k = k1 THEN 2 ELSE 1]

BothInit == Init /\ Lines!Init

MediaSpec ==
  /\ BothInit
  /\ [][Next /\ UNCHANGED linesVars]_allVars
  /\ Fairness

SchedulerSpec ==
  /\ BothInit
  /\ [][Lines!Next /\ UNCHANGED vars]_allVars
  /\ Lines!Fairness

\* The properties of the scheduler, stated where it is.
ImplementsFifo == Lines!ImplementsFifo
EveryKeyServed == Lines!EveryKeyServed
=============================================================================
