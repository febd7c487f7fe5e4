----------------------------- MODULE MCApplication --------------------------
(***************************************************************************)
(* What the application does around its features, in one run: the change   *)
(* of account that fences them, and the two halves of the player it owns,  *)
(* the opening of a file and the watch over it.  They share no state here: *)
(* a behaviour picks one of them at the start.                             *)
(***************************************************************************)
EXTENDS SessionLifecycle, TLC

CONSTANTS
  Files, Profiles, Options, Uses, Lower, Restores, Targets, MaxPlays, None,
  hi, lo,  \* the two profiles
  MaxStalls, MaxInbox

\* The higher profile writes both options, the lower one of them.
MCUses     == (hi :> {"scale", "shaders"}) @@ (lo :> {"shaders"})
MCLower    == (hi :> lo) @@ (lo :> None)
MCRestores == <<"shaders", "scale">>
MCTargets  == (hi :> <<"scale", "shaders">>) @@ (lo :> <<"shaders">>)

VARIABLES
  part,  \* the component of this behaviour
  \* MpvVideoItem
  item, props, ready, posted, wanted, plays,
  \* PlaybackStall
  watched, core, inbox, stalls

Player == INSTANCE MpvVideoItem
            WITH asked <- wanted, MaxEvents <- MaxPlays, events <- plays
Stall  == INSTANCE PlaybackStall
            WITH item <- watched, MaxEvents <- MaxStalls, events <- stalls

\* What each component assumes of its constants.
ASSUME PartsAssumption ==
  /\ Player!PlayerAssumption
  /\ Stall!StallAssumption

lifecycleVars == vars
playerVars    == <<item, props, ready, posted, wanted, plays>>
stallVars     == <<watched, core, inbox, stalls>>
allVars       == <<part, lifecycleVars, playerVars, stallVars>>

\* A component that was not picked keeps one initial state.
ApplicationInit ==
  /\ part \in {"lifecycle", "player", "stall"}
  /\ Init
  /\ Player!Init
  /\ Stall!Init
  /\ part # "lifecycle" => ~ connected

\* A step of one component leaves the others as they are.
LifecycleAlone ==
  part = "lifecycle" /\ UNCHANGED <<part, playerVars, stallVars>>
PlayerAlone ==
  part = "player" /\ UNCHANGED <<part, lifecycleVars, stallVars>>
StallAlone ==
  part = "stall" /\ UNCHANGED <<part, lifecycleVars, playerVars>>

ApplicationNext ==
  \/ LifecycleAlone /\ Step
  \/ PlayerAlone /\ Player!Next
  \/ StallAlone /\ Stall!Next

\* The fairness of each component.  Where the account or the watch stand still,
\* nothing is enabled that their fairness asks for; in a player that stands
\* still the renderer is awaited, so its fairness is that of its behaviours.
PlayerFairness ==
  /\ WF_playerVars(part = "player" /\ \E ok \in BOOLEAN : Player!Reply(ok))
  /\ WF_playerVars(part = "player" /\ Player!RendererReady)
  /\ WF_playerVars(part = "player" /\ Player!PendingLoad)

ApplicationSpec ==
  /\ ApplicationInit
  /\ [][ApplicationNext]_allVars
  /\ Fairness
  /\ PlayerFairness
  /\ Stall!Fairness

\* The properties, stated where the components are.
OptionsAreWhole   == Player!OptionsAreWhole
NewestOpenWins    == Player!NewestOpenWins
OpensEnd          == Player!OpensEnd
StallIsShown      == Stall!StallIsShown
SilenceIsReported == Stall!SilenceIsReported

\* A file that was asked for is loaded or no longer wanted, and a file that is
\* watched makes progress, pauses, ends or is reported as silent.
PlayerSettles == OpensEnd /\ SilenceIsReported
=============================================================================
