----------------------- MODULE PlaybackReportProtocol -----------------------
(***************************************************************************)
(* What PlaybackReporter promises to the playback port, without timers,      *)
(* players and generations: one report session is open at a time; Started    *)
(* is its first report, Stopped its last, and each is sent once; a session    *)
(* is stopped before another takes its place, and only a session transition  *)
(* abandons one.                                                             *)
(***************************************************************************)
EXTENDS Sequences

CONSTANTS Sessions,   \* report session identifiers
          None        \* no report session

VARIABLES stage,      \* where the open report session stands
          session,    \* the open report session
          wire        \* reports handed to the port and not taken by it
vars == <<stage, session, wire>>

Stages == {"closed", "open", "started"}

Message(e) == [event |-> e, session |-> session]

(* What is still due for the open session before it can be closed. *)
Closing == IF stage = "open" THEN <<Message("Started"), Message("Stopped")>>
                             ELSE <<Message("Stopped")>>

Init == stage = "closed" /\ session = None /\ wire = <<>>

Open(s) == /\ stage' = "open" /\ session' = s
           /\ wire' = IF stage = "closed" THEN wire ELSE wire \o Closing

Start == /\ stage = "open" /\ stage' = "started"
         /\ wire' = Append(wire, Message("Started"))
         /\ UNCHANGED session

Progress == /\ stage = "started"
            /\ wire' = Append(wire, Message("Progress"))
            /\ UNCHANGED <<stage, session>>

Close == /\ stage # "closed" /\ stage' = "closed" /\ session' = None
         /\ wire' = wire \o Closing

Abandon == stage' = "closed" /\ session' = None /\ UNCHANGED wire

Take == wire # <<>> /\ wire' = Tail(wire) /\ UNCHANGED <<stage, session>>

Next == \/ \E s \in Sessions : Open(s)
        \/ Start \/ Progress \/ Close \/ Abandon \/ Take

Spec == Init /\ [][Next]_vars
=============================================================================
