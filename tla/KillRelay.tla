------------------------------ MODULE KillRelay ------------------------------
(***************************************************************************)
(* What the Safety Controller promises the vehicle about the kill relay:   *)
(* between two restarts the relay closes at most once, and whatever opens  *)
(* it keeps it open until the controller restarts.                         *)
(***************************************************************************)
VARIABLES
    mode,   \* where the controller is in its start-run-trip cycle
    closed  \* the relay passes motor power

krVars == <<mode, closed>>

Modes == {"starting", "closed", "tripped", "halted"}

\* Power flows in one mode only.
PowerInOneMode == mode \in Modes /\ (closed <=> mode = "closed")

Init == mode = "starting" /\ closed = FALSE

\* The one step that closes the relay.
Close ==
    /\ mode = "starting"
    /\ mode' = "closed" /\ closed' = TRUE

\* A trigger opens the relay and latches.
Trip ==
    /\ mode = "closed"
    /\ mode' = "tripped" /\ closed' = FALSE

\* The lockstep interrupt opens the relay and stops the program.
Halt ==
    /\ mode # "halted"
    /\ mode' = "halted" /\ closed' = FALSE

\* The external watchdog resets the controller.
Restart == mode' = "starting" /\ closed' = FALSE

Next == Close \/ Trip \/ Halt \/ Restart

Spec == Init /\ [][Next]_krVars
=============================================================================
