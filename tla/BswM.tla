-------------------------------- MODULE BswM --------------------------------
(***************************************************************************)
(* The BSW mode manager's mode request (shared/bsw/services/BswM.c): modes *)
(* are only ever left forwards, and STARTUP only for RUN.                  *)
(***************************************************************************)
EXTENDS Integers

BswM_ModeType == {"STARTUP", "RUN", "DEGRADED", "SAFE_STOP", "SHUTDOWN"}

Rank == [STARTUP |-> 0, RUN |-> 1, DEGRADED |-> 2, SAFE_STOP |-> 3, SHUTDOWN |-> 4]

\* Mutant of bswm_is_transition_valid: no mode may be skipped.
OneModeAtATime(current, requested) ==
    current = requested \/ Rank[requested] = Rank[current] + 1

bswm_is_transition_valid(current, requested) ==
    \/ current = requested
    \/ /\ Rank[current] < Rank[requested]
       /\ current = "STARTUP" => requested = "RUN"

\* The mode after a request; the E_NOT_OK of a refused one is not looked at by
\* any caller.
BswM_RequestMode(current, requested) ==
    IF bswm_is_transition_valid(current, requested) THEN requested ELSE current
=============================================================================
