--------------------------- MODULE MCCvcHeartbeat ---------------------------
(***************************************************************************)
(* CvcHeartbeat with the thresholds of both controllers on the target and  *)
(* those of the simulation, the latter for a smaller window (Cvc_Cfg.h),   *)
(* and the poll period and receive deadline of the code.  The alive        *)
(* counter has three values: any frame may come at any time, so that fewer *)
(* numbers only make more frames look like the last one.                   *)
(***************************************************************************)
EXTENDS CvcHeartbeat

Thresholds(window, init, errors, invalid) ==
    [WindowSize |-> window, MinOkStateInit |-> init, MaxErrorStateValid |-> errors,
     MinOkStateInvalid |-> invalid]

\* The two controllers on the target, and the simulation's thresholds, 14 errors
\* in a window of 16, for a window of 4.
CodeThresholds == {Thresholds(4, 2, 1, 3), Thresholds(6, 3, 2, 3), Thresholds(4, 2, 2, 3)}

\* The thresholds of the code are such that silence is found and health seen.
ASSUME ThresholdsFit == SilenceFits /\ HealthFits
=============================================================================
