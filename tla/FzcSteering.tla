---------------------------- MODULE FzcSteering ----------------------------
(***************************************************************************)
(* Steering control of the Front Zone Controller                           *)
(* (firmware/fzc/src/Swc_Steering.c): one record for the file's static     *)
(* variables and the outputs it drives, and one operator for each part of  *)
(* Swc_Steering_MainFunction.                                              *)
(*                                                                         *)
(* Angles are in tenths of a degree unless named otherwise.  Rte_Read of a *)
(* known signal never fails, so the command time-out and the               *)
(* return-to-centre it starts are never entered and are left out.  The PWM *)
(* is the angle it encodes.                                                *)
(***************************************************************************)
EXTENDS Integers

CONSTANTS
    AngleMax,         \* FZC_STEER_ANGLE_MAX, in degrees
    DegToTenths,      \* DEG_TO_TENTHS
    PlausThreshold,   \* FZC_STEER_PLAUS_THRESHOLD_DEG
    PlausDebounce,    \* FZC_STEER_PLAUS_DEBOUNCE
    RateLimit,        \* FZC_STEER_RATE_LIMIT_DEG_10MS, in tenths
    SteerLatchClear,  \* FZC_STEER_LATCH_CLEAR_CYCLES
    CounterMod        \* 256: the debounce counters are uint8

ASSUME SteeringAssumption ==
    /\ AngleMax \in Nat \ {0}
    /\ DegToTenths \in Nat \ {0}
    /\ PlausThreshold \in Nat \ {0}
    /\ PlausDebounce \in Nat \ {0}
    /\ RateLimit \in Nat \ {0}
    /\ SteerLatchClear \in Nat \ {0}
    /\ CounterMod \in Nat
    /\ PlausDebounce < CounterMod
    /\ SteerLatchClear < CounterMod

Magnitude(a) == IF a < 0 THEN -a ELSE a

\* C division truncates towards zero.
Quotient(a, b) == IF a < 0 THEN -((-a) \div b) ELSE a \div b

SteeringFaults == {"SPI_FAIL", "OUT_OF_RANGE", "PLAUSIBILITY"}

Angles == -(AngleMax * DegToTenths) .. AngleMax * DegToTenths

SteeringVariables ==
    [fault : SteeringFaults \cup {"NO_FAULT"}, plaus_debounce : 0 .. CounterMod - 1,
     latched : BOOLEAN, latch_counter : 0 .. SteerLatchClear - 1, prev_angle : Angles,
     plaus_armed : BOOLEAN, disable_level : 0 .. 3, episodes : 0 .. CounterMod - 1, pwm : Angles]

Swc_Steering_Init ==
    [fault |-> "NO_FAULT", plaus_debounce |-> 0, latched |-> FALSE, latch_counter |-> 0,
     prev_angle |-> 0, plaus_armed |-> FALSE, disable_level |-> 0, episodes |-> 0, pwm |-> 0]

-----------------------------------------------------------------------------

\* Mutant of ApplyRateLimit: limited in the positive direction only.
LimitPositive(prev, target) ==
    IF target - prev <= RateLimit \/ Magnitude(target) < Magnitude(prev)
    THEN target
    ELSE prev + RateLimit

\* Steering_ApplyRateLimit: towards the centre, and across it, unrestricted.
ApplyRateLimit(prev, target) ==
    IF Magnitude(target - prev) <= RateLimit \/ Magnitude(target) < Magnitude(prev)
    THEN target
    ELSE IF target > prev THEN prev + RateLimit ELSE prev - RateLimit

\* The feedback disagrees with the last output, both in whole degrees.
Implausible(s, in) ==
    /\ s.plaus_armed
    /\ Magnitude(Quotient(s.prev_angle, DegToTenths) - in.actual) >= PlausThreshold

InRange(in) == Magnitude(in.cmd) <= AngleMax

\* Mutant of CheckCommandAndFeedback: an implausible angle is not counted
\* while the latch is set.
CheckOnlyUnlatched(s, in) ==
    IF ~in.spi_ok THEN [s EXCEPT !.fault = "SPI_FAIL"]
    ELSE IF ~InRange(in) THEN [s EXCEPT !.fault = "OUT_OF_RANGE"]
    ELSE IF ~s.latched /\ Implausible(s, in)
    THEN LET count == (s.plaus_debounce + 1) % CounterMod
         IN  [s EXCEPT !.plaus_debounce = count,
                       !.fault = IF count >= PlausDebounce THEN "PLAUSIBILITY" ELSE "NO_FAULT"]
    ELSE [s EXCEPT !.plaus_debounce = 0, !.fault = "NO_FAULT"]

\* Steps 3 to 6: this cycle's fault.
CheckCommandAndFeedback(s, in) ==
    IF ~in.spi_ok THEN [s EXCEPT !.fault = "SPI_FAIL"]
    ELSE IF ~InRange(in) THEN [s EXCEPT !.fault = "OUT_OF_RANGE"]
    ELSE IF ~s.plaus_armed THEN [s EXCEPT !.fault = "NO_FAULT"]
    ELSE IF Implausible(s, in)
    THEN LET count == (s.plaus_debounce + 1) % CounterMod
         IN  [s EXCEPT !.plaus_debounce = count,
                       !.fault = IF count >= PlausDebounce THEN "PLAUSIBILITY" ELSE "NO_FAULT"]
    ELSE [s EXCEPT !.plaus_debounce = 0, !.fault = "NO_FAULT"]

\* Steps 9 and 10: the latch, and the angle it forces to the centre.  The
\* fault code of a latched fault is that of the last cycle only.
LatchSteeringFault(s, output) ==
    LET count == s.latch_counter + 1
    IN  IF s.fault # "NO_FAULT"
        THEN [s EXCEPT !.episodes = IF s.latched THEN @ ELSE (@ + 1) % CounterMod,
                       !.latched = TRUE, !.latch_counter = 0,
                       !.prev_angle = 0, !.plaus_armed = TRUE]
        ELSE IF ~s.latched
        THEN [s EXCEPT !.prev_angle = output, !.plaus_armed = TRUE]
        ELSE IF count >= SteerLatchClear
        THEN [s EXCEPT !.latched = FALSE, !.latch_counter = 0,
                       !.prev_angle = output, !.plaus_armed = TRUE]
        ELSE [s EXCEPT !.latch_counter = count, !.prev_angle = 0, !.plaus_armed = TRUE]

\* Mutant of DisablePwm: the disable level goes with the latch.
DisableWhileLatched(s) ==
    LET level == IF ~s.latched THEN 0
                 ELSE IF s.episodes >= 3 THEN 3 ELSE IF s.episodes >= 2 THEN 2 ELSE 1
    IN  [s EXCEPT !.disable_level = level, !.pwm = IF level > 0 THEN 0 ELSE s.prev_angle]

\* Step 12: the disable level outlives the latch.
DisablePwm(s) ==
    LET level == IF ~s.latched THEN s.disable_level
                 ELSE IF s.episodes >= 3 THEN 3 ELSE IF s.episodes >= 2 THEN 2 ELSE 1
    IN  [s EXCEPT !.disable_level = level, !.pwm = IF level > 0 THEN 0 ELSE s.prev_angle]

Swc_Steering_MainFunction(s, in) ==
    DisablePwm(LatchSteeringFault(CheckCommandAndFeedback(s, in),
                                  ApplyRateLimit(s.prev_angle, in.cmd * DegToTenths)))
=============================================================================
