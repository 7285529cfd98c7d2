------------------------------ MODULE FzcBrake ------------------------------
(***************************************************************************)
(* Brake control of the Front Zone Controller                              *)
(* (firmware/fzc/src/Swc_Brake.c): one record for the file's static        *)
(* variables and the PWM it drives, and one operator for each part of      *)
(* Swc_Brake_MainFunction.                                                 *)
(*                                                                         *)
(* Rte_Read of a known signal never fails: a command has always just been  *)
(* received, and the command time-out is never entered and is left out.    *)
(***************************************************************************)
EXTENDS Integers

CONSTANTS
    FullBrake,           \* BRAKE_CMD_MAX, 100 %
    DeviationThreshold,  \* FZC_BRAKE_PWM_FAULT_THRESH
    BrakeDebounce,       \* FZC_BRAKE_FAULT_DEBOUNCE
    OscThreshold,        \* FZC_BRAKE_OSCILLATION_DELTA_THRESH
    OscDebounce,         \* FZC_BRAKE_OSCILLATION_DEBOUNCE
    BrakeLatchClear,     \* FZC_BRAKE_LATCH_CLEAR_CYCLES
    CutoffRepeat,        \* FZC_BRAKE_CUTOFF_REPEAT_COUNT
    BrakeCounterMod      \* 256: the deviation counter is a uint8

ASSUME BrakeAssumption ==
    /\ FullBrake \in Nat \ {0}
    /\ DeviationThreshold \in Nat
    /\ BrakeDebounce \in Nat \ {0}
    /\ OscThreshold \in Nat
    /\ OscDebounce \in Nat \ {0}
    /\ BrakeLatchClear \in Nat \ {0}
    /\ CutoffRepeat \in Nat
    /\ BrakeCounterMod \in Nat
    /\ BrakeDebounce < BrakeCounterMod
    /\ BrakeLatchClear < BrakeCounterMod

Distance(a, b) == IF a >= b THEN a - b ELSE b - a

NewBrakeFaults == {"PWM_DEVIATION", "CMD_OSCILLATION"}
BrakeFaults == NewBrakeFaults \cup {"LATCHED"}

BrakeVariables ==
    [position : 0 .. FullBrake, fault : BrakeFaults \cup {"NO_FAULT"}, latched : BOOLEAN,
     latch_counter : 0 .. BrakeLatchClear - 1, debounce : 0 .. BrakeCounterMod - 1,
     auto : BOOLEAN, cutoff_counter : 0 .. CutoffRepeat, sending : BOOLEAN,
     osc_prev : 0 .. FullBrake, osc_counter : 0 .. OscDebounce, pwm : 0 .. FullBrake]

Swc_Brake_Init ==
    [position |-> 0, fault |-> "NO_FAULT", latched |-> FALSE, latch_counter |-> 0,
     debounce |-> 0, auto |-> FALSE, cutoff_counter |-> 0, sending |-> FALSE,
     osc_prev |-> 0, osc_counter |-> 0, pwm |-> 0]

-----------------------------------------------------------------------------

\* Mutant of LatchEstop: the E-stop brakes and latches, but does not restart
\* the count of the latch.
LatchEstopOnce(b, estop) ==
    IF estop THEN [b EXCEPT !.auto = TRUE, !.latched = TRUE] ELSE b

\* Step 2: an E-stop brakes automatically and restarts the latch.
LatchEstop(b, estop) ==
    IF estop THEN [b EXCEPT !.auto = TRUE, !.latched = TRUE, !.latch_counter = 0] ELSE b

\* Step 3b, on the clamped command: large changes in a row.
CountOscillation(b, cmd) ==
    [b EXCEPT !.osc_prev = cmd,
              !.osc_counter = IF b.latched \/ Distance(cmd, b.osc_prev) <= OscThreshold
                              THEN 0
                              ELSE IF @ < OscDebounce THEN @ + 1 ELSE @]

Oscillates(b) == b.osc_counter >= OscDebounce

\* Steps 4 and 5.
DriveBrake(b, cmd) == [b EXCEPT !.pwm = IF b.auto THEN FullBrake ELSE cmd]

\* Step 5b: a failed reading leaves the position.
ReadPosition(b, in) == IF in.pos_ok THEN [b EXCEPT !.position = in.position] ELSE b

Deviates(b) == Distance(b.pwm, b.position) > DeviationThreshold

\* Mutant of CountDeviation: gated on no latch, as the oscillation is.
CountDeviationUnlatched(b) ==
    IF Oscillates(b) THEN b
    ELSE [b EXCEPT !.debounce = IF Deviates(b) /\ ~b.latched THEN (@ + 1) % BrakeCounterMod ELSE 0]

\* Step 6, skipped when an oscillation was found.
CountDeviation(b) ==
    IF Oscillates(b) THEN b
    ELSE [b EXCEPT !.debounce = IF Deviates(b) THEN (@ + 1) % BrakeCounterMod ELSE 0]

NewFault(b) ==
    IF Oscillates(b) THEN "CMD_OSCILLATION"
    ELSE IF Deviates(b) /\ b.debounce >= BrakeDebounce THEN "PWM_DEVIATION"
    ELSE "NO_FAULT"

\* Mutant of LatchBrakeFault: a latch without a fault gets no fault code.
LatchWithoutCode(b) ==
    LET count == b.latch_counter + 1
    IN  IF NewFault(b) # "NO_FAULT"
        THEN [b EXCEPT !.fault = NewFault(b), !.latched = TRUE, !.latch_counter = 0,
                       !.position = FullBrake, !.pwm = FullBrake, !.sending = TRUE,
                       !.cutoff_counter = IF b.sending THEN @ ELSE 0]
        ELSE IF ~b.latched THEN [b EXCEPT !.fault = "NO_FAULT"]
        ELSE IF count >= BrakeLatchClear
        THEN [b EXCEPT !.latched = FALSE, !.latch_counter = 0, !.auto = FALSE,
                       !.fault = "NO_FAULT"]
        ELSE [b EXCEPT !.latch_counter = count, !.position = FullBrake, !.pwm = FullBrake]

\* Step 7: the latch and full braking.
LatchBrakeFault(b) ==
    LET count == b.latch_counter + 1
    IN  IF NewFault(b) # "NO_FAULT"
        THEN [b EXCEPT !.fault = NewFault(b), !.latched = TRUE, !.latch_counter = 0,
                       !.position = FullBrake, !.pwm = FullBrake, !.sending = TRUE,
                       !.cutoff_counter = IF b.sending THEN @ ELSE 0]
        ELSE IF ~b.latched THEN [b EXCEPT !.fault = "NO_FAULT"]
        ELSE IF count >= BrakeLatchClear
        THEN [b EXCEPT !.latched = FALSE, !.latch_counter = 0, !.auto = FALSE,
                       !.fault = "NO_FAULT"]
        ELSE [b EXCEPT !.latch_counter = count, !.position = FullBrake, !.pwm = FullBrake,
                       !.fault = IF @ = "NO_FAULT" THEN "LATCHED" ELSE @]

\* Step 8: the sequence of cutoff messages, one a cycle.
SendCutoff(b) ==
    IF ~b.sending THEN b
    ELSE IF b.cutoff_counter < CutoffRepeat THEN [b EXCEPT !.cutoff_counter = @ + 1]
    ELSE [b EXCEPT !.sending = FALSE]

\* Mutant of Clamp: the command is taken as it comes.
Unclamped(in) == IF in.estop THEN FullBrake ELSE in.cmd

Clamp(in) == IF in.estop \/ in.cmd > FullBrake THEN FullBrake ELSE in.cmd

\* Steps 2 to 5b: the PWM is set, then the position read.
Driven(b, in) ==
    ReadPosition(DriveBrake(CountOscillation(LatchEstop(b, in.estop), Clamp(in)), Clamp(in)), in)

Swc_Brake_MainFunction(b, in) == SendCutoff(LatchBrakeFault(CountDeviation(Driven(b, in))))
=============================================================================
