----------------------------- MODULE RzcMonitors -----------------------------
(***************************************************************************)
(* The monitors of the Rear Zone Controller's motor: current               *)
(* (firmware/rzc/src/Swc_CurrentMonitor.c, every 1 ms), encoder            *)
(* (Swc_Encoder.c, 10 ms) and temperature (Swc_TempMonitor.c, 100 ms).     *)
(***************************************************************************)
EXTENDS Integers

CONSTANTS
    Currents,       \* readings of the motor current
    Overcurrent,    \* RZC_CURRENT_OC_THRESH_MA
    AvgWindow,      \* RZC_CURRENT_AVG_WINDOW
    OcDebounce,     \* RZC_CURRENT_OC_DEBOUNCE
    OcRecovery,     \* RZC_CURRENT_RECOVERY_MS
    StallChecks,    \* RZC_ENCODER_STALL_CHECKS
    DirChecks,      \* RZC_ENCODER_DIR_CHECKS
    StallGrace,     \* ENC_STALL_GRACE_CYCLES
    DirGrace,       \* ENC_DIR_GRACE_CYCLES
    StallMinTorque  \* RZC_ENCODER_STALL_MIN_PWM

ASSUME MonitorsAssumption ==
    /\ Currents \subseteq Nat /\ 0 \in Currents
    /\ Overcurrent \in Nat
    /\ {AvgWindow, OcDebounce, OcRecovery, StallChecks, DirChecks} \subseteq Nat \ {0}
    /\ {StallGrace, DirGrace, StallMinTorque} \subseteq Nat

-----------------------------------------------------------------------------
(* Current *)

CurrentVariables ==
    [buffer : [0 .. AvgWindow - 1 -> Currents], index : 0 .. AvgWindow - 1,
     filled : 0 .. AvgWindow, debounce : 0 .. OcDebounce, active : BOOLEAN,
     recovery : 0 .. OcRecovery - 1]

Swc_CurrentMonitor_Init ==
    [buffer |-> [i \in 0 .. AvgWindow - 1 |-> 0], index |-> 0, filled |-> 0,
     debounce |-> 0, active |-> FALSE, recovery |-> 0]

\* CM_ComputeAverage.
Average(current) ==
    LET sum[count \in 0 .. AvgWindow] ==
            IF count = 0 THEN 0 ELSE sum[count - 1] + current.buffer[count - 1]
    IN  IF current.filled = 0 THEN 0 ELSE sum[current.filled] \div current.filled

Sampled(current, raw) ==
    [current EXCEPT !.buffer[current.index] = raw,
                    !.index = IF @ + 1 >= AvgWindow THEN 0 ELSE @ + 1,
                    !.filled = IF @ < AvgWindow THEN @ + 1 ELSE @]

\* Mutant of CheckOvercurrent: the debounce counts on while active.
CheckOvercurrentCountsOn(current, average, raw) ==
    IF average > Overcurrent
    THEN [current EXCEPT !.debounce = @ + 1,
                         !.active = @ \/ current.debounce + 1 >= OcDebounce,
                         !.recovery = 0]
    ELSE IF ~current.active THEN [current EXCEPT !.debounce = 0]
    ELSE IF raw > Overcurrent THEN [current EXCEPT !.recovery = 0]
    ELSE IF current.recovery + 1 < OcRecovery THEN [current EXCEPT !.recovery = @ + 1]
    ELSE [current EXCEPT !.active = FALSE, !.debounce = 0, !.recovery = 0]

\* Mutant of CheckOvercurrent: a single reading above does not restart the
\* recovery.
CheckOvercurrentByAverage(current, average, raw) ==
    IF average > Overcurrent
    THEN IF current.active THEN [current EXCEPT !.recovery = 0]
         ELSE LET found == current.debounce + 1 >= OcDebounce
              IN  [current EXCEPT !.debounce = @ + 1, !.active = found,
                                  !.recovery = IF found THEN 0 ELSE @]
    ELSE IF ~current.active THEN [current EXCEPT !.debounce = 0]
    ELSE IF current.recovery + 1 < OcRecovery THEN [current EXCEPT !.recovery = @ + 1]
    ELSE [current EXCEPT !.active = FALSE, !.debounce = 0, !.recovery = 0]

CheckOvercurrent(current, average, raw) ==
    IF average > Overcurrent
    THEN IF current.active THEN [current EXCEPT !.recovery = 0]
         ELSE LET found == current.debounce + 1 >= OcDebounce
              IN  [current EXCEPT !.debounce = @ + 1, !.active = found,
                                  !.recovery = IF found THEN 0 ELSE @]
    ELSE IF ~current.active THEN [current EXCEPT !.debounce = 0]
    ELSE IF raw > Overcurrent THEN [current EXCEPT !.recovery = 0]
    ELSE IF current.recovery + 1 < OcRecovery THEN [current EXCEPT !.recovery = @ + 1]
    ELSE [current EXCEPT !.active = FALSE, !.debounce = 0, !.recovery = 0]

Swc_CurrentMonitor_MainFunction(current, raw) ==
    LET sampled == Sampled(current, raw)
    IN  CheckOvercurrent(sampled, Average(sampled), raw)

-----------------------------------------------------------------------------
(* Encoder *)

EncoderVariables ==
    [prev_direction : {"FORWARD", "REVERSE", "STOP"}, stall_count : 0 .. StallChecks,
     stall : BOOLEAN, mismatches : 0 .. DirChecks, dir_fault : BOOLEAN,
     stall_grace : 0 .. StallGrace, dir_grace : 0 .. DirGrace]

Swc_Encoder_Init ==
    [prev_direction |-> "STOP", stall_count |-> 0, stall |-> FALSE, mismatches |-> 0,
     dir_fault |-> FALSE, stall_grace |-> 0, dir_grace |-> 0]

\* A reversal on the RTE without a stop in between starts the grace times.
StartGrace(encoder, commanded) ==
    LET reversal == /\ commanded # encoder.prev_direction
                    /\ commanded # "STOP" /\ encoder.prev_direction # "STOP"
    IN  [encoder EXCEPT !.prev_direction = commanded,
                        !.stall_grace = IF reversal THEN StallGrace ELSE @,
                        !.dir_grace = IF reversal THEN DirGrace ELSE @]

CheckStall(encoder, echo, turns) ==
    IF encoder.stall THEN encoder
    ELSE IF encoder.stall_grace > 0 THEN [encoder EXCEPT !.stall_grace = @ - 1]
    ELSE IF turns THEN [encoder EXCEPT !.stall_count = 0]
    ELSE IF echo > StallMinTorque
    THEN [encoder EXCEPT !.stall_count = @ + 1, !.stall = encoder.stall_count + 1 >= StallChecks]
    ELSE encoder

CheckDirection(encoder, commanded, direction, turns) ==
    IF encoder.dir_fault THEN encoder
    ELSE IF encoder.dir_grace > 0 THEN [encoder EXCEPT !.dir_grace = @ - 1]
    ELSE IF turns /\ commanded # "STOP" /\ commanded # direction
    THEN [encoder EXCEPT !.mismatches = @ + 1, !.dir_fault = encoder.mismatches + 1 >= DirChecks]
    ELSE [encoder EXCEPT !.mismatches = 0]

\* Swc_Encoder_MainFunction; turns says whether the count changed.
Swc_Encoder_MainFunction(encoder, commanded, echo, direction, turns) ==
    CheckDirection(CheckStall(StartGrace(encoder, commanded), echo, turns),
                   commanded, direction, turns)

-----------------------------------------------------------------------------
(* Temperature, in degrees *)

TempVariables == [derating : {0, 50, 75, 100}, fault : BOOLEAN]

Swc_TempMonitor_Init == [derating |-> 100, fault |-> FALSE]

TM_ComputeRawDerating(temp) ==
    IF temp < 60 THEN 100 ELSE IF temp < 80 THEN 75 ELSE IF temp < 100 THEN 50 ELSE 0

\* The temperature at which a derating is left for the next better one, ten
\* degrees below the one where it began.
RecoveryTemp(derating) == CASE derating = 0 -> 90 [] derating = 50 -> 70 [] OTHER -> 50
NextBetter(derating) == CASE derating = 0 -> 50 [] derating = 50 -> 75 [] OTHER -> 100

TM_ApplyHysteresis(raw, derating, temp) ==
    IF raw <= derating THEN raw
    ELSE IF temp <= RecoveryTemp(derating) THEN NextBetter(derating) ELSE derating

TempInRange(temp) == temp \in -30 .. 150

\* Swc_TempMonitor_MainFunction: a reading out of range is a fault for good
\* and leaves the derating as it was.
Swc_TempMonitor_MainFunction(temperature, temp) ==
    IF ~TempInRange(temp) THEN [temperature EXCEPT !.fault = TRUE]
    ELSE [temperature EXCEPT
            !.derating = TM_ApplyHysteresis(TM_ComputeRawDerating(temp), @, temp)]
=============================================================================
