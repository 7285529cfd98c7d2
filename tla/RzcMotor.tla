------------------------------ MODULE RzcMotor ------------------------------
(***************************************************************************)
(* The motor control of the Rear Zone Controller                           *)
(* (firmware/rzc/src/Swc_Motor.c), every 10 ms: limit by mode and          *)
(* temperature, command time-out, direction with dead time, PWM.  Torque   *)
(* and duty are in percent.  The fault latch and the shoot-through latch   *)
(* of the code are read but never set, and left out.                       *)
(***************************************************************************)
EXTENDS Integers

CONSTANTS
    Torques,      \* torque commands
    CmdTimeout,   \* MOTOR_CMD_TIMEOUT_CYCLES
    CmdRecovery   \* RZC_MOTOR_CMD_RECOVERY

ASSUME MotorAssumption ==
    /\ Torques \subseteq -100 .. 100
    /\ 0 \in Torques
    /\ CmdTimeout \in Nat \ {0}
    /\ CmdRecovery \in Nat \ {0}

Directions == {"FORWARD", "REVERSE", "STOP"}
VehicleStates == {"INIT", "RUN", "DEGRADED", "LIMP", "SAFE_STOP", "SHUTDOWN"}
Deratings == {0, 50, 75, 100}

MotorVariables ==
    [direction : Directions, cmd_direction : Directions, timeout_cycles : 0 .. CmdTimeout,
     timed_out : BOOLEAN, recovery_count : 0 .. CmdRecovery - 1, deadtime : BOOLEAN,
     prev_torque : Torques]

Swc_Motor_Init ==
    [direction |-> "STOP", cmd_direction |-> "STOP", timeout_cycles |-> 0, timed_out |-> FALSE,
     recovery_count |-> 0, deadtime |-> FALSE, prev_torque |-> 0]

\* Motor_DisableOutputs: what the PWM is set to, along with the enable pins.
Idle == [dir |-> "STOP", duty |-> 0]

\* A cycle that disables the motor, and what it says on the RTE.
Disabled(motor) == [motor |-> motor, pwm |-> Idle, echo |-> 0]

Disables(in) == in.estop \/ in.state \in {"INIT", "SHUTDOWN"}

ModeLimit ==
    [INIT |-> 0, RUN |-> 100, DEGRADED |-> 75, LIMP |-> 30, SAFE_STOP |-> 0, SHUTDOWN |-> 0]

\* The magnitude of the command within the limits.
Derated(in) ==
    LET size == IF in.torque < 0 THEN -in.torque ELSE in.torque
        limited == IF size > ModeLimit[in.state] THEN ModeLimit[in.state] ELSE size
    IN  (limited * in.derating) \div 100

\* Mutant of CheckCommand: any cycle counts towards the recovery.
CheckCommandCountsAll(motor, torque) ==
    LET new == torque # motor.prev_torque \/ torque = 0
        cycles == IF new THEN 0
                  ELSE IF motor.timeout_cycles < CmdTimeout THEN motor.timeout_cycles + 1
                  ELSE motor.timeout_cycles
        recovered == motor.recovery_count + 1 >= CmdRecovery
    IN  [motor EXCEPT
           !.prev_torque = torque,
           !.timed_out = IF @ THEN ~recovered ELSE cycles >= CmdTimeout,
           !.recovery_count = IF motor.timed_out /\ ~recovered THEN @ + 1 ELSE 0,
           !.timeout_cycles = IF motor.timed_out /\ recovered THEN 0 ELSE cycles]

\* A command that stays the same, unless it is zero, is taken for a lost
\* sender; a number of new or zero commands end the time-out.  The cycles
\* saturate at 0xFFFF in the code; past the limit they change nothing.
CheckCommand(motor, torque) ==
    LET new == torque # motor.prev_torque \/ torque = 0
        cycles == IF new THEN 0
                  ELSE IF motor.timeout_cycles < CmdTimeout THEN motor.timeout_cycles + 1
                  ELSE motor.timeout_cycles
        counted == IF new THEN motor.recovery_count + 1 ELSE motor.recovery_count
        recovered == counted >= CmdRecovery
    IN  [motor EXCEPT
           !.prev_torque = torque,
           !.timed_out = IF @ THEN ~recovered ELSE cycles >= CmdTimeout,
           !.recovery_count = IF motor.timed_out /\ ~recovered THEN counted ELSE 0,
           !.timeout_cycles = IF motor.timed_out /\ recovered THEN 0 ELSE cycles]

\* Mutant of Reverses: only one of the two reversals.
ReversesForward(from, to) == from = "FORWARD" /\ to = "REVERSE"

Reverses(from, to) == to # from /\ to # "STOP" /\ from # "STOP"

\* Mutant of Drive: a reversal during the dead time goes unnoticed.
DriveDeferred(motor, direction, size) ==
    IF ~motor.deadtime /\ Reverses(motor.direction, direction)
    THEN Disabled([motor EXCEPT !.deadtime = TRUE, !.cmd_direction = direction, !.direction = "STOP"])
    ELSE LET applied == IF motor.deadtime THEN motor.cmd_direction ELSE direction
             duty == (size * 95) \div 100
         IN  [motor |-> [motor EXCEPT !.deadtime = FALSE, !.direction = applied],
              pwm |-> IF applied # "STOP" /\ duty > 0 THEN [dir |-> applied, duty |-> duty] ELSE Idle,
              echo |-> size]

\* Steps 8 to 14: a reversal costs a cycle of dead time, after which the
\* deferred direction is applied, unless the command reversed again.
Drive(motor, direction, size) ==
    LET from == IF motor.deadtime THEN motor.cmd_direction ELSE motor.direction
        applied == IF motor.deadtime THEN motor.cmd_direction ELSE direction
        duty == (size * 95) \div 100
    IN  IF Reverses(from, direction)
        THEN Disabled([motor EXCEPT !.deadtime = TRUE, !.cmd_direction = direction,
                                    !.direction = "STOP"])
        ELSE [motor |-> [motor EXCEPT !.deadtime = FALSE, !.direction = applied],
              pwm |-> IF applied # "STOP" /\ duty > 0 THEN [dir |-> applied, duty |-> duty] ELSE Idle,
              echo |-> size]

\* Swc_Motor_MainFunction, for the signals it reads.
Swc_Motor_MainFunction(motor, in) ==
    IF Disables(in) THEN Disabled([motor EXCEPT !.direction = "STOP"])
    ELSE LET checked == CheckCommand(motor, in.torque)
             size == IF checked.timed_out THEN 0 ELSE Derated(in)
             direction == IF size = 0 THEN "STOP" ELSE IF in.torque < 0 THEN "REVERSE" ELSE "FORWARD"
         IN  Drive(checked, direction, size)
=============================================================================
