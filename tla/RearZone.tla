------------------------------ MODULE RearZone ------------------------------
(***************************************************************************)
(* The Rear Zone Controller as its main loop runs it: one tick of the RTE  *)
(* per millisecond, the runnables due in it in the order of their          *)
(* priorities (firmware/rzc/cfg/Rte_Cfg_Rzc.c), one action each.  The      *)
(* current monitor runs in every tick; every MotorPeriod ticks the motor,  *)
(* the encoder, the reception and the sensor feeder; every SafetyPeriod    *)
(* ticks the temperature monitor and the safety monitor, which feeds the   *)
(* external watchdog.  Motor, current monitor, encoder and safety monitor  *)
(* all write the enable pins of the motor driver.                          *)
(*                                                                         *)
(* What the lower layers put into the RTE (Swc_RzcCom.c:475), the          *)
(* measurements that the sensor feeder injects and the state of the CAN    *)
(* controller are the environment's choice.  The watchdog chip resets the  *)
(* controller some time after it was last fed.                             *)
(***************************************************************************)
EXTENDS RzcMotor, RzcMonitors

CONSTANTS
    MotorPeriod,      \* ticks between two runs of the motor
    SafetyPeriod,     \* ticks between two runs of the safety monitor
    FailLimit,        \* RZCCOM_E2E_FAIL_LIMIT
    Temps,            \* readings of the motor temperature
    WatchdogPeriods,  \* time-out of the watchdog chip, in safety periods
    Disturbances      \* sets of what may be disturbed together

ASSUME RearZoneAssumption ==
    /\ {MotorPeriod, SafetyPeriod, FailLimit, WatchdogPeriods} \subseteq Nat \ {0}
    /\ SafetyPeriod % MotorPeriod = 0
    /\ Temps \subseteq Int /\ 25 \in Temps
    /\ Disturbances \subseteq SUBSET {"commands", "current", "temperature", "motion", "can"}

VARIABLES
    pc,           \* the runnable to run next
    tick,         \* rte_tick_counter
    rte,          \* RTE signals that a runnable reads
    motor,        \* Swc_Motor.c
    current,      \* Swc_CurrentMonitor.c
    encoder,      \* Swc_Encoder.c
    temperature,  \* Swc_TempMonitor.c
    fail_count,   \* RzcCom_RxFailCount of the torque PDU
    can_loss,     \* Safety_CanLossLatched
    enabled,      \* R_EN and L_EN of the motor driver
    pwm,          \* PWM of the motor driver
    plant,        \* what the sensors read
    unfed,        \* safety periods since the watchdog was last fed
    disturbed,    \* what the environment disturbs in this behaviour
    stale_runs,   \* observer: motor runs since the last torque frame, but
                  \* for those that an E-stop, INIT or SHUTDOWN ended early
    current_run   \* observer: high readings of the current in a row, or
                  \* minus the number of those that were not

observers == <<stale_runs, current_run>>
devices == <<motor, encoder, temperature, fail_count, can_loss>>
vars == <<pc, tick, rte, devices, current, enabled, pwm, plant, unfed, disturbed,
          observers>>

-----------------------------------------------------------------------------

Driving == enabled /\ pwm.dir # "STOP"

\* The RTE derating is 0 until the temperature monitor has run.
RteAtStart(self_test) ==
    [vehicle_state |-> "INIT", estop |-> FALSE, torque |-> 0, derating |-> 0, torque_echo |-> 0,
     motor_dir |-> "FORWARD", overcurrent |-> FALSE, temp_fault |-> FALSE,
     encoder_dir |-> "FORWARD", self_test |-> self_test]

\* Before the first measurement the encoder reads no counts, forward.
PlantAtStart == [current |-> 0, temp |-> 25, turning |-> "CREEPS"]

\* The encoder's direction is FORWARD whenever the motor turns; turning
\* slowly it gives no counts.
EncoderDirection == IF plant.turning = "STILL" THEN "STOP" ELSE "FORWARD"

SelfTestResults(disturbances) == IF "can" \in disturbances THEN {"PASS", "FAIL"} ELSE {"PASS"}

FoundWithin == AvgWindow - 1 + OcDebounce

Init ==
    /\ pc = "current"
    /\ tick = 1 % SafetyPeriod
    /\ disturbed \in Disturbances
    /\ \E self_test \in SelfTestResults(disturbed) : rte = RteAtStart(self_test)
    /\ motor = Swc_Motor_Init
    /\ current = Swc_CurrentMonitor_Init
    /\ encoder = Swc_Encoder_Init
    /\ temperature = Swc_TempMonitor_Init
    /\ fail_count = 0
    /\ can_loss = FALSE
    /\ enabled = FALSE
    /\ pwm = Idle
    /\ plant = PlantAtStart
    /\ unfed = 0
    /\ stale_runs = 0
    /\ current_run = -OcRecovery

-----------------------------------------------------------------------------

NextTick == pc' = "current" /\ tick' = (tick + 1) % SafetyPeriod

\* Swc_CurrentMonitor_MainFunction.  It drops the enable pins when it finds an
\* overcurrent, once.
Current ==
    /\ pc = "current"
    /\ current' = Swc_CurrentMonitor_MainFunction(current, plant.current)
    /\ rte' = [rte EXCEPT !.overcurrent = current'.active]
    /\ enabled' = (enabled /\ ~(current'.active /\ ~current.active))
    /\ current_run' = IF plant.current > Overcurrent
                      THEN IF current_run < 0 THEN 1
                           ELSE IF current_run < FoundWithin THEN current_run + 1 ELSE current_run
                      ELSE IF current_run > 0 THEN -1
                           ELSE IF current_run > -OcRecovery THEN current_run - 1 ELSE current_run
    /\ IF tick % MotorPeriod = 0 THEN pc' = "motor" /\ UNCHANGED tick ELSE NextTick
    /\ UNCHANGED <<devices, pwm, plant, unfed, disturbed, stale_runs>>

\* Swc_Motor_MainFunction sets the pins and the PWM in every run.
Motor ==
    /\ pc = "motor"
    /\ LET in == [estop |-> rte.estop, state |-> rte.vehicle_state,
                  torque |-> rte.torque, derating |-> rte.derating]
           run == Swc_Motor_MainFunction(motor, in)
       IN  /\ motor' = run.motor
           /\ pwm' = run.pwm
           /\ enabled' = (run.pwm # Idle)
           /\ rte' = [rte EXCEPT !.torque_echo = run.echo, !.motor_dir = run.motor.direction]
           /\ stale_runs' = IF Disables(in) \/ stale_runs > CmdTimeout THEN stale_runs
                            ELSE stale_runs + 1
    /\ pc' = "encoder"
    /\ UNCHANGED <<tick, current, encoder, temperature, fail_count, can_loss, plant, unfed,
                   disturbed, current_run>>

\* Swc_Encoder_MainFunction drops the enable pins when it finds a stall or a
\* wrong direction, once.
Encoder ==
    /\ pc = "encoder"
    /\ encoder' = Swc_Encoder_MainFunction(encoder, rte.motor_dir, rte.torque_echo,
                                           EncoderDirection, plant.turning = "TURNS")
    /\ enabled' = (enabled /\ encoder'.stall = encoder.stall
                           /\ encoder'.dir_fault = encoder.dir_fault)
    /\ rte' = [rte EXCEPT !.encoder_dir = EncoderDirection]
    /\ pc' = "receive"
    /\ UNCHANGED <<tick, motor, current, temperature, fail_count, can_loss, pwm, plant, unfed,
                   disturbed, observers>>

\* Swc_RzcCom_Receive.  Its torque time-out only replaces a zero by a zero.
TorqueAfter(torque, failures) == IF failures >= FailLimit THEN 0 ELSE torque

\* A torque frame that passes the E2E check.
TorqueFrame(state, torque) ==
    /\ fail_count' = 0
    /\ rte' = [rte EXCEPT !.vehicle_state = state, !.torque = torque]
    /\ stale_runs' = 0

\* One that fails it (Rzc_E2eRxCheck) is dropped.  The count stays at the
\* limit here: with the torque at zero it changes nothing that it wraps around.
BadTorqueFrame ==
    /\ fail_count' = IF fail_count < FailLimit THEN fail_count + 1 ELSE fail_count
    /\ rte' = [rte EXCEPT !.torque = TorqueAfter(@, fail_count')]
    /\ UNCHANGED stale_runs

\* No torque frame, and an E-stop frame or not.
NoTorqueFrame(estop) ==
    /\ rte' = [rte EXCEPT !.estop = estop, !.torque = TorqueAfter(@, fail_count)]
    /\ UNCHANGED <<fail_count, stale_runs>>

Receive ==
    /\ pc = "receive"
    /\ IF "commands" \in disturbed
       THEN \/ \E state \in VehicleStates, torque \in Torques : TorqueFrame(state, torque)
            \/ BadTorqueFrame
            \/ \E estop \in BOOLEAN : NoTorqueFrame(estop)
       ELSE \E torque \in Torques : torque > 0 /\ torque # rte.torque /\ TorqueFrame("RUN", torque)
    /\ pc' = "feed"
    /\ UNCHANGED <<tick, motor, current, encoder, temperature, can_loss, enabled, pwm, plant,
                   unfed, disturbed, current_run>>

\* Swc_RzcSensorFeeder_MainFunction: new measurements.
Feed ==
    /\ pc = "feed"
    /\ plant' \in [current : IF "current" \in disturbed THEN Currents ELSE {0},
                   temp : IF "temperature" \in disturbed THEN Temps ELSE {25},
                   turning : IF "motion" \in disturbed THEN {"STILL", "CREEPS", "TURNS"}
                             ELSE IF Driving THEN {"TURNS"} ELSE {"STILL"}]
    /\ IF tick = 0 THEN pc' = "temperature" /\ UNCHANGED tick ELSE NextTick
    /\ UNCHANGED <<rte, devices, current, enabled, pwm, unfed, disturbed, observers>>

\* Swc_TempMonitor_MainFunction.
Temperature ==
    /\ pc = "temperature"
    /\ temperature' = Swc_TempMonitor_MainFunction(temperature, plant.temp)
    /\ rte' = [rte EXCEPT !.temp_fault = temperature'.fault,
                          !.derating = IF TempInRange(plant.temp) THEN temperature'.derating ELSE @]
    /\ pc' = "safety"
    /\ UNCHANGED <<tick, motor, current, encoder, fail_count, can_loss, enabled, pwm, plant,
                   unfed, disturbed, observers>>

\* Mutant of FeedsWatchdog: only what is wrong with the controller starves it.
FeedsDespiteCriticalFault(bus_off) ==
    rte.vehicle_state # "SHUTDOWN" /\ rte.self_test = "PASS" /\ ~bus_off

\* The encoder's direction is read as if it were the direction fault.
FeedsWatchdog(bus_off) ==
    /\ ~rte.overcurrent /\ ~rte.temp_fault /\ rte.encoder_dir = "FORWARD" /\ ~can_loss'
    /\ rte.vehicle_state # "SHUTDOWN"
    /\ rte.self_test = "PASS"
    /\ ~bus_off

\* Swc_RzcSafety_MainFunction.  The controller's error state is never a
\* warning (Can_GetControllerErrorState), and the reception resets the count
\* of silent periods in every run, so that only bus-off is a loss of CAN.
Safety ==
    /\ pc = "safety"
    /\ \E bus_off \in IF "can" \in disturbed THEN BOOLEAN ELSE {FALSE} :
          /\ can_loss' = (can_loss \/ bus_off)
          /\ unfed' = IF FeedsWatchdog(bus_off) THEN 0
                      ELSE IF unfed < WatchdogPeriods THEN unfed + 1 ELSE unfed
    /\ enabled' = (enabled /\ ~can_loss')
    /\ NextTick
    /\ UNCHANGED <<rte, motor, current, encoder, temperature, fail_count, pwm, plant, disturbed,
                   observers>>

\* The watchdog chip resets the controller: main() initialises everything.
Reset ==
    /\ unfed >= WatchdogPeriods
    /\ pc' = "current"
    /\ tick' = 1 % SafetyPeriod
    /\ \E self_test \in SelfTestResults(disturbed) : rte' = RteAtStart(self_test)
    /\ motor' = Swc_Motor_Init
    /\ current' = Swc_CurrentMonitor_Init
    /\ encoder' = Swc_Encoder_Init
    /\ temperature' = Swc_TempMonitor_Init
    /\ fail_count' = 0
    /\ can_loss' = FALSE
    /\ enabled' = FALSE
    /\ pwm' = Idle
    /\ plant' = PlantAtStart
    /\ unfed' = 0
    /\ stale_runs' = 0
    /\ current_run' = -OcRecovery
    /\ UNCHANGED disturbed

Cycle == Current \/ Motor \/ Encoder \/ Receive \/ Feed \/ Temperature \/ Safety
Next == Cycle \/ Reset

Spec == Init /\ [][Next]_vars

\* The main loop goes on, and a starved watchdog chip resets the controller.
FairSpec == Spec /\ WF_vars(Cycle) /\ WF_vars(Reset)

-----------------------------------------------------------------------------

\* Types of the state: the counters stay within their limits.
TypeOK ==
    /\ pc \in {"current", "motor", "encoder", "receive", "feed", "temperature", "safety"}
    /\ tick \in 0 .. SafetyPeriod - 1
    /\ rte \in [vehicle_state : VehicleStates, estop : BOOLEAN, torque : Torques,
                derating : Deratings, torque_echo : 0 .. 100, motor_dir : Directions,
                overcurrent : BOOLEAN, temp_fault : BOOLEAN, encoder_dir : Directions,
                self_test : {"PASS", "FAIL"}]
    /\ motor \in MotorVariables
    /\ current \in CurrentVariables
    /\ encoder \in EncoderVariables
    /\ temperature \in TempVariables
    /\ fail_count \in 0 .. FailLimit
    /\ can_loss \in BOOLEAN
    /\ enabled \in BOOLEAN
    /\ pwm \in [dir : Directions, duty : 0 .. 95]
    /\ plant \in [current : Currents, temp : Temps, turning : {"STILL", "CREEPS", "TURNS"}]
    /\ unfed \in 0 .. WatchdogPeriods
    /\ disturbed \in Disturbances
    /\ stale_runs \in 0 .. CmdTimeout + 1
    /\ current_run \in -OcRecovery .. FoundWithin

\* The H-bridge never goes from one direction to the other without a run of
\* the motor in between in which it is off, however fast the commands, the
\* E-stop and the mode change.
DeadTime == [][{pwm.dir, pwm'.dir} # {"FORWARD", "REVERSE"}]_vars

\* A motor that was just set to drive does so in the direction the torque
\* command has at that time, in a state that allows it, and not during an
\* E-stop, although a reversal is deferred by the dead time.
DrivesAsCommanded ==
    pc = "encoder" /\ Driving =>
        /\ IF pwm.dir = "FORWARD" THEN rte.torque > 0 ELSE rte.torque < 0
        /\ rte.vehicle_state \in {"RUN", "DEGRADED", "LIMP"}
        /\ ~rte.estop

\* Without a new torque frame the last command drives the motor in at most
\* CmdTimeout of its runs, whatever a time-out or a recovery that was under
\* way had counted.  The runs that an E-stop, INIT or SHUTDOWN ends early do
\* not count: the motor is off in them, and returns before its time-out
\* (Swc_Motor.c:243-256), which stands still.  So this bounds the driving and
\* not the age of the command: after a long E-stop the motor can still drive
\* on a command older than the time-out, against SWR-RZC.md:296.
StaleDriveEnds == stale_runs > CmdTimeout => ~Driving

OvercurrentFound == [][current_run' = FoundWithin => current'.active]_vars
OvercurrentKept ==
    [][current.active /\ ~current'.active => current_run' = -OcRecovery]_vars

\* An overcurrent is found within the debounce time once the window is full of
\* high readings, and is not given up before the recovery time has passed
\* without any.
OvercurrentTracked == OvercurrentFound /\ OvercurrentKept

\* A lost CAN bus or an overcurrent does not last: it clears, or it starves
\* the watchdog and the controller restarts.
CriticalEnds == []<>~can_loss /\ []<>~rte.overcurrent

\* What Swc_CurrentMonitor.c:206 and SWR-RZC.md:138 say of an overcurrent: it
\* disables the motor.
OvercurrentStopsMotor == rte.overcurrent => ~Driving
=============================================================================
