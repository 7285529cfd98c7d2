----------------------------- MODULE FrontZone -----------------------------
(***************************************************************************)
(* The Front Zone Controller as its main loop runs it: every 10 ms the     *)
(* runnables of firmware/fzc/cfg/Rte_Cfg_Fzc.c in the order of their       *)
(* priorities, one action each: reception and the copy of the commands to  *)
(* the RTE, steering, brake, the safety monitor that aggregates their      *)
(* faults and feeds the external watchdog, the CAN monitor, and the        *)
(* schedule of the E2E-protected fault frames.  The components meet in the *)
(* RTE signals, and a component of lower priority overwrites what one of   *)
(* higher priority wrote.                                                  *)
(*                                                                         *)
(* Frames on CAN, the readings of the two position sensors and the CAN     *)
(* error counters are the environment's choice.  The watchdog chip resets  *)
(* the controller some time after it was last fed.                         *)
(***************************************************************************)
EXTENDS FzcSteering, FzcBrake, ComRx

CONSTANTS
    EstopDeadline,        \* Com receive deadlines, in cycles
    StateDeadline,
    CommandDeadline,
    PostInitGraceCycles,  \* FZC_POST_INIT_GRACE_CYCLES, 0 on the target
    ErrWarnCycles,        \* FZC_CAN_ERR_WARN_CYCLES
    TxPeriod,             \* cycles between two cutoff frames
    TxStart,              \* cycles between the last of them and the start
    WatchdogCycles,       \* time-out of the watchdog chip
    Disturbances          \* sets of what may be disturbed together

ASSUME FrontZoneAssumption ==
    /\ {EstopDeadline, StateDeadline, CommandDeadline} \subseteq Nat \ {0}
    /\ PostInitGraceCycles \in Nat
    /\ ErrWarnCycles \in Nat \ {0}
    /\ TxPeriod \in Nat \ {0}
    /\ TxStart \in 0 .. TxPeriod - 1
    /\ WatchdogCycles \in Nat \ {0}
    /\ Disturbances \subseteq SUBSET {"steering", "brake", "state", "can"}
    /\ TxPeriod < BrakeLatchClear
    /\ CutoffRepeat < BrakeLatchClear
    /\ BrakeDebounce < BrakeLatchClear
    /\ PlausDebounce < SteerLatchClear

VARIABLES
    pc,               \* the runnable to run next
    com,              \* Com buffers of the received PDUs
    rte,              \* RTE signals
    steering,         \* Swc_Steering.c
    brake,            \* Swc_Brake.c
    grace,            \* Safety_GraceCounter
    can_monitor,      \* Swc_FzcCanMonitor.c
    tx_cycle,         \* FzcCom_TxScheduleCycle, from the last cutoff frame
    unfed,            \* cycles since the watchdog was last fed
    disturbed,        \* what the environment disturbs in this behaviour
    since_estop,      \* observer: cycles since the brake saw an E-stop
    deviating_for,    \* observer: cycles in a row the brake was off its command
    implausible_for,  \* observer: cycles in a row the steering was off
    reported          \* observer: this brake latch was reported on CAN

observers == <<since_estop, deviating_for, implausible_for, reported>>
vars == <<pc, com, rte, steering, brake, grace, can_monitor, tx_cycle, unfed, disturbed,
          observers>>

-----------------------------------------------------------------------------
(* Received PDUs.  All that matters of the vehicle state is whether it is
   SHUTDOWN.                                                                *)

PDUs == {"estop", "state", "steer", "brake"}

PduValues == [estop |-> BOOLEAN, state |-> {"UP", "SHUTDOWN"},
              steer |-> -(AngleMax + 1) .. AngleMax + 1, brake |-> 0 .. FullBrake + 1]

Zero == [estop |-> FALSE, state |-> "UP", steer |-> 0, brake |-> 0]

Deadline == [estop |-> EstopDeadline, state |-> StateDeadline,
             steer |-> CommandDeadline, brake |-> CommandDeadline]

\* PDUs whose frames come in when something is disturbed.
Carries == [brake |-> {"estop", "brake"}, steering |-> {"steer"}, state |-> {"state"}, can |-> {}]

Frames(got) ==
    LET values(pdu) == IF pdu \in got THEN PduValues[pdu] ELSE {Zero[pdu]}
    IN  [estop : values("estop"), state : values("state"),
         steer : values("steer"), brake : values("brake")]

RteAtStart == [estop_active |-> FALSE, vehicle_state |-> "UP", steer_cmd |-> 0, brake_cmd |-> 0,
               steer_fault |-> "NO_FAULT", brake_fault |-> "NO_FAULT", motor_cutoff |-> FALSE]

ComAtStart == [pdu \in PDUs |-> Com_Init(Zero[pdu])]
CanMonitorAtStart == [err_count |-> 0, latched |-> FALSE]

Init ==
    /\ pc = "receive"
    /\ com = ComAtStart
    /\ rte = RteAtStart
    /\ steering = Swc_Steering_Init
    /\ brake = Swc_Brake_Init
    /\ grace = PostInitGraceCycles
    /\ can_monitor = CanMonitorAtStart
    /\ tx_cycle = TxStart
    /\ unfed = 0
    /\ disturbed \in Disturbances
    /\ since_estop = BrakeLatchClear
    /\ deviating_for = 0
    /\ implausible_for = 0
    /\ reported = FALSE

-----------------------------------------------------------------------------

\* Can_MainFunction_Read, Com_MainFunction_Rx and Swc_FzcCom_Receive.  The
\* last one also tells the CAN monitor that a frame came in, in every cycle,
\* so that its silence counter never counts.
Receive ==
    /\ pc = "receive"
    /\ \E got \in SUBSET UNION {Carries[d] : d \in disturbed} : \E frame \in Frames(got) :
          com' = [pdu \in PDUs |->
                    Com_MainFunction_Rx(IF pdu \in got THEN Com_RxIndication(com[pdu], frame[pdu])
                                        ELSE com[pdu],
                                        Deadline[pdu], Zero[pdu])]
    /\ rte' = [rte EXCEPT !.estop_active = com'["estop"].value,
                          !.vehicle_state = com'["state"].value,
                          !.steer_cmd = com'["steer"].value,
                          !.brake_cmd = com'["brake"].value]
    /\ pc' = "steering"
    /\ UNCHANGED <<steering, brake, grace, can_monitor, tx_cycle, unfed, disturbed, observers>>

\* Swc_Steering_MainFunction.  An undisturbed servo is where its PWM puts it.
Steering ==
    /\ pc = "steering"
    /\ \E spi_ok \in BOOLEAN, actual \in -AngleMax .. AngleMax :
          LET in == [cmd |-> rte.steer_cmd, spi_ok |-> spi_ok, actual |-> actual]
          IN  /\ "steering" \notin disturbed
                    => spi_ok /\ actual = Quotient(steering.pwm, DegToTenths)
              /\ steering' = Swc_Steering_MainFunction(steering, in)
              /\ implausible_for' =
                    IF ~(spi_ok /\ InRange(in) /\ steering.plaus_armed) THEN implausible_for
                    ELSE IF ~Implausible(steering, in) THEN 0
                    ELSE IF implausible_for < PlausDebounce THEN implausible_for + 1
                    ELSE implausible_for
    /\ rte' = [rte EXCEPT !.steer_fault = steering'.fault]
    /\ pc' = "brake"
    /\ UNCHANGED <<com, brake, grace, can_monitor, tx_cycle, unfed, disturbed,
                   since_estop, deviating_for, reported>>

\* Swc_Brake_MainFunction.
Brake ==
    /\ pc = "brake"
    /\ \E pos_ok \in BOOLEAN, position \in 0 .. FullBrake :
          LET in == [cmd |-> rte.brake_cmd, estop |-> rte.estop_active,
                     pos_ok |-> pos_ok, position |-> position]
              driven == Driven(brake, in)
          IN  /\ "brake" \notin disturbed => pos_ok /\ position = driven.pwm
              /\ brake' = Swc_Brake_MainFunction(brake, in)
              /\ deviating_for' =
                    IF Oscillates(driven) THEN deviating_for
                    ELSE IF ~Deviates(driven) THEN 0
                    ELSE IF deviating_for < BrakeDebounce THEN deviating_for + 1
                    ELSE deviating_for
    /\ rte' = [rte EXCEPT !.brake_fault = brake'.fault,
                          !.motor_cutoff = brake'.sending \/ brake'.fault # "NO_FAULT"]
    /\ since_estop' = IF rte.estop_active THEN 0
                      ELSE IF since_estop < BrakeLatchClear THEN since_estop + 1
                      ELSE since_estop
    /\ reported' = (reported /\ brake.latched /\ brake'.latched)
    /\ pc' = "safety"
    /\ UNCHANGED <<com, steering, grace, can_monitor, tx_cycle, unfed, disturbed, implausible_for>>

\* Mutant of FaultsToCutOff: only steering faults are aggregated, and the
\* cutoff the brake has written is overwritten.
OnlySteeringCutsOff == rte.steer_fault # "NO_FAULT"

FaultsToCutOff == rte.steer_fault # "NO_FAULT" \/ rte.brake_fault # "NO_FAULT"

\* Mutant of FeedsWatchdog: a brake fault does not keep the watchdog unfed.
FeedsDespiteBrakeFault == rte.steer_fault = "NO_FAULT" /\ rte.vehicle_state # "SHUTDOWN"

\* The self-test condition is never in effect: nothing sets Safety_SelfTestDone.
FeedsWatchdog ==
    /\ rte.steer_fault = "NO_FAULT"
    /\ rte.brake_fault = "NO_FAULT"
    /\ rte.vehicle_state # "SHUTDOWN"

\* Swc_FzcSafety_MainFunction.  It writes the cutoff signal in every cycle,
\* whatever the brake wrote.  An observer takes a latch within the grace time
\* as reported.
Safety ==
    /\ pc = "safety"
    /\ grace' = IF grace > 0 THEN grace - 1 ELSE 0
    /\ rte' = [rte EXCEPT !.motor_cutoff = FaultsToCutOff /\ grace' = 0]
    /\ unfed' = IF FeedsWatchdog THEN 0
                ELSE IF unfed < WatchdogCycles THEN unfed + 1 ELSE unfed
    /\ reported' = (reported \/ grace' > 0)
    /\ pc' = "can_monitor"
    /\ UNCHANGED <<com, steering, brake, can_monitor, tx_cycle, disturbed,
                   since_estop, deviating_for, implausible_for>>

\* Swc_FzcCanMonitor_Check: the error counters of the controller.  Bus-off is
\* not seen, since no caller stops the controller, and the silence counter
\* has just been reset.  Once latched, safe commands go to the RTE for good.
CanMonitor ==
    /\ pc = "can_monitor"
    /\ \E warning \in IF "can" \in disturbed THEN BOOLEAN ELSE {FALSE} :
          LET count == IF warning THEN can_monitor.err_count + 1 ELSE 0
          IN  can_monitor' =
                 IF can_monitor.latched THEN can_monitor
                 ELSE [err_count |-> count, latched |-> count >= ErrWarnCycles]
    /\ rte' = IF can_monitor'.latched
              THEN [rte EXCEPT !.brake_cmd = FullBrake, !.steer_cmd = 0] ELSE rte
    /\ pc' = "transmit"
    /\ UNCHANGED <<com, steering, brake, grace, tx_cycle, unfed, disturbed, observers>>

\* Swc_FzcCom_TransmitSchedule: the E2E-protected cutoff frame, paced.
Transmit ==
    /\ pc = "transmit"
    /\ tx_cycle' = (tx_cycle + 1) % TxPeriod
    /\ reported' = (reported \/ (tx_cycle' = 0 /\ rte.motor_cutoff))
    /\ pc' = "receive"
    /\ UNCHANGED <<com, rte, steering, brake, grace, can_monitor, unfed, disturbed,
                   since_estop, deviating_for, implausible_for>>

\* The watchdog chip resets the controller: main() initialises everything.
Reset ==
    /\ unfed >= WatchdogCycles
    /\ pc' = "receive"
    /\ com' = ComAtStart
    /\ rte' = RteAtStart
    /\ steering' = Swc_Steering_Init
    /\ brake' = Swc_Brake_Init
    /\ grace' = PostInitGraceCycles
    /\ can_monitor' = CanMonitorAtStart
    /\ tx_cycle' = TxStart
    /\ unfed' = 0
    /\ since_estop' = BrakeLatchClear
    /\ deviating_for' = 0
    /\ implausible_for' = 0
    /\ reported' = FALSE
    /\ UNCHANGED disturbed

Cycle == Receive \/ Steering \/ Brake \/ Safety \/ CanMonitor \/ Transmit
Next == Cycle \/ Reset

Spec == Init /\ [][Next]_vars

\* The main loop goes on, and a starved watchdog chip resets the controller.
FairSpec == Spec /\ WF_vars(Cycle) /\ WF_vars(Reset)

-----------------------------------------------------------------------------

\* Types of the state: the counters stay within their limits and the uint8
\* ones within their width.
TypeOK ==
    /\ pc \in {"receive", "steering", "brake", "safety", "can_monitor", "transmit"}
    /\ \A pdu \in PDUs : com[pdu] \in [value : PduValues[pdu], age : 0 .. Deadline[pdu]]
    /\ DOMAIN com = PDUs
    /\ rte \in [estop_active : BOOLEAN, vehicle_state : PduValues.state,
                steer_cmd : PduValues.steer, brake_cmd : PduValues.brake,
                steer_fault : SteeringFaults \cup {"NO_FAULT"},
                brake_fault : BrakeFaults \cup {"NO_FAULT"}, motor_cutoff : BOOLEAN]
    /\ steering \in SteeringVariables
    /\ brake \in BrakeVariables
    /\ grace \in 0 .. PostInitGraceCycles
    /\ can_monitor \in [err_count : 0 .. ErrWarnCycles, latched : BOOLEAN]
    /\ tx_cycle \in 0 .. TxPeriod - 1
    /\ unfed \in 0 .. WatchdogCycles
    /\ disturbed \in Disturbances
    /\ since_estop \in 0 .. BrakeLatchClear
    /\ deviating_for \in 0 .. BrakeDebounce
    /\ implausible_for \in 0 .. PlausDebounce
    /\ reported \in BOOLEAN

\* After an E-stop the brake is fully applied for the whole latch time,
\* whatever commands, sensor readings and further faults come in, unless the
\* controller restarts.
EstopHoldsBrake == since_estop < BrakeLatchClear => brake.pwm = FullBrake

\* A brake that stays off its command for the debounce time is latched and
\* fully applied, and stays so for as long as it is off, although the uint8
\* counter wraps around.
DeviationKeepsBraking ==
    deviating_for = BrakeDebounce => brake.latched /\ brake.pwm = FullBrake

\* A steering angle off the commanded one for the debounce time holds the
\* steering at the centre for as long as it is off, although the uint8
\* counter wraps around.
ImplausibleKeepsNeutral ==
    implausible_for = PlausDebounce => steering.latched /\ steering.pwm = 0

\* The safety monitor, which writes the cutoff signal after the brake and
\* without reading it, does not withdraw a cutoff sequence under way once the
\* grace time is over.
CutoffNotWithdrawn ==
    pc \in {"can_monitor", "transmit", "receive"} /\ grace = 0 /\ brake.sending
        => rte.motor_cutoff

\* A brake latch is not cleared before its cutoff went out in an E2E-protected
\* frame, although the frames are paced.
CutoffReported ==
    [][pc = "brake" /\ pc' = "safety" /\ brake.latched /\ ~brake'.latched => reported]_vars

\* Once it had a fault, the steering output stays at the centre until the
\* controller restarts: SWR-FZC-006.
NeutralUntilReset ==
    [][pc = "steering" /\ pc' = "brake" /\ steering.disable_level > 0
          => steering'.pwm = 0 /\ steering'.disable_level > 0]_vars

\* The steering output moves away from the centre by at most the rate limit.
MagnitudeRateLimited ==
    [][Magnitude(steering'.pwm) <= Magnitude(steering.pwm) + RateLimit]_vars

\* The brake is not held latched for ever: the latch clears, or it starves the
\* watchdog and the controller restarts.
BrakeLatchEnds == []<>(~brake.latched)

\* What SWR-FZC.md:427 says of a lost CAN bus, once the monitor found it and
\* the brake has run: the brake is fully applied until a power cycle.
BusLossBrakes == pc = "safety" /\ can_monitor.latched => brake.pwm = FullBrake

\* What Swc_Brake.c:208 says of an E-stop: full braking, latched.  While the
\* received E-stop stands the brake is not released.
EstopNeverReleased ==
    [][com["estop"].value /\ brake.pwm = FullBrake => brake'.pwm = FullBrake]_vars
=============================================================================
