---------------------------- MODULE VehicleState ----------------------------
(***************************************************************************)
(* The vehicle state machine of the Central Vehicle Computer               *)
(* (firmware/cvc/src/Swc_VehicleState.c) as its main loop runs it: every   *)
(* 10 ms the RTE dispatches the software components, which write their RTE *)
(* signals and of which the state machine is one, and then                 *)
(* Swc_CvcCom_BridgeRxToRte copies the fault signals received over CAN     *)
(* from the Com buffers to the RTE.  The state machine thus reads signals  *)
(* up to a cycle older than the Com buffers it confirms them against.      *)
(*                                                                         *)
(* The file's static variables are the fields of one record, so that the   *)
(* steps of one pass of the main function compose in the code's order.     *)
(***************************************************************************)
EXTENDS Integers, FiniteSets, BswM

CONSTANTS
    InitHoldCycles,       \* CVC_INIT_HOLD_CYCLES
    PostInitGraceCycles,  \* CVC_POST_INIT_GRACE_CYCLES, 0 on the target
    ConfirmThreshold,     \* CVC_FAULT_CONFIRM_THRESHOLD
    UnlatchCycles,        \* CVC_FAULT_UNLATCH_CYCLES
    RecoveryCycles,       \* CVC_SAFE_STOP_RECOVERY_CYCLES
    CreepDebounceTicks,   \* CVC_CREEP_DEBOUNCE_TICKS
    MaxAbnormal           \* how many signals are abnormal at a time

ASSUME VehicleAssumption ==
    /\ InitHoldCycles \in Nat \ {0}
    /\ PostInitGraceCycles \in Nat
    /\ ConfirmThreshold \in Nat \ {0}
    /\ UnlatchCycles \in Nat \ {0}
    /\ RecoveryCycles \in Nat \ {0}
    /\ CreepDebounceTicks \in Nat \ {0}
    /\ MaxAbnormal \in Nat

VARIABLES
    pc,           \* what the main loop does next
    vsm,          \* the state machine's variables, and the BSW mode
    rte,          \* RTE signals
    com,          \* Com buffers of the bridged signals
    received,     \* a frame came in since the last bridging
    self_test_ok, \* observer: the power-up self-test passed
    drove_with,   \* observer: cycles in a row that a fault was driven with
    in_init,      \* observer: cycles in a row spent in INIT
    stop          \* observer: the current SAFE_STOP

observers == <<self_test_ok, drove_with, in_init, stop>>
vars == <<pc, vsm, rte, com, received, observers>>

-----------------------------------------------------------------------------
(* Signals.  Torque: below the creep threshold; above it with the pedal up;
   or with the pedal pressed.  CVC_SIG_MOTOR_SPEED has no writer and stays at
   0, so the creep guard sees a standstill at all times.  The E2E status the
   brake fault is confirmed against is always good: Swc_CvcCom_Receive, which
   would change it, has no caller.                                          *)

BridgedSignals == [motor_cutoff : BOOLEAN, motor_fault_rzc : BOOLEAN,
                   brake_fault : BOOLEAN, steering_fault : BOOLEAN,
                   sc_killed : BOOLEAN, battery : {"NORMAL", "WARN", "CRIT"}]

NormalBridged == [motor_cutoff |-> FALSE, motor_fault_rzc |-> FALSE, brake_fault |-> FALSE,
                  steering_fault |-> FALSE, sc_killed |-> FALSE, battery |-> "NORMAL"]

SwcSignals == [estop_active : BOOLEAN, pedal_fault : BOOLEAN, fzc_timeout : BOOLEAN,
               rzc_timeout : BOOLEAN, torque : {"none", "unintended", "pedal"}]

NormalSwc == [estop_active |-> FALSE, pedal_fault |-> FALSE, fzc_timeout |-> FALSE,
              rzc_timeout |-> FALSE, torque |-> "none"]

\* What the main function reads: bridged signals and those of other components.
Signals(bridged, swc) ==
    [f \in DOMAIN NormalBridged \cup DOMAIN NormalSwc |->
       IF f \in DOMAIN NormalBridged THEN bridged[f] ELSE swc[f]]

Abnormal(record, normal) == {f \in DOMAIN normal : record[f] # normal[f]}

-----------------------------------------------------------------------------
(* Swc_VehicleState_OnEvent *)

States == {"INIT", "RUN", "DEGRADED", "LIMP", "SAFE_STOP", "SHUTDOWN"}
DrivingStates == {"RUN", "DEGRADED", "LIMP"}

state_to_bswm_mode ==
    [INIT |-> "STARTUP", RUN |-> "RUN", DEGRADED |-> "DEGRADED", LIMP |-> "DEGRADED",
     SAFE_STOP |-> "SAFE_STOP", SHUTDOWN |-> "SHUTDOWN"]

Stopping == {"PEDAL_FAULT_DUAL", "CAN_TIMEOUT_DUAL", "ESTOP", "SC_KILL", "BRAKE_FAULT",
             "CREEP_FAULT"}

\* Where an event leads from a state, for the events valid there.
\* SELF_TEST_PASS is not looked up in INIT and valid nowhere else.
transition_table ==
    LET stopOn(events) == [e \in Stopping \cup events |-> "SAFE_STOP"]
        merge(f, g) == [e \in DOMAIN f \cup DOMAIN g |-> IF e \in DOMAIN f THEN f[e] ELSE g[e]]
    IN  [INIT |-> [SELF_TEST_FAIL |-> "SAFE_STOP", SC_KILL |-> "SAFE_STOP"],
         RUN |-> merge(stopOn({}),
                        [PEDAL_FAULT_SINGLE |-> "DEGRADED", MOTOR_CUTOFF |-> "DEGRADED",
                         STEERING_FAULT |-> "DEGRADED", BATTERY_WARN |-> "DEGRADED",
                         CAN_TIMEOUT_SINGLE |-> "LIMP", BATTERY_CRIT |-> "LIMP"]),
         DEGRADED |-> merge(stopOn({"MOTOR_CUTOFF", "STEERING_FAULT"}),
                           [CAN_TIMEOUT_SINGLE |-> "LIMP", BATTERY_CRIT |-> "LIMP",
                            FAULT_CLEARED |-> "RUN"]),
         LIMP |-> merge(stopOn({"MOTOR_CUTOFF", "STEERING_FAULT", "BATTERY_CRIT"}),
                       [FAULT_CLEARED |-> "RUN", CAN_RESTORED |-> "DEGRADED"]),
         SAFE_STOP |-> [VEHICLE_STOPPED |-> "SHUTDOWN"],
         SHUTDOWN |-> << >>]

\* A latch is named after the event that sets it.  CREEP_FAULT has an index in
\* the array but no case in the switch that sets latches.
LatchedEvents == {"ESTOP", "SC_KILL", "MOTOR_CUTOFF", "BRAKE_FAULT", "STEERING_FAULT",
                  "PEDAL_FAULT_DUAL", "CAN_TIMEOUT_DUAL", "BATTERY_CRIT"}
Latches == LatchedEvents \cup {"CREEP_FAULT"}

EnterState(v, next) ==
    [v EXCEPT !.state = next,
              !.mode = BswM_RequestMode(@, state_to_bswm_mode[next])]

OnEvent(v, event) ==
    IF event = "SELF_TEST_PASS" /\ v.state = "INIT"
    THEN [v EXCEPT !.self_test_pass_pending = TRUE]
    ELSE IF event \notin DOMAIN transition_table[v.state] THEN v
    ELSE LET next == transition_table[v.state][event]
             v1   == EnterState(v, next)
         IN  IF next = "SAFE_STOP" /\ event \in LatchedEvents
             THEN [v1 EXCEPT !.fault_latched = @ \cup {event},
                             !.fault_unlatch_count[event] = 0]
             ELSE v1

OnEventIf(v, condition, event) == IF condition THEN OnEvent(v, event) ELSE v

-----------------------------------------------------------------------------
(* The steps of Swc_VehicleState_MainFunction, on the signals read at its
   start.                                                                  *)

CommOk(in) == ~in.fzc_timeout /\ ~in.rzc_timeout

NoFaultCounted == [f \in {"MOTOR_CUTOFF", "MOTOR_RZC", "BRAKE", "STEERING"} |-> 0]

\* Step 2: the hold time in INIT, and the end of it.
InitHold(v, in) ==
    LET held == IF v.init_hold_counter < InitHoldCycles
                THEN v.init_hold_counter + 1 ELSE v.init_hold_counter
    IN  IF v.state # "INIT" THEN v
        ELSE IF v.self_test_pass_pending /\ held >= InitHoldCycles /\ CommOk(in)
        THEN [EnterState(v, "RUN") EXCEPT
                 !.init_hold_counter = held,
                 !.self_test_pass_pending = FALSE,
                 !.creep_debounce_count = 0,
                 !.fault_confirm_count = NoFaultCounted,
                 !.post_init_grace_counter = PostInitGraceCycles]
        ELSE [v EXCEPT !.init_hold_counter = held]

CanEvents(v, in) ==
    IF in.fzc_timeout /\ in.rzc_timeout THEN OnEvent(v, "CAN_TIMEOUT_DUAL")
    ELSE IF CommOk(in) THEN OnEventIf(v, v.state = "LIMP", "CAN_RESTORED")
    ELSE OnEventIf(v, v.state \in {"RUN", "DEGRADED"}, "CAN_TIMEOUT_SINGLE")

BatteryEvents(v, in) ==
    OnEventIf(OnEventIf(v, v.state \in DrivingStates /\ in.battery = "CRIT", "BATTERY_CRIT"),
              v.state \in DrivingStates /\ in.battery = "WARN", "BATTERY_WARN")

\* Mutant of CreepGuard: the fault comes one tick late.
CreepGuardLate(v, in) ==
    IF v.state \notin DrivingStates \/ in.pedal_fault \/ in.torque = "pedal" THEN v
    ELSE IF in.torque = "none" THEN [v EXCEPT !.creep_debounce_count = 0]
    ELSE LET v1 == [v EXCEPT !.creep_debounce_count = @ + 1]
         IN  OnEventIf(v1, v1.creep_debounce_count > CreepDebounceTicks, "CREEP_FAULT")

\* The debounce stands still while the pedal is pressed or faulty.
CreepGuard(v, in) ==
    IF v.state \notin DrivingStates \/ in.pedal_fault \/ in.torque = "pedal" THEN v
    ELSE IF in.torque = "none" THEN [v EXCEPT !.creep_debounce_count = 0]
    ELSE LET v1 == [v EXCEPT !.creep_debounce_count = @ + 1]
         IN  OnEventIf(v1, v1.creep_debounce_count >= CreepDebounceTicks, "CREEP_FAULT")

DegradedFaultsClear(in) ==
    /\ ~in.pedal_fault /\ ~in.motor_cutoff /\ ~in.motor_fault_rzc /\ ~in.brake_fault
    /\ in.battery = "NORMAL"

\* Step 3.
DeriveEvents(v, in) ==
    LET v1 == OnEventIf(v, in.estop_active, "ESTOP")
        v2 == OnEventIf(v1, in.sc_killed /\ v1.state # "INIT" /\ v1.post_init_grace_counter = 0,
                        "SC_KILL")
        v3 == CanEvents(v2, in)
        v4 == OnEventIf(v3, v3.state = "RUN" /\ in.pedal_fault, "PEDAL_FAULT_SINGLE")
        v5 == CreepGuard(BatteryEvents(v4, in), in)
    IN  OnEventIf(v5, v5.state = "DEGRADED" /\ DegradedFaultsClear(in), "FAULT_CLEARED")

\* Mutant of ConfirmFault: one cycle late.
ConfirmFaultLate(v, fault, active, fresh, event) ==
    IF ~active THEN [v EXCEPT !.fault_confirm_count[fault] = 0]
    ELSE IF v.fault_confirm_count[fault] < ConfirmThreshold
    THEN [v EXCEPT !.fault_confirm_count[fault] = @ + 1]
    ELSE [OnEventIf(v, fresh, event) EXCEPT !.fault_confirm_count[fault] = 0]

\* The count starts over at the threshold, whether the fresh value in the Com
\* buffer confirms the fault or not.
ConfirmFault(v, fault, active, fresh, event) ==
    IF ~active THEN [v EXCEPT !.fault_confirm_count[fault] = 0]
    ELSE IF v.fault_confirm_count[fault] + 1 < ConfirmThreshold
    THEN [v EXCEPT !.fault_confirm_count[fault] = @ + 1]
    ELSE [OnEventIf(v, fresh, event) EXCEPT !.fault_confirm_count[fault] = 0]

\* Step 4.
ConfirmFaults(v, in, buf) ==
    LET v1 == ConfirmFault(v, "MOTOR_CUTOFF", in.motor_cutoff, buf.motor_cutoff, "MOTOR_CUTOFF")
        v2 == ConfirmFault(v1, "MOTOR_RZC", in.motor_fault_rzc, buf.motor_fault_rzc, "MOTOR_CUTOFF")
        v3 == ConfirmFault(v2, "BRAKE", in.brake_fault, buf.brake_fault, "BRAKE_FAULT")
    IN  IF v.post_init_grace_counter > 0
        THEN [v EXCEPT !.post_init_grace_counter = @ - 1]
        ELSE IF v.state = "INIT" THEN v
        ELSE ConfirmFault(v3, "STEERING", in.steering_fault, TRUE, "STEERING_FAULT")

\* The raw signal behind a latch.
Raw(in, latch) ==
    CASE latch = "ESTOP" -> in.estop_active
      [] latch = "SC_KILL" -> in.sc_killed
      [] latch = "MOTOR_CUTOFF" -> in.motor_cutoff \/ in.motor_fault_rzc
      [] latch = "BRAKE_FAULT" -> in.brake_fault
      [] latch = "STEERING_FAULT" -> in.steering_fault
      [] latch = "PEDAL_FAULT_DUAL" -> in.pedal_fault
      [] latch = "CAN_TIMEOUT_DUAL" -> in.fzc_timeout /\ in.rzc_timeout
      [] latch = "BATTERY_CRIT" -> in.battery # "NORMAL"
      [] latch = "CREEP_FAULT" -> FALSE

AllClear(in) ==
    /\ CommOk(in)
    /\ \A latch \in Latches : ~Raw(in, latch)

\* Mutant of Unlatch: a fault that comes back does not start the count anew.
UnlatchCumulative(v, in) ==
    LET released == {l \in v.fault_latched :
                       ~Raw(in, l) /\ v.fault_unlatch_count[l] + 1 >= UnlatchCycles}
    IN  [v EXCEPT
            !.fault_latched = @ \ released,
            !.fault_unlatch_count = [l \in Latches |->
                IF l \notin v.fault_latched \/ Raw(in, l) THEN @[l]
                ELSE IF l \in released THEN 0 ELSE @[l] + 1]]

Unlatch(v, in) ==
    LET released == {l \in v.fault_latched :
                       ~Raw(in, l) /\ v.fault_unlatch_count[l] + 1 >= UnlatchCycles}
    IN  [v EXCEPT
            !.fault_latched = @ \ released,
            !.fault_unlatch_count = [l \in Latches |->
                IF l \notin v.fault_latched THEN @[l]
                ELSE IF Raw(in, l) \/ l \in released THEN 0 ELSE @[l] + 1]]

\* Mutant of RecoveryAllowed: the latches are not looked at.
RecoveryAllowedLatched(v, in) == AllClear(in)

RecoveryAllowed(v, in) == v.fault_latched = {} /\ AllClear(in)

\* Mutants of LeaveSafeStop: the hold time in INIT is not started anew; the
\* self-test is not taken as passed again.
LeaveSafeStopKeepsHold(v) ==
    [EnterState(v, "INIT") EXCEPT !.safe_stop_clear_count = 0, !.self_test_pass_pending = TRUE]

LeaveSafeStopNotPending(v) ==
    [EnterState(v, "INIT") EXCEPT !.safe_stop_clear_count = 0, !.init_hold_counter = 0]

LeaveSafeStop(v) ==
    [EnterState(v, "INIT") EXCEPT !.safe_stop_clear_count = 0,
                                  !.init_hold_counter = 0,
                                  !.self_test_pass_pending = TRUE]

\* Step 5.
Recover(v, in) ==
    LET v1 == Unlatch(v, in) IN
    IF v.state # "SAFE_STOP" THEN v
    ELSE IF ~RecoveryAllowed(v1, in) THEN [v1 EXCEPT !.safe_stop_clear_count = 0]
    ELSE IF v1.safe_stop_clear_count + 1 < RecoveryCycles
    THEN [v1 EXCEPT !.safe_stop_clear_count = @ + 1]
    ELSE LeaveSafeStop(v1)

AfterMainFunction(v, in, buf) ==
    Recover(ConfirmFaults(DeriveEvents(InitHold(v, in), in), in, buf), in)

-----------------------------------------------------------------------------
(* Observers *)

\* Whether a cycle that read in and buf met fault f, confirmed where the code
\* asks for a confirmation.
Met(f, in, buf) ==
    CASE f = "ESTOP" -> in.estop_active
      [] f = "CAN_DUAL" -> in.fzc_timeout /\ in.rzc_timeout
      [] f = "SC_KILL" -> in.sc_killed
      [] f = "BRAKE" -> in.brake_fault /\ buf.brake_fault
      [] f = "MOTOR" -> in.motor_cutoff /\ buf.motor_cutoff

\* How many cycles in a row may end in a driving state although they met a
\* fault.  A motor fault is confirmed twice: the first time the vehicle is
\* degraded.  There is no such limit for a steering fault, see ClearedMeansClear.
DriveLimit ==
    [ESTOP |-> 0, CAN_DUAL |-> 0, SC_KILL |-> PostInitGraceCycles,
     BRAKE |-> PostInitGraceCycles + ConfirmThreshold - 1,
     MOTOR |-> PostInitGraceCycles + 2 * ConfirmThreshold - 1]

CountTo(limit, n) == IF n < limit THEN n + 1 ELSE limit

\* Of the current SAFE_STOP: what was latched on entry, for how many cycles in
\* a row that has been gone, whether it was once gone for the unlatch time, and
\* for how many cycles in a row since then there has been no fault at all.
StopEntered(latched) == [latched |-> latched, cause_clear |-> 0, gone |-> FALSE, quiet |-> 0]
NotStopped == StopEntered({})

StopAfter(in) ==
    LET before == IF vsm.state = "SAFE_STOP" THEN stop ELSE StopEntered(vsm'.fault_latched)
        clear  == IF \A l \in before.latched : ~Raw(in, l)
                  THEN CountTo(UnlatchCycles, before.cause_clear) ELSE 0
        gone   == before.gone \/ before.latched = {} \/ clear >= UnlatchCycles
    IN  [latched |-> before.latched, cause_clear |-> clear, gone |-> gone,
         quiet |-> IF gone /\ AllClear(in) THEN CountTo(RecoveryCycles, before.quiet) ELSE 0]

Observe(in, buf) ==
    /\ drove_with' = [f \in DOMAIN DriveLimit |->
                         IF vsm'.state \in DrivingStates /\ Met(f, in, buf)
                         THEN CountTo(DriveLimit[f] + 1, drove_with[f]) ELSE 0]
    /\ in_init' = IF vsm.state = "INIT" /\ vsm'.state = "INIT"
                  THEN CountTo(InitHoldCycles, in_init) ELSE 0
    /\ stop' = IF "SAFE_STOP" \in {vsm.state, vsm'.state} THEN StopAfter(in) ELSE NotStopped
    /\ UNCHANGED self_test_ok

-----------------------------------------------------------------------------
(* Actions *)

Swc_VehicleState_Init ==
    [state |-> "INIT", mode |-> "STARTUP", self_test_pass_pending |-> FALSE,
     init_hold_counter |-> 0, safe_stop_clear_count |-> 0, post_init_grace_counter |-> 0,
     creep_debounce_count |-> 0, fault_confirm_count |-> NoFaultCounted,
     fault_latched |-> {}, fault_unlatch_count |-> [l \in Latches |-> 0]]

\* The relay signal is 0 in the RTE, which reads as killed, until the first
\* bridging; the Com buffer starts with the relay energized.  Both zone ECUs
\* are timed out until their heartbeats prove the contrary.
Init ==
    /\ pc = "selftest" /\ vsm = Swc_VehicleState_Init
    /\ rte = [bridged |-> [NormalBridged EXCEPT !.sc_killed = TRUE],
             swc |-> [NormalSwc EXCEPT !.fzc_timeout = TRUE, !.rzc_timeout = TRUE]]
    /\ com = NormalBridged /\ received = FALSE
    /\ self_test_ok = FALSE
    /\ drove_with = [f \in DOMAIN DriveLimit |-> 0] /\ in_init = 0 /\ stop = NotStopped

SelfTest(passed) ==
    /\ pc = "selftest"
    /\ pc' = "rte"
    /\ vsm' = IF passed
              THEN [OnEvent(vsm, "SELF_TEST_PASS") EXCEPT !.mode = BswM_RequestMode(@, "RUN")]
              ELSE OnEvent(vsm, "SELF_TEST_FAIL")
    /\ self_test_ok' = passed
    /\ UNCHANGED <<rte, com, received, drove_with, in_init, stop>>

\* Bound on the signals that are abnormal at the same time.
FewAbnormal(buf, swc) ==
    Cardinality(Abnormal(buf, NormalBridged)) + Cardinality(Abnormal(swc, NormalSwc)) <= MaxAbnormal

\* Can_MainFunction_Read and Com_MainFunction_Rx update one signal's buffer,
\* with a received value or, at a deadline, with zero.  At most one signal
\* changes between two bridgings.
ComReceive(signal) ==
    /\ pc = "rte" /\ ~received
    /\ com' \in {[com EXCEPT ![signal] = v] :
                  v \in IF signal = "battery" THEN {"NORMAL", "WARN", "CRIT"} ELSE BOOLEAN}
    /\ com' # com /\ FewAbnormal(com', rte.swc)
    /\ received' = TRUE
    /\ UNCHANGED <<pc, vsm, rte, observers>>

\* Another software component writes its signal.  The E-stop is never taken
\* back (Swc_EStop latches it).
SwcWrite(signal) ==
    /\ pc = "rte"
    /\ rte' \in {[rte EXCEPT !.swc[signal] = v] :
                  v \in CASE signal = "torque" -> {"none", "unintended", "pedal"}
                         [] signal = "estop_active" -> {TRUE}
                         [] OTHER -> BOOLEAN}
    /\ rte' # rte /\ FewAbnormal(com, rte'.swc)
    /\ UNCHANGED <<pc, vsm, com, received, observers>>

Swc_VehicleState_MainFunction ==
    /\ pc = "rte"
    /\ pc' = "bridge"
    /\ LET in == Signals(rte.bridged, rte.swc)
       IN  /\ vsm' = AfterMainFunction(vsm, in, com)
           /\ Observe(in, com)
    /\ UNCHANGED <<rte, com, received>>

Swc_CvcCom_BridgeRxToRte ==
    /\ pc = "bridge"
    /\ pc' = "rte"
    /\ rte' = [rte EXCEPT !.bridged = com]
    /\ received' = FALSE
    /\ UNCHANGED <<vsm, com, observers>>

Next ==
    \/ \E passed \in BOOLEAN : SelfTest(passed)
    \/ \E signal \in DOMAIN NormalBridged : ComReceive(signal)
    \/ \E signal \in DOMAIN NormalSwc : SwcWrite(signal)
    \/ Swc_VehicleState_MainFunction
    \/ Swc_CvcCom_BridgeRxToRte

Spec == Init /\ [][Next]_vars

\* The main loop never stops moving: the self-test, the state machine and the
\* bridging are the steps that change pc.  Nothing is assumed of the signals.
FairSpec == Spec /\ WF_pc(pc' \in {"rte", "bridge"})

-----------------------------------------------------------------------------
(* Properties *)

VsmVariables ==
    [state : States, mode : BswM_ModeType, self_test_pass_pending : BOOLEAN,
     init_hold_counter : 0 .. InitHoldCycles,
     safe_stop_clear_count : 0 .. RecoveryCycles - 1,
     post_init_grace_counter : 0 .. PostInitGraceCycles,
     creep_debounce_count : 0 .. CreepDebounceTicks,
     fault_confirm_count : [DOMAIN NoFaultCounted -> 0 .. ConfirmThreshold - 1],
     fault_latched : SUBSET Latches,
     fault_unlatch_count : [Latches -> 0 .. UnlatchCycles - 1]]

\* Types of the state: no counter passes its limit.
TypeOK ==
    /\ pc \in {"selftest", "rte", "bridge"}
    /\ vsm \in VsmVariables
    /\ rte \in [bridged : BridgedSignals, swc : SwcSignals]
    /\ com \in BridgedSignals /\ received \in BOOLEAN /\ self_test_ok \in BOOLEAN
    /\ drove_with \in [DOMAIN DriveLimit -> Nat] /\ in_init \in 0 .. InitHoldCycles
    /\ stop \in [latched : SUBSET Latches, cause_clear : 0 .. UnlatchCycles,
                 gone : BOOLEAN, quiet : 0 .. RecoveryCycles]

\* No critical fault is driven with for longer than its debounce: an E-stop or
\* a double timeout not for one cycle, a kill not beyond the grace, a confirmed
\* brake or motor fault not beyond its confirmations.
FaultsStopInTime == \A f \in DOMAIN DriveLimit : drove_with[f] <= DriveLimit[f]

\* SAFE_STOP is left only for INIT, and only after the latched fault has been
\* gone for the whole unlatch time in a row and then all faults for the whole
\* recovery time in a row.
RecoveryNeedsQuiet ==
    [][vsm.state = "SAFE_STOP" /\ vsm'.state # "SAFE_STOP" =>
         vsm'.state = "INIT" /\ stop'.gone /\ stop'.quiet >= RecoveryCycles]_vars

\* However INIT was entered, the vehicle drives only after the whole hold time.
FullInitHold ==
    [][pc = "rte" /\ vsm.state = "INIT" /\ vsm'.state # "INIT" => in_init + 1 >= InitHoldCycles]_vars

\* The latch array never holds more than the one fault that caused the current
\* stop, and nothing once the stop is left.
OneLatchPerStop ==
    /\ Cardinality(vsm.fault_latched) <= 1
    /\ vsm.fault_latched # {} => vsm.state = "SAFE_STOP"

\* BswM hears of every stop, except of one before it ever left STARTUP.
BswMHearsOfStops ==
    vsm.state = "SAFE_STOP" => vsm.mode = "SAFE_STOP" \/ (vsm.mode = "STARTUP" /\ ~self_test_ok)

\* When all signals are and stay clear, the vehicle is eventually in RUN for good.
Clear == AllClear(Signals(com, rte.swc)) /\ rte.swc.torque # "unintended"
Recovers == <>[]Clear => <>[](vsm.state = "RUN")

\* The vehicle goes back to RUN only when all faults that lead to DEGRADED or
\* LIMP are clear.
ClearedMeansClear ==
    [][vsm.state \in {"DEGRADED", "LIMP"} /\ vsm'.state = "RUN" =>
         DegradedFaultsClear(Signals(rte.bridged, rte.swc)) /\ ~rte.bridged.steering_fault]_vars

\* The vehicle drives only after its self-test has passed.
DrivesOnlyAfterSelfTest == vsm.state \in DrivingStates => self_test_ok
=============================================================================
