# Verification of the Taktflow embedded vehicle platform

TLA+ models, TLC configurations and machine-checked proofs for the firmware under
`src/firmware/`. Paths below are relative to the repository's root, `src/` here.

Contents: 1 inventory, 2 modules and their relation to the code, 3 runs and bounds,
4 fairness, 5 proofs, 6 where the code departs from its documents, 7 what is not
modelled, 8 plan.

## 1. Inventory

The vehicle has seven ECUs on one CAN bus.

* **CVC** (central vehicle computer), **FZC** (front zone: brake, steering, lidar) and
  **RZC** (rear zone: motor, current, temperature, battery) are STM32 controllers on a
  common AUTOSAR-like base software (`firmware/shared/bsw`).
* **SC** (safety controller) is a TMS570 with lockstep cores and no base software. It
  listens to the bus, and its relay is in series with the motor supply.
* **BCM**, **ICU**, **TCU** are simulated comfort and diagnostic ECUs.

`gateway/`, `test/`, `tools/`, `scripts/` hold the plant simulation, bridges and test
rigs in Python. They are outside the vehicle.

### Safety Controller (`firmware/sc`)

| Part | State | Operations | Correct when |
|---|---|---|---|
| `sc_main.c` | loop position, tick flag | start-up test, relay close, the calls of one 10 ms iteration | each trigger acts in the iteration that raises it |
| `sc_can.c`, `sc_e2e.c` | stored torque and current, bus silence, bus-off, last alive number and failure count per mailbox | `SC_CAN_Receive`, `SC_CAN_MonitorBus`, `SC_E2E_Check` | a frame that fails its check changes nothing but the failure count |
| `sc_heartbeat.c` | per ECU timer, timeout, confirmation, recovery and content counters; start-up grace | `NotifyRx`, `ValidateContent`, `Monitor` | a silent ECU is always found, a punctual one never condemned |
| `sc_plausibility.c` | debounce, backup cutoff and creep counters, three fault flags | `SC_Plausibility_Check`, `SC_CreepGuard_Check` | a drive fault is acted upon within its debounce |
| `sc_relay.c` | commanded, kill latch and its reason, readback count; the pin | `Energize`, `DeEnergize`, `CheckTriggers` | power flows only in health; the latch holds |
| `sc_state.c`, `sc_monitoring.c`, `sc_led.c` | reported state, transmit divider, LED states | `SC_State_*`, `SC_Monitoring_Update`, `SC_LED_Update` | `SC_Status` tells the truth |
| `sc_selftest.c`, `sc_esm.c`, `sc_watchdog.c` | start-up and run-time results, canary; ESM flag; WDI pin | start-up and run-time tests, lockstep interrupt, conditional feed | an unhealthy controller is reset |

All of it runs in one loop; the lockstep interrupt, the RTI tick and the external
watchdog act from outside. Hard: interrupts and resets between two calls, the order of
calls, lost ticks, partial recoveries of several ECUs at once, flags and counters kept
in parallel.

### CVC (`firmware/cvc`)

`Swc_VehicleState.c` is the vehicle's mode manager: six states, a table of events, and
per fault a confirmation counter, a latch with a release counter, and a recovery
counter. The RTE runs the components in priority order (CAN read and `Com` reception,
`Swc_EStop`, `Swc_Pedal`, `Swc_VehicleState`, `Swc_Heartbeat`, `Swc_Dashboard`,
transmission); then `main.c` runs CanTp, Dcm, `BswM_MainFunction` and
`Swc_CvcCom_BridgeRxToRte`. The state machine thus debounces RTE signals that are up to
a cycle older than the `Com` buffers it confirms them against. Correct when critical
faults stop the vehicle within their debounce, a stop is left only after a quiet period,
the vehicle comes back when everything is clear, and the second state machine, `BswM`,
agrees. Hard: ten signals and several events per pass, lists kept in step by hand,
latches and counters that must each restart.

`Swc_Heartbeat.c` (with `Com` reception and `E2E_Sm.c`) supervises the two zone ECUs: it
polls a received alive number every 50 ms and feeds "changed" or "not changed" to a
sliding window. Correct when a silent controller is found in bounded time and a healthy
one is neither condemned nor kept out. Hard: the poll and the sender drift, `Com` changes
the number by itself when its receive deadline passes, the window's counters are kept
incrementally.
`Swc_Pedal.c`, `Swc_EStop.c`, `Swc_SelfTest.c`, `Swc_Dashboard.c`, `Swc_Watchdog.c`,
`Swc_CanMonitor.c`, `Swc_Nvm.c` are the other components.

### FZC (`firmware/fzc`)

| Part | State | Operations | Correct when |
|---|---|---|---|
| `Swc_Brake.c` | command time-out, deviation and oscillation debounce, latch and its counter, cutoff sequence | one pass per 10 ms | an E-stop or a deviation keeps the brake applied; every latch ends |
| `Swc_Steering.c` | plausibility debounce, rate limit, latch, PWM disable | one pass per 10 ms | an implausible angle keeps the output neutral; the angle never jumps outwards |
| `Swc_FzcSafety.c` | fault mask, start-up grace | aggregates faults, requests the motor cutoff, feeds the watchdog | a cutoff is neither withdrawn nor cleared untold |
| `Swc_FzcCom.c`, `Swc_FzcCanMonitor.c` | Com buffers, transmit schedule; error counters, safe-state latch | copy to RTE, cutoff frame; CAN checks | a latched safe state takes effect |

The components meet in RTE signals and run in the order of their priorities, so that a
later one overwrites what an earlier one wrote. Hard: several writers of one signal,
`uint8` debounce counters that wrap, a latch that starves the watchdog that ends it.

### RZC (`firmware/rzc`)

| Part | State | Operations | Correct when |
|---|---|---|---|
| `Swc_Motor.c` | direction, dead-time flag, command time-out and recovery | every 10 ms | off between directions; drives only as commanded |
| `Swc_CurrentMonitor.c` | window of readings, debounce, recovery | every 1 ms | an overcurrent is found and kept |
| `Swc_Encoder.c`, `Swc_TempMonitor.c` | stall and direction checks with grace; derating with hysteresis | 10 ms, 100 ms | |
| `Swc_RzcSafety.c` | fault mask, CAN loss, failed self-checks | every 100 ms; feeds the watchdog | a critical fault does not last |
| `Swc_RzcCom.c`, `Swc_RzcSensorFeeder.c` | E2E failure count, torque time-out | every 10 ms | |

Hard: motor and current monitor drive the same enable pins at different rates, a reversal
is deferred by a run, a constant command is taken for a lost sender.

FZC and RZC each have a cyclic heartbeat sender (`Swc_Heartbeat.c`, `E2E_Protect`), which
builds no frame while its fault mask says bus-off (or, on the RZC, in SAFE_STOP).

### Shared base software (`firmware/shared/bsw`)

`Com`, `PduR`, `CanIf`, `Can` (signal buffers, deadlines, routing, queues); `BswM`
(modes); `E2E`, `E2E_Sm` (protection, sliding window); `CanTp`, `Dcm`, `Dem`
(segmented transport, diagnostic sessions, fault memory); `WdgM`, `NvM`, `SchM`, `Rte`
(dispatcher); drivers. Hard: sliding windows, lost updates around unlocked calls, full
queues, protocol sequences, counters compared across loops of different phase.

The full list of components and their status is in `PROJECT.json`, as is the list of
hazards with the line each bites at.

## 2. Modules

| Module | Models | |
|---|---|---|
| `ScE2E` | `sc_e2e.c` | the check of one mailbox: record and operators |
| `ScHeartbeat` | `sc_heartbeat.c` | the supervision of one ECU: record and operators |
| `ScPlausibility` | `sc_plausibility.c` | its integer arithmetic with the production tables |
| `ScRelay` | `sc_relay.c`, `sc_state.c`, `sc_selftest.c` | latch, state, self-test |
| `SafetyController` | `sc_main.c` and everything it calls | composes the four |
| `KillRelay` | - | abstract: the relay closes at most once between restarts |
| `HeartbeatLink` | `fzc/src/Swc_Heartbeat.c`, `E2E_Protect`, the bus, and the SC's side | composes `ScE2E`, `ScHeartbeat` with a sender on its own clock |
| `BswM` | `bswm_is_transition_valid`, `BswM_RequestMode` | mode order |
| `VehicleState` | `Swc_VehicleState.c`, the bridge | the CVC's state machine in its main loop |
| `ComRx` | `Com_RxIndication`, `Com_MainFunction_Rx` | the buffer of one PDU and its receive deadline |
| `E2ESm` | `E2E_Sm.c` | the window as a circular buffer with two counters |
| `SlidingWindow` | - | abstract: the status counted anew over the last samples |
| `CvcHeartbeat` | `cvc/src/Swc_Heartbeat.c` | composes `ComRx` and `E2ESm` for one zone ECU; refines `SlidingWindow` |
| `FzcBrake`, `FzcSteering` | `Swc_Brake.c`, `Swc_Steering.c` | records and operators of one pass |
| `FrontZone` | `Rte_Cfg_Fzc.c`, `Swc_FzcSafety.c`, `Swc_FzcCanMonitor.c`, `Swc_FzcCom.c` | composes brake, steering and `ComRx` in the order of the runnables |
| `RzcMotor` | `Swc_Motor.c` | record and operators of one pass |
| `RzcMonitors` | `Swc_CurrentMonitor.c`, `Swc_Encoder.c`, `Swc_TempMonitor.c` | the same for the three monitors |
| `RearZone` | `Rte_Cfg_Rzc.c`, `Swc_RzcCom.c`, `Swc_RzcSafety.c`, `Swc_RzcSensorFeeder.c` | composes motor and monitors at their three rates |
| `ScLemmas` and the seven `*_proofs` modules | - | theorems |
| the six `MC*` modules | - | instances for TLC |

`PROJECT.json` maps every definition to the lines it models.

**SafetyController.** `pc` is the next call of the loop, so every call of
`sc_main.c:269-370` is an action, and `EsmInterrupt`, `TimePasses`, `MemoryCorruption`
and `WatchdogReset` may come between any two. `SC_CAN_Receive` is one action per mailbox,
in index order. Each source file's static variables are one record variable, changed by
the operator named after the C function. What may go wrong in one behaviour is drawn in
the first state (`hyp`): kinds of disturbance and the mailboxes they touch. Under the
empty hypothesis every mailbox holds a fresh, valid, nominal frame in every iteration,
so one iteration stands for one period of the senders; the drift between periods and
ticks is `HeartbeatLink`'s subject. Two observers, `quiet` and `suspicion`, measure what
the properties speak about, independently of the code's own counters: `quiet` counts
monitored ticks since the last valid heartbeat; `suspicion` counts, from the stored
signals alone, for how many iterations a drive fault has been visible. The kill latch
is RAM: `WatchdogReset` clears it, as C start-up does.

**HeartbeatLink.** The sender's cycle and the controller's tick are separate actions;
within one heartbeat period their counts may differ by `MaxSkew`. A frame that arrives
overwrites an unread one (the DCAN message object holds one). The sender's bus-off bit,
lost frames (a full transmit queue refuses a frame whose alive number is already used),
and sender restarts are actions bounded by `Max*`. Nothing in the firmware sets the
bus-off bit of the FZC today (see section 6); the model lets it be set, as the code that
reads it provides for.

**VehicleState.** `Swc_VehicleState_MainFunction` is one action: the composition, in the
code's order, of `InitHold`, `DeriveEvents`, `ConfirmFaults` and `Recover` on one record,
because nothing runs between them. The signals it reads are changed by `ComReceive` (the
`Com` buffers; at most one signal between two bridgings) and `SwcWrite` (the other
components). `CVC_SIG_MOTOR_SPEED` has no writer, so the creep guard always sees a
standstill; `Swc_CvcCom_Receive` has no caller, so the E2E status that brake faults are
confirmed against stays good. Both are modelled as they are.

**CvcHeartbeat.** Two actions per cycle of the RTE, `Receive` and `Monitor`: frames may
come in with any alive number, `Com` checks its deadline, and every `PollCycles` the
supervision polls. The deadline replaces the number by zero, and the poll counts that
change as a heartbeat, as in the code. Observers count the cycles without a frame
(`silent`) and the polls in a row before which a healthy sender's frame came (`healthy`).

**FrontZone.** `pc` is the runnable to run next; `Receive`, `Steering`, `Brake`, `Safety`,
`CanMonitor` and `Transmit` are the code's order. Angles and brake positions are small
integers; differences, thresholds, the clamp, the rate limit and the wrap-around of the
`uint8` counters are the code's arithmetic. The position sensors may read anything. The
brake's own write to the cutoff signal (`Com_SendSignal(7)`) is overwritten by the
safety monitor in the same cycle and is modelled so. CAN silence is never detected
because the reception reports to the CAN monitor in every cycle, whether a frame came or
not. `Reset` is the watchdog chip's.

**RearZone.** `tick` is the time; `Current` runs every tick, motor, encoder and
communication every `MotorPeriod` ticks, temperature and safety every `SafetyPeriod`. The
H-bridge is `enabled` and `pwm`, which current monitor, safety monitor and motor all
write. Readings are drawn from small sets. The torque frame passes its E2E check, fails
it, or does not come. The RTE signals vehicle state, E-stop and torque command are taken
as inputs, as `Swc_RzcCom.c:475` says of the first two ("set by lower BSW/Com"): see
section 6, observation 6. The observer `stale_runs` counts the runs of the motor since the
last torque frame, but for those that an E-stop, INIT or SHUTDOWN ends early. Battery
readings are left out. `fail_count` is capped where the code lets it wrap, because the
torque is zero from the cap on.

The TPS3823 watchdog chip is external: its reset is modelled from how `sc_watchdog.c`,
`Swc_FzcSafety.c` and `Swc_RzcSafety.c` feed it. The one-frame mailbox, the one-bit tick
flag and C start-up are modelled as the code that uses them sees them.

## 3. Runs

| Run | Expected | States | Shows |
|---|---|---|---|
| `sc_core` | pass | 759,766 | sixteen fault hypotheses: power is cut in time and never without cause, the status is true, `KillRelay` is implemented, an unhealthy controller is reset |
| `sc_latch` | violation | | the kill latch does not outlive a watchdog reset |
| `hb_link` | pass | 432,856 | no false trip, no false E2E failure, no confirmation without silence, no lingering timeout |
| `cvc` | pass | 484,422 | critical faults stop the vehicle in time, stops are left after quiet only, and are left |
| `cvc_steering` | violation | | a steering fault does not keep the vehicle out of RUN |
| `cvc_selftest` | violation | | a failed self-test is forgotten |
| `cvc_heartbeat` | pass | 785,366 | the E2E state machine is a sliding window; silence is found, health is recognised |
| `front_zone` | pass | 152,229 | latches hold as long as their cause and end; cutoffs are neither withdrawn nor lost |
| `fz_bus_loss` | violation | | the CAN monitor's safe state never reaches the brake |
| `fz_estop` | violation | | the watchdog reset that an E-stop provokes releases the brake |
| `rear_zone` | pass | 418,949 | dead time, commands, driving without new ones, overcurrents and critical faults of the motor |
| `rz_overcurrent` | violation | | the motor raises the enable pins again under an overcurrent |

### What the properties say

`sc_core`
* `ClosedOnlyWhenHealthy`: the pin is high only with the start-up test passed, the close
  command given and the latch clear.
* `DeadEcuCutsPower`, `EStopCutsPower`, `DriveFaultCutsPower`: once an ECU has been
  silent for timeout and confirmation time, an E-stop frame has been received, or a
  drive fault has been visible for its debounce, the relay is open before that
  iteration ends. Only the observers and the stored signals appear in the conditions.
* `TripHasCause`: a kill's recorded reason is explained by the behaviour's faults; with
  none, the vehicle never loses power. Between hypotheses, this separates the triggers:
  a corrupted torque frame, say, must not be able to kill.
* `StatusIsTrue`: a transmitted `SC_Status` agrees with pin, latch and faults, although
  the reported state lags the relay by a call.
* `KeepsPromise`: refinement of `KillRelay`. `UnhealthyIsReset`: liveness.

`hb_link`
* `NoFalseTrip`, `OutageKeepsSequence`, `ConfirmedAfterSilence`, `TimeoutResolves`: a
  punctual sender is never condemned whatever the drift; a bus-off episode never looks
  like an E2E failure; a confirmation is preceded by the whole timeout in silence; a
  timed-out ECU recovers or is confirmed dead.

`cvc`
* `FaultsStopInTime`: bounds, per fault, how many cycles may end in a driving state
  although the fault was met. `RecoveryNeedsQuiet`, `FullInitHold`: the three waits on
  the way back (latch release, recovery, hold) each run in full and in one piece.
  `OneLatchPerStop`: a stop has at most one latch and none survives it.
  `BswMHearsOfStops`: the second state machine follows. `Recovers`: liveness.

`cvc_heartbeat`
* `ImplementsWindow`: refinement of `SlidingWindow`. `SilentIsFound`: a controller silent
  for `FoundWithin`, the larger of a window of polls (one more if the thresholds bear two
  good samples in a window) and of deadline and two polls, is timed out and stays so.
  `HealthyIsAlive`: one whose frames came in sequence and at most a cycle late for more
  than a window is alive, whatever was before.

`front_zone`
* `EstopHoldsBrake`, `DeviationKeepsBraking`, `ImplausibleKeepsNeutral`: the safe output
  lasts as long as its cause and the latch time, through wrap-around of the debounce
  counters, new commands and further faults.
* `CutoffNotWithdrawn`, `CutoffReported`: the two writers of the cutoff signal and the
  paced frame never make a cutoff disappear. `NeutralUntilReset`: after a steering fault
  the output stays neutral until a restart. `MagnitudeRateLimited`: the angle never grows
  faster than the limit. `BrakeLatchEnds`: liveness.

`rear_zone`
* `DeadTime`, `DrivesAsCommanded`: the bridge is off between two directions; it drives in
  the direction and state commanded now, not when the reversal was deferred.
  `StaleDriveEnds`: without a new torque frame the last command drives the motor in at most
  `CmdTimeout` runs. Runs that an E-stop, INIT or SHUTDOWN ends early are excluded, so this
  bounds the driving and not the age of the command, which the code does not bound: section
  6, observation 6. `OvercurrentTracked`: an overcurrent is found within window and
  debounce, and kept until the whole recovery time has passed. `CriticalEnds`: liveness.

### Bounds

TLC's instances shorten every counter to at least two where the code counts, so that an
off-by-one, a missing reset and a restart half-way are all reachable, and keep the
order of the production values where code or properties depend on it.

* `sc_core`: timeout 2, confirmation 2, recovery 2, grace 2, plausibility and creep
  debounce 2, backup cutoff 3 (production: 10, 3, 3, 500, 5 and 2, 10), alive numbers
  modulo 2, two failures latch, self-test period 8 (the four run-time steps sit in eight
  slots, as the code requires), two of the three supervised ECUs (the supervision never
  relates more than two), torque 0 and 50 %, currents 0, 0.7 and 12.5 A: none expected and
  some drawn, the creep range, and grossly wrong. The hypotheses are all single faults and
  the pairs that act on the same trigger.
* `hb_link`: period 3, skew 2, timeout 6, alive numbers modulo 5, one loss, two outages,
  one restart. The skew is larger than any crystal's; two outages make a recovery be
  interrupted; one loss is enough to break a sequence.
* `cvc`: hold 2, grace 1, confirmation 2, release 3, recovery 2, creep debounce 2; at
  most two signals abnormal at a time (`MaxAbnormal`), which meets every pair of faults.
  Release exceeds recovery as in `Cvc_Cfg.h`. The grace is 0 on the target and positive
  in simulation builds; the larger case is checked.

* `cvc_heartbeat`: the code's poll period (5 cycles), receive deadline (15 cycles) and the
  target's thresholds of both controllers (windows of 4 and 6); three alive numbers, which
  only makes more frames look like the last one. The simulation's thresholds, 14 errors in
  a window of 16, are run as 2 errors in a window of 4, which bears two good samples like
  them; the theorems cover the window of 16.
* `front_zone`: angles -2 .. 2 and brake positions 0 .. 2 (with one value beyond each, so
  that the clamp acts), debounce 2, latch 4, sequence 2, counters modulo 6 and 5, cutoff
  frame every 3 cycles, watchdog 5: the order of the target's values. What is disturbed
  is chosen per behaviour: brake with E-stop, steering, or vehicle state with CAN. Brake
  and steering share no state but the safety monitor's mask.
* `rear_zone`: motor every 2 and safety every 4 ticks, time-out and recovery 2, currents
  0, 20, 40 against a threshold of 25, window 4, debounce 3, recovery 4, stall and
  direction checks 2, fail limit 2, watchdog 2 safety periods. One of commands, current,
  temperature, or motion with CAN is disturbed per behaviour.

Deadlock is checked in every run.

## 4. Fairness

* `SafetyController`: weak fairness of the main loop's next call (the processor runs), of
  `TimePasses` (the RTI timer), and of `WatchdogReset` (the TPS3823 is a separate chip).
  No fairness of interrupts or of disturbances.
* `HeartbeatLink`: weak fairness of the sender's cycle while it is up and of the
  controller's tick: two running clocks. A bus-off need not end, a reset sender need not
  come back, a frame need not be lost.
* `VehicleState`: the main loop keeps moving (`WF_pc`), nothing about signals.
* `FrontZone`, `RearZone`: weak fairness of the loop's next runnable and of the watchdog
  chip's `Reset`, which is enabled once it has not been fed for its time-out.
* `CvcHeartbeat` states bounds in cycles instead of liveness and needs no fairness.

Each is the scheduling of a bare-metal loop on a 10 ms tick. The liveness properties are
model-checked only.

## 5. Proofs

`tlapm` proves the following for every value of the constants that satisfies the named
assumptions (`E2eAssumption`, `HbAssumption`, `PlausAssumption`, `RelayAssumption`,
`ScAssumption`, `LinkAssumption`, `VehicleAssumption` and those of the other modules:
counters' limits are positive naturals, the three ECU
names, the self-test period has room for its steps). The assumptions are evaluated by
TLC on every instance.

| Theorem | Property | Additional assumption |
|---|---|---|
| `HeartbeatLink_proofs!TypeCorrect` | `TypeOK` | |
| `HeartbeatLink_proofs!KillOnlyAfterSilence` | `ConfirmedAfterSilence` | |
| `HeartbeatLink_proofs!PunctualSenderIsNeverKilled` | `NoFalseTrip` | `TimingFits` |
| `HeartbeatLink_proofs!SuppressionKeepsSequence` | `OutageKeepsSequence` | `TimingFits` |
| `SafetyController_proofs!RelayNeedsHealth` | `ClosedOnlyWhenHealthy` | |
| `SafetyController_proofs!ImplementsKillRelay` | `KeepsPromise` | |
| `SafetyController_proofs!EStopOpensRelay` | `EStopCutsPower` | |
| `SafetyController_proofs!DeadEcuOpensRelay` | `DeadEcuCutsPower` | |
| `SafetyController_proofs!DriveFaultOpensRelay` | `DriveFaultCutsPower` | |
| `SafetyController_proofs!StatusFrameIsTrue` | `StatusIsTrue` | |
| `SafetyController_proofs!TypeCorrect` | `TypeOK` | |
| `TripCause_proofs!NoFalseTrips` | `TripHasCause` | `HbTimeoutTicks > 1` |
| `VehicleState_proofs!TypesHold` | `TypeOK` | |
| `VehicleState_proofs!StopsInTime` | `FaultsStopInTime` | |
| `VehicleState_proofs!OneLatch` | `OneLatchPerStop` | |
| `VehicleState_proofs!StopsReachBswM` | `BswMHearsOfStops` | |
| `VehicleState_proofs!RecoveryWaits` | `RecoveryNeedsQuiet` | |
| `VehicleState_proofs!HoldIsFull` | `FullInitHold` | |
| `CvcHeartbeat_proofs!TypesHold` | `TypeOK` | |
| `CvcHeartbeat_proofs!ImplementsSlidingWindow` | `ImplementsWindow` | |
| `CvcHeartbeat_proofs!SilenceFound` | `SilentIsFound` | `SilenceFits` |
| `CvcHeartbeat_proofs!HealthSeen` | `HealthyIsAlive` | `HealthFits` |
| `FrontZone_proofs!TypesHold` | `TypeOK` | |
| `FrontZone_proofs!EstopHolds` | `EstopHoldsBrake` | |
| `FrontZone_proofs!DeviationHeld` | `DeviationKeepsBraking` | |
| `FrontZone_proofs!ImplausibleHeld` | `ImplausibleKeepsNeutral` | |
| `FrontZone_proofs!SequenceKept` | `CutoffNotWithdrawn` | |
| `FrontZone_proofs!LatchReported` | `CutoffReported` | |
| `FrontZone_proofs!NeutralHeld` | `NeutralUntilReset` | |
| `FrontZone_proofs!RateLimited` | `MagnitudeRateLimited` | |
| `RearZone_proofs!TypesHold` | `TypeOK` | |
| `RearZone_proofs!CommandsObeyed` | `DrivesAsCommanded` | |
| `RearZone_proofs!StaleDriveBounded` | `StaleDriveEnds` | |
| `RearZone_proofs!DeadTimeKept` | `DeadTime` | |
| `RearZone_proofs!OvercurrentsTracked` | `OvercurrentTracked` | |

**TimingFits** says that the skew is below a heartbeat period and that period plus skew is
below the timeout. In production (period 5, timeout 10) this allows a skew of four
ticks in a period of five. Without its first half two frames could meet in the mailbox
and the alive sequence would break.

**SilenceFits** says that one good sample in a window does not keep a controller valid and
that two do not bring it back. **HealthFits** says that heartbeats are closer than `Com`'s
deadline, and that the fewest that can come in a window of polls reach every threshold.
TLC evaluates both for the instance (`ThresholdsFit`). The simulation's thresholds,
14 errors in a window of 16, satisfy them as well. **`HbTimeoutTicks > 1`** (production:
10) is needed because the supervision counts a tick in the very iteration that
reads a frame.

**The supervision of one ECU** (`ScLemmas`). `HbInv` is preserved by both operators,
`SC_Heartbeat_NotifyRx` and `SC_Heartbeat_Monitor`: an ECU that is not timed
out has a timer below the timeout and an empty confirmation counter, the timer never
passes the timeout by more than the confirmation counter, and the ECU is confirmed
exactly when that counter is at its limit. This is what makes
the sixteen-bit timer safe and what ties the code's counters to the silence that the
observer `quiet` measures: `quiet <= counter` while not confirmed.

**The link.** The invariant is `TypeInv /\ FreshMailbox /\ Sequence /\ Punctual`.
`NoFalseTrip` alone is not inductive: that the timer stays below the timeout follows from
`Punctual` (the timer is at most the ticks of the current period once the period's frame
has been read), which needs `Sequence` (the frame that arrives is the one the E2E check
expects next, so it is accepted and resets the timer), which needs `FreshMailbox` (a frame
is read before the next one arrives, from the first half of `TimingFits`).

**The controller.** Four invariants are proved inductive and then combined: `PowerInv`
(where in the program the pin, the latch and the start-up result may be what),
`RxInv` (types of reception), `HbsInv` (`HbInv` and `quiet <= counter` for every ECU), and
`TriggersInv` (after the triggers have been evaluated, an E-stop or a confirmed ECU has
latched). `DeadEcuCutsPower` is then: the silence forces the timer to its limit, the
limit forces a confirmation, the confirmation has latched, and a latched relay is open.
`DriveFaultCutsPower` needs two more: `DriveInv` (types of the plausibility module) and
`SuspicionInv` (what the observer counts is never ahead of the debounce counter).
It rests on a lemma about the integer arithmetic of `sc_plausibility.c`: a current
that is off by more than 2 A and by more than a fifth is seen by the two-threshold test.
`StatusInv` relates the state machine to the latch across the call it lags.
`ImplementsKillRelay` maps every step of the controller to a step of `KillRelay` or a
stutter.

**The causes of a kill.** `TripHasCause` needs, for each of the nine reasons, what a
behaviour without the disturbances behind it can look like just before
`SC_Relay_CheckTriggers`. `FrameCause`: no E-stop, bus-off or failed mailbox is stored, and
torque and current are zero or not yet received. `DriveCause`: then no debounce counter of
`sc_plausibility.c` ever starts. `TestCause`: every failed run-time test has its fault, and
the lockstep error is active only where the loop has stopped. `HeardInv`: no heartbeat
timer passes one tick, and the silence of the bus ends before the triggers are evaluated;
this one depends on the order of the calls within an iteration. The mismatches of the
readback are counted in the same call that kills.

**The vehicle state machine.** A pass of its main function is a chain of operators on one
record. `VInv` holds between any two of them: the types, BswM in SAFE_STOP with the state
machine, and a latch only in SAFE_STOP, alone. Events can only act on a driving state (the
lemma `Table`), which is why one latch is all there is. `Raises`, `Drives` and
`StopCounts` say what the record may have become after a part of the pass. They carry
the three observers: `DrivenCounted` bounds the driving time by the grace used up and the
confirmation under way (one confirmation more outside RUN, for motor faults), which
`FaultsStopInTime` alone does not say and needs; `HoldCounted` and `StopCounted` keep the
code's hold, latch and recovery counters at or below what the observers measured.

**The window.** `E2ESm`'s two counters are the cardinalities of the slots with the one and
the other entry, and the slots are the last samples, rotated. Both are inductive only
together with the position of the write index.

**Silence and health at the CVC.** During a silence everything the supervision reads
follows from how long it lasts, as long as `Tracked` places the samples by their time: a
poll is good only if it is the first after the last frame or the first after `Com`'s zero
(`AfterFrame`, `AfterZero`). A window within the silence thus has at most two good samples,
which is too few for the thresholds; if they bear two, the window has to reach past
the last frame. Once that has happened `Gone` takes over: the zero is polled, and no further
poll is good. For health the invariant is an inequality (`FramesSpan`): for each number `k`
of the last healthy polls, the time since the `k`-th is at most what the frames found good
since then can span, `MaxGap` each. It holds although polls and sender drift, and for
a whole window it bounds the good samples from below by the count that `HealthFits` asks
for.

**The front zone.** The invariant says for each latch what its counter and the debounce
counter can be, given how long the cause has lasted. A wrapped debounce counter completes
again within the debounce time, which is shorter than the latch time: the assumptions
`BrakeDebounce < BrakeLatchClear` and `PlausDebounce < SteerLatchClear` say so, and
without them the property is false (section 6, observation 7). `CutoffReported` needs
`TxPeriod < BrakeLatchClear`.

**The rear zone.** What is inductive is where in the cycle each of direction, dead-time
flag, previous command and RTE signals may differ: after the motor's run they agree, and
nothing between two runs drives the bridge. `StaleDriveEnds` follows from the
command time-out being at most one run behind the observer `stale_runs`: both stand still
while the motor is disabled, so that nothing follows for the time since the last frame. For
`OvercurrentTracked`, `HighRun` says that a run of high readings fills the newest slots of
the circular buffer, across its wrap-around, and that from a full window on the debounce
counter keeps up with the run. A full window of high readings has a high average: the sum
is a recursive function, so that this is an induction over the slots. It is
proved by the least slot at which the partial sum would be too small, which exists because
the naturals are well-founded.

**Only model-checked**: the liveness properties (`UnhealthyIsReset`, `TimeoutResolves`,
`Recovers`, `BrakeLatchEnds`, `CriticalEnds`), which are out of the prover's reach. Every
invariant and every action property of the passing runs is also proved.

## 6. Where the code departs from its documents

Each is a run that TLC refutes; the quoted lines are in `PROJECT.json`.

1. `sc_latch`: the kill latch is an ordinary static variable. A bus-off, a failed run-time
   test or a lockstep error starves the watchdog, whose reset clears the latch; after the
   start-up test the controller closes the relay again, without a power cycle.
2. `cvc_steering`: the condition for leaving DEGRADED leaves out the steering fault.
3. `cvc_selftest`: a failed self-test is taken as passed when the stop that it caused is
   recovered from.
4. `fz_bus_loss`: the CAN monitor writes its safe state to signals that the reception
   overwrites before anything reads them.
5. `fz_estop`: a latched E-stop counts as a brake fault, which starves the watchdog; the
   reset releases the brake under the E-stop until the next cycle.
6. `rz_overcurrent`: the current monitor drops the enable pins once; the motor raises them
   again in its next run. This is of the two components: as integrated the torque command
   does not reach the RTE of the RZC (observation 6), and its motor stays off.

Observed while modelling, without a run:

1. `SC_E2E_Check` compares with the last alive number it accepted, not with the last one
   received (`sc_e2e.c:136`). After one lost heartbeat every later one is refused, though
   each counts up by one, and the third refusal cuts the power. functional-safety-reqs.md:353
   and SWR-SC.md:106 compare with the frame before.
2. A valid heartbeat in the confirmation window does not cancel the confirmation
   (`sc_heartbeat.c:100`, SWR-SC.md:151): a kill can follow silences none of which was
   long enough.
3. `SC_LED_Update` drives low the LED that `SC_Heartbeat_Monitor` drives high
   (`sc_led.c:81`, SWR-SC.md:138). The ESM interrupt opens the relay but does not set the
   kill latch (SWR-SC.md:301); a damaged canary stops the watchdog feed but does not itself
   kill; E2E failures of the torque and current frames never kill.
4. CVC: the creep fault has a latch index but no case that sets the latch
   (`Swc_VehicleState.c:362`); a persistent critical battery with good communication
   alternates LIMP and DEGRADED; SHUTDOWN cannot be reached, since VEHICLE_STOPPED is
   never raised.
5. CVC heartbeat: `Com`'s zero-fill counts as a heartbeat, so that a silent controller is
   reported alive up to 230 ms (FZC) or 290 ms (RZC) after its last frame, and 840 ms with
   the simulation's thresholds; SWR-CVC.md:426 asks for 200 ms. A sender whose jitter
   crosses a poll boundary can be timed out falsely (`HealthyIsAlive` needs gaps of
   `PollCycles .. MaxGap`), a restart whose first number is the last one seen costs a
   poll, and the RZC's thresholds (3 of 6 either way) let the status flap.
   `Swc_Heartbeat_RxIndication` has no caller.
6. RZC: no code copies vehicle state, E-stop and torque command from `Com` to the RTE,
   though the comment at `Rte_Cfg_Rzc.c:97` calls `Swc_RzcCom_Receive` that bridge; it
   writes the torque command with zero only (`Swc_RzcCom.c:464`, `:504`). As integrated
   the motor would stay in INIT, without torque. An E-stop, INIT or SHUTDOWN returns
   before the motor's command time-out (`Swc_Motor.c:243`), which stands still: a torque
   frame, a long E-stop without frames and its release, and the motor drives on a command
   of any age until the rest of the time-out has run, where SWR-RZC-016 (SWR-RZC.md:296)
   counts the time since the last valid message. A bridge that copied `Com`'s buffers in
   every cycle would end this by `Com`'s zero (`Com_Cfg_Rzc.c:129`). The time-out looks at
   the value of the command (`Swc_Motor.c:298`): a constant non-zero one is timed out
   although valid frames keep coming in, and a zero one never is. The encoder's direction
   signal is read as a direction fault by the safety monitor, so that standstill starves
   the watchdog in simulation builds. The encoder's grace never starts, since the motor
   reports STOP between two directions. The temperature fault is sticky; derating is 0
   until the first temperature run. The target's ADC scaling ends at 3.3 A, below the
   overcurrent threshold (`IoHwAb.c:227`). CAN silence and error warnings are never
   detected, and the pins dropped at a CAN loss are raised again by the motor. The motor's
   own fault and shoot-through latches are never set.
7. FZC: in simulation builds debounce and latch time are both 50, and a wrapped debounce
   counter then lets a latch end under a standing fault; the target's values exclude it.
   While the steering latch counts fault-free cycles the reported fault is already
   NO_FAULT. The rate limit does not act towards the centre, also across it: the output
   goes from one side to the other in one cycle (`Swc_Steering.c:217`), where
   SWR-FZC.md:145 limits every change. The brake's command time-out counts failed reads of
   the RTE, which do not fail (`Swc_Brake.c:185`): a silent CVC releases the brake through
   `Com`'s zero, where SWR-FZC.md:203 asks for full braking. CAN silence is never
   detected, and no code sets the bus-off bit of its heartbeat. After the first steering
   fault the PWM stays disabled until a restart, while the reported angle follows the
   command.
8. WdgM expects one checkpoint per 100 ms of entities that run every 10 ms (`main.c` of
   all three controllers), so that each would expire; only a Dem entry follows.

## 7. Not modelled

Real time: every timer of the code, and every bound of the properties, counts iterations of
a loop. An iteration that overruns loses ticks (`sc_main.c:269`) and stretches them all,
which no property measures; only the watchdog chip bounds the length of an iteration.
Register access, peripheral drivers, signal packing and logging: no control. The contents
of the self-tests (which hardware test failed) are one result each. Dem storage, NvM
files, CanTp and Dcm sessions, the simulated ECUs and the Python tools are outside the
safety path: nothing in the modelled components reads their state. Of the zone ECUs, lidar,
buzzer and battery are left out because brake, steering, motor and cutoff do not depend on
them; of the CVC, pedal, E-stop input, dashboard and CAN monitor are free inputs of
`VehicleState`, so that what is shown of it does not depend on their being right.
`Com`'s transmission clears its pending flag after unlocking (`Com.c:245`); all senders run
in the same loop as it does, so that nothing can come between.

The map covers a small part of the lines under `src/firmware/`, because most of them are
generated register definitions and drivers (`sc/cfg/halcogen` alone holds tens of
thousands) and configuration tables. Of the files named as modelled, it covers the functions
that change state.

## 8. Plan

Done, in the order of importance to the vehicle's safety: `SafetyController`,
`HeartbeatLink`, `VehicleState`, `FrontZone`, `CvcHeartbeat`, `RearZone`, with the proofs of
section 5, which state every safety property of the runs. What could follow:

| Module | Composes | Properties | Bounds |
|---|---|---|---|
| `Vehicle` | abstractions of `VehicleState`, `FrontZone`, `RearZone` over `Com` | an E-stop at the CVC stops motor and brakes within the sum of the bounds proved here | two zone ECUs |
| `PedalInput` | `Swc_Pedal.c`, `Swc_EStop.c` | a disagreement of the two sensors is debounced and stops the torque | debounce 2 |
| `CanTp` | `Dcm` sessions | one message at a time, delivered whole or aborted | 3 frames |
| `Dem` | `WdgM`, RTE dispatcher | a fault that heals and comes back is stored once | 2 events |
