-------------------------- MODULE RearZone_proofs --------------------------
(***************************************************************************)
(* Proofs about RearZone, for every value of its constants.                *)
(***************************************************************************)
EXTENDS RearZone, WellFoundedInduction, TLAPS

-----------------------------------------------------------------------------
(* The motor *)

MotorInputs ==
    [estop : BOOLEAN, state : VehicleStates, torque : Torques, derating : Deratings]

LEMMA TorqueRange ==
  ASSUME NEW torque \in Torques
  PROVE  torque \in Int /\ -100 <= torque /\ torque <= 100
  BY MotorAssumption

LEMMA DeratedBounds ==
  ASSUME NEW in \in MotorInputs
  PROVE  /\ Derated(in) \in 0 .. 100
         /\ in.torque = 0 \/ ModeLimit[in.state] = 0 => Derated(in) = 0
  <1> DEFINE size == IF in.torque < 0 THEN -in.torque ELSE in.torque
             limit == ModeLimit[in.state]
             limited == IF size > limit THEN limit ELSE size
  <1>1. in.torque \in -100 .. 100 /\ limit \in 0 .. 100
    <2>1. in.torque \in Torques /\ in.state \in VehicleStates
      BY DEF MotorInputs
    <2>2. limit \in {0, 30, 75, 100}
      BY <2>1 DEF VehicleStates, ModeLimit
    <2> HIDE DEF limit
    <2>3. limit \in 0 .. 100
      BY <2>2
    <2> QED BY <2>1, <2>3, TorqueRange
  <1>2. limited \in 0 .. 100 /\ (in.torque = 0 \/ limit = 0 => limited = 0)
    BY <1>1
  <1>3. Derated(in) = (limited * in.derating) \div 100
    BY DEF Derated
  <1>4. in.derating \in {0, 50, 75, 100}
    BY DEF MotorInputs, Deratings
  <1> HIDE DEF limited
  <1>5. Derated(in) \in 0 .. 100 /\ (limited = 0 => Derated(in) = 0)
    <2>1. CASE in.derating = 0
      BY <1>2, <1>3, <2>1
    <2>2. CASE in.derating = 50
      BY <1>2, <1>3, <2>2
    <2>3. CASE in.derating = 75
      BY <1>2, <1>3, <2>3
    <2>4. CASE in.derating = 100
      BY <1>2, <1>3, <2>4
    <2> QED BY <1>4, <2>1, <2>2, <2>3, <2>4
  <1> QED BY <1>2, <1>5

\* What the check n of m with a torque does: a torque that stays the same and
\* is not zero counts towards the time-out and not towards the recovery.
CommandChecked(m, torque, n) ==
    /\ n \in MotorVariables
    /\ n.prev_torque = torque
    /\ n.direction = m.direction /\ n.cmd_direction = m.cmd_direction /\ n.deadtime = m.deadtime
    /\ torque = m.prev_torque /\ torque # 0 =>
         /\ m.timed_out \/ m.timeout_cycles + 1 >= CmdTimeout => n.timed_out
         /\ n.timed_out \/ n.timeout_cycles = m.timeout_cycles + 1

LEMMA CheckCounts ==
  ASSUME NEW m \in MotorVariables, NEW torque \in Torques
  PROVE  CommandChecked(m, torque, CheckCommand(m, torque))
  <1> DEFINE n == CheckCommand(m, torque)
             new == torque # m.prev_torque \/ torque = 0
             cycles == IF new THEN 0
                       ELSE IF m.timeout_cycles < CmdTimeout THEN m.timeout_cycles + 1
                       ELSE m.timeout_cycles
             counted == IF new THEN m.recovery_count + 1 ELSE m.recovery_count
             recovered == counted >= CmdRecovery
             timed_out == IF m.timed_out THEN ~recovered ELSE cycles >= CmdTimeout
             count == IF m.timed_out /\ ~recovered THEN counted ELSE 0
             reset == IF m.timed_out /\ recovered THEN 0 ELSE cycles
  <1> SUFFICES CommandChecked(m, torque, n)
    OBVIOUS
  <1>1. n = [m EXCEPT !.prev_torque = torque, !.timed_out = timed_out,
                      !.recovery_count = count, !.timeout_cycles = reset]
    BY DEF CheckCommand
  <1>2. /\ m.timeout_cycles \in 0 .. CmdTimeout /\ m.recovery_count \in 0 .. CmdRecovery - 1
        /\ m.timed_out \in BOOLEAN
        /\ CmdTimeout \in Nat \ {0} /\ CmdRecovery \in Nat \ {0}
    BY MotorAssumption DEF MotorVariables
  <1>3. /\ cycles \in 0 .. CmdTimeout /\ counted \in 0 .. CmdRecovery
        /\ recovered \in BOOLEAN /\ timed_out \in BOOLEAN
        /\ (~recovered => counted \in 0 .. CmdRecovery - 1)
    <2>1. cycles \in 0 .. CmdTimeout
      BY <1>2
    <2>2. counted \in 0 .. CmdRecovery /\ (counted < CmdRecovery => counted \in 0 .. CmdRecovery - 1)
      BY <1>2
    <2>3. recovered \in BOOLEAN /\ (~recovered => counted < CmdRecovery)
      BY <1>2, <2>2
    <2>4. timed_out \in BOOLEAN
      <3>1. CASE m.timed_out
        BY <3>1
      <3>2. CASE ~m.timed_out
        BY <3>2
      <3> QED BY <3>1, <3>2
    <2> HIDE DEF cycles, counted, recovered, timed_out
    <2> QED BY <2>1, <2>2, <2>3, <2>4
  <1>4. reset \in 0 .. CmdTimeout /\ count \in 0 .. CmdRecovery - 1
    BY <1>2, <1>3
  <1>5. ASSUME ~new
        PROVE  /\ m.timed_out \/ m.timeout_cycles + 1 >= CmdTimeout => timed_out
               /\ timed_out \/ reset = m.timeout_cycles + 1
    BY <1>2, <1>5
  <1> HIDE DEF n, reset, count, timed_out
  <1>6. /\ n \in MotorVariables /\ n.prev_torque = torque
        /\ n.timed_out = timed_out /\ n.timeout_cycles = reset
        /\ n.direction = m.direction /\ n.cmd_direction = m.cmd_direction
        /\ n.deadtime = m.deadtime
    BY <1>1, <1>3, <1>4 DEF MotorVariables
  <1> QED BY <1>5, <1>6 DEF CommandChecked

\* What one step of the output, r, of a motor m with a commanded direction and
\* size does.
Driven(m, direction, size, r) ==
    /\ r.motor \in MotorVariables
    /\ r.pwm \in [dir : Directions, duty : 0 .. 95]
    /\ r.echo \in 0 .. 100
    /\ r.motor.timed_out = m.timed_out /\ r.motor.timeout_cycles = m.timeout_cycles
    /\ r.motor.prev_torque = m.prev_torque
    /\ r.pwm.dir # "STOP" =>
         /\ r.pwm.dir = r.motor.direction /\ ~r.motor.deadtime
         /\ size > 0
         /\ direction # "STOP" => r.pwm.dir = direction
         /\ ~m.deadtime => ~Reverses(m.direction, direction)

LEMMA DriveKeeps ==
  ASSUME NEW m \in MotorVariables, NEW direction \in Directions, NEW size \in 0 .. 100
  PROVE  Driven(m, direction, size, Drive(m, direction, size))
  <1> DEFINE r == Drive(m, direction, size)
             from == IF m.deadtime THEN m.cmd_direction ELSE m.direction
             applied == IF m.deadtime THEN m.cmd_direction ELSE direction
             duty == (size * 95) \div 100
  <1> SUFFICES Driven(m, direction, size, r)
    OBVIOUS
  <1>1. duty \in 0 .. 95 /\ (duty > 0 => size > 0)
    OBVIOUS
  <1>2. from \in Directions /\ applied \in Directions
    BY DEF MotorVariables
  <1>3. CASE Reverses(from, direction)
    <2>1. r = Disabled([m EXCEPT !.deadtime = TRUE, !.cmd_direction = direction,
                                 !.direction = "STOP"])
      BY <1>3 DEF Drive
    <2> HIDE DEF r
    <2>2. /\ r.motor = [m EXCEPT !.deadtime = TRUE, !.cmd_direction = direction,
                                 !.direction = "STOP"]
          /\ r.pwm = Idle /\ r.echo = 0
      BY <2>1 DEF Disabled
    <2>3. /\ r.motor \in MotorVariables /\ r.motor.timed_out = m.timed_out
          /\ r.motor.timeout_cycles = m.timeout_cycles /\ r.motor.prev_torque = m.prev_torque
      BY <2>2 DEF MotorVariables, Directions
    <2> QED BY <2>2, <2>3 DEF Driven, Idle, Directions
  <1>4. CASE ~Reverses(from, direction)
    <2> DEFINE w == IF applied # "STOP" /\ duty > 0 THEN [dir |-> applied, duty |-> duty] ELSE Idle
               n == [m EXCEPT !.deadtime = FALSE, !.direction = applied]
    <2>1. r = [motor |-> n, pwm |-> w, echo |-> size]
      BY <1>4 DEF Drive
    <2>2. /\ w \in [dir : Directions, duty : 0 .. 95]
          /\ w.dir # "STOP" => w.dir = applied /\ size > 0 /\ applied # "STOP"
      BY <1>1, <1>2 DEF Idle, Directions
    <2>3. /\ n \in MotorVariables /\ n.direction = applied /\ ~n.deadtime
          /\ n.timed_out = m.timed_out /\ n.timeout_cycles = m.timeout_cycles
          /\ n.prev_torque = m.prev_torque
      BY <1>2 DEF MotorVariables
    <2>4. applied # "STOP" /\ direction # "STOP" => applied = direction
      BY <1>4 DEF Reverses
    <2>5. ~m.deadtime => ~Reverses(m.direction, direction)
      BY <1>4
    <2> HIDE DEF r, w, n, applied, duty
    <2>6. r.motor = n /\ r.pwm = w /\ r.echo = size
      BY <2>1
    <2> QED BY <2>2, <2>3, <2>4, <2>5, <2>6 DEF Driven
  <1> QED BY <1>3, <1>4

\* What one run r of a motor m with inputs in does.
MotorRan(m, in, r) ==
    /\ r.motor \in MotorVariables
    /\ r.pwm \in [dir : Directions, duty : 0 .. 95]
    /\ r.echo \in 0 .. 100
    /\ r.pwm.dir # "STOP" =>
         /\ r.pwm.dir = r.motor.direction /\ ~r.motor.deadtime
         /\ ~m.deadtime => ~Reverses(m.direction, r.pwm.dir)
         /\ IF r.pwm.dir = "FORWARD" THEN in.torque > 0 ELSE in.torque < 0
         /\ in.state \in {"RUN", "DEGRADED", "LIMP"} /\ ~in.estop
         /\ ~r.motor.timed_out
    /\ Disables(in) => /\ r.motor.timed_out = m.timed_out
                       /\ r.motor.timeout_cycles = m.timeout_cycles
                       /\ r.motor.prev_torque = m.prev_torque
    /\ ~Disables(in) =>
         /\ r.motor.prev_torque = in.torque
         /\ in.torque = m.prev_torque /\ in.torque # 0 =>
              /\ m.timed_out \/ m.timeout_cycles + 1 >= CmdTimeout => r.motor.timed_out
              /\ r.motor.timed_out \/ r.motor.timeout_cycles = m.timeout_cycles + 1

LEMMA MotorRuns ==
  ASSUME NEW m \in MotorVariables, NEW in \in MotorInputs
  PROVE  MotorRan(m, in, Swc_Motor_MainFunction(m, in))
  <1> DEFINE r == Swc_Motor_MainFunction(m, in)
  <1> SUFFICES MotorRan(m, in, r)
    OBVIOUS
  <1>1. CASE Disables(in)
    <2>1. r = Disabled([m EXCEPT !.direction = "STOP"])
      BY <1>1 DEF Swc_Motor_MainFunction
    <2> HIDE DEF r
    <2> QED BY <1>1, <2>1 DEF MotorRan, Disabled, Idle, MotorVariables, Directions
  <1>2. CASE ~Disables(in)
    <2> DEFINE n == CheckCommand(m, in.torque)
               size == IF n.timed_out THEN 0 ELSE Derated(in)
               direction == IF size = 0 THEN "STOP" ELSE IF in.torque < 0 THEN "REVERSE" ELSE "FORWARD"
    <2>1. r = Drive(n, direction, size)
      BY <1>2 DEF Swc_Motor_MainFunction
    <2>2. CommandChecked(m, in.torque, n)
      BY CheckCounts DEF MotorInputs
    <2> HIDE DEF n, r
    <2>3. /\ size \in 0 .. 100
          /\ size > 0 => ~n.timed_out /\ in.torque # 0 /\ ModeLimit[in.state] # 0
      BY DeratedBounds
    <2>4. direction \in Directions /\ (size > 0 => direction # "STOP")
      BY <2>3 DEF Directions
    <2>5. direction = "FORWARD" => size > 0 /\ ~(in.torque < 0)
      BY <2>3
    <2>6. direction = "REVERSE" => in.torque < 0
      OBVIOUS
    <2> HIDE DEF size, direction
    <2>7. Driven(n, direction, size, r)
      BY <2>1, <2>2, <2>3, <2>4, DriveKeeps DEF CommandChecked
    <2>8. in.torque \in Int /\ in.state \in VehicleStates
      <3>1. in.torque \in Torques /\ in.state \in VehicleStates
        BY DEF MotorInputs
      <3> QED BY <3>1, TorqueRange
    <2>9. size > 0 => in.state \in {"RUN", "DEGRADED", "LIMP"} /\ ~in.estop
      BY <1>2, <2>3, <2>8 DEF ModeLimit, VehicleStates, Disables
    <2>10. ASSUME r.pwm.dir # "STOP"
           PROVE  /\ r.pwm.dir = r.motor.direction /\ ~r.motor.deadtime
                  /\ ~m.deadtime => ~Reverses(m.direction, r.pwm.dir)
                  /\ IF r.pwm.dir = "FORWARD" THEN in.torque > 0 ELSE in.torque < 0
                  /\ in.state \in {"RUN", "DEGRADED", "LIMP"} /\ ~in.estop
                  /\ ~r.motor.timed_out
      <3>1. size > 0 /\ r.pwm.dir = direction /\ direction # "STOP"
        BY <2>4, <2>7, <2>10 DEF Driven
      <3>2. IF r.pwm.dir = "FORWARD" THEN in.torque > 0 ELSE in.torque < 0
        BY <2>3, <2>4, <2>5, <2>6, <2>8, <3>1 DEF Directions
      <3> QED BY <2>2, <2>3, <2>7, <2>9, <2>10, <3>1, <3>2 DEF Driven, CommandChecked
    <2> QED BY <1>2, <2>2, <2>7, <2>10 DEF MotorRan, Driven, CommandChecked
  <1> QED BY <1>1, <1>2

-----------------------------------------------------------------------------
(* The monitors *)

\* What the overcurrent check of c with any average and the reading raw does to
\* the fault and the recovery.
OvercurrentChecked(c, raw, d) ==
    /\ d \in CurrentVariables
    /\ d.active => \/ d.recovery = 0
                   \/ c.active /\ raw <= Overcurrent /\ d.recovery = c.recovery + 1
    /\ c.active /\ ~d.active => raw <= Overcurrent /\ c.recovery + 1 = OcRecovery
    /\ ~d.active => d.debounce < OcDebounce /\ d.recovery = 0

LEMMA CheckTracks ==
  ASSUME NEW c \in CurrentVariables, NEW average, NEW raw \in Currents,
         ~c.active => c.debounce < OcDebounce /\ c.recovery = 0
  PROVE  OvercurrentChecked(c, raw, CheckOvercurrent(c, average, raw))
  <1> DEFINE d == CheckOvercurrent(c, average, raw)
             high == average > Overcurrent
             found == c.debounce + 1 >= OcDebounce
  <1> SUFFICES OvercurrentChecked(c, raw, d)
    OBVIOUS
  <1>1. /\ c.debounce \in 0 .. OcDebounce /\ c.recovery \in 0 .. OcRecovery - 1
        /\ c.active \in BOOLEAN
        /\ OcDebounce \in Nat \ {0} /\ OcRecovery \in Nat \ {0}
    <2>1. OcDebounce \in Nat \ {0} /\ OcRecovery \in Nat \ {0}
      BY MonitorsAssumption
    <2> QED BY <2>1 DEF CurrentVariables
  <1>2. raw \in Nat /\ Overcurrent \in Nat
    BY MonitorsAssumption
  <1>3. d = IF high
            THEN IF c.active THEN [c EXCEPT !.recovery = 0]
                 ELSE [c EXCEPT !.debounce = c.debounce + 1, !.active = found,
                                !.recovery = IF found THEN 0 ELSE c.recovery]
            ELSE IF ~c.active THEN [c EXCEPT !.debounce = 0]
            ELSE IF raw > Overcurrent THEN [c EXCEPT !.recovery = 0]
            ELSE IF c.recovery + 1 < OcRecovery THEN [c EXCEPT !.recovery = c.recovery + 1]
            ELSE [c EXCEPT !.active = FALSE, !.debounce = 0, !.recovery = 0]
    BY DEF CheckOvercurrent
  <1> HIDE DEF d, high
  <1>4. CASE c.active /\ (high \/ raw > Overcurrent)
    <2>1. d = [c EXCEPT !.recovery = 0]
      BY <1>3, <1>4
    <2>2. 0 \in 0 .. OcRecovery - 1
      BY <1>1
    <2>3. d \in CurrentVariables /\ d.active /\ d.recovery = 0
      BY <1>4, <2>1, <2>2 DEF CurrentVariables
    <2> QED BY <2>3 DEF OvercurrentChecked
  <1>5. CASE c.active /\ ~high /\ ~(raw > Overcurrent) /\ c.recovery + 1 < OcRecovery
    <2>1. d = [c EXCEPT !.recovery = c.recovery + 1]
      BY <1>3, <1>5
    <2>2. c.recovery + 1 \in 0 .. OcRecovery - 1 /\ raw <= Overcurrent
      BY <1>1, <1>2, <1>5
    <2>3. d \in CurrentVariables /\ d.active /\ d.recovery = c.recovery + 1
      BY <1>5, <2>1, <2>2 DEF CurrentVariables
    <2> QED BY <1>5, <2>2, <2>3 DEF OvercurrentChecked
  <1>6. CASE c.active /\ ~high /\ ~(raw > Overcurrent) /\ ~(c.recovery + 1 < OcRecovery)
    <2>1. d = [c EXCEPT !.active = FALSE, !.debounce = 0, !.recovery = 0]
      BY <1>3, <1>6
    <2>2. /\ c.recovery + 1 = OcRecovery /\ raw <= Overcurrent
          /\ 0 \in 0 .. OcRecovery - 1 /\ 0 \in 0 .. OcDebounce /\ 0 < OcDebounce
      BY <1>1, <1>2, <1>6
    <2>3. d \in CurrentVariables /\ ~d.active /\ d.recovery = 0 /\ d.debounce = 0
      BY <2>1, <2>2 DEF CurrentVariables
    <2> QED BY <2>2, <2>3 DEF OvercurrentChecked
  <1>7. CASE ~c.active /\ ~high
    <2>1. d = [c EXCEPT !.debounce = 0]
      BY <1>3, <1>7
    <2>2. 0 \in 0 .. OcDebounce /\ 0 < OcDebounce
      BY <1>1
    <2>3. d \in CurrentVariables /\ ~d.active /\ d.recovery = 0 /\ d.debounce = 0
      BY <1>7, <2>1, <2>2 DEF CurrentVariables
    <2> QED BY <1>7, <2>2, <2>3 DEF OvercurrentChecked
  <1>8. CASE ~c.active /\ high
    <2>1. /\ c.recovery = 0 /\ c.debounce + 1 \in 0 .. OcDebounce
          /\ ~found => c.debounce + 1 < OcDebounce
          /\ 0 \in 0 .. OcRecovery - 1
      BY <1>1, <1>8
    <2>2. CASE found
      <3>1. d = [c EXCEPT !.debounce = c.debounce + 1, !.active = TRUE, !.recovery = 0]
        BY <1>3, <1>8, <2>2
      <3>2. d \in CurrentVariables /\ d.active /\ d.recovery = 0
        BY <2>1, <3>1 DEF CurrentVariables
      <3> QED BY <1>8, <3>2 DEF OvercurrentChecked
    <2>3. CASE ~found
      <3>1. d = [c EXCEPT !.debounce = c.debounce + 1, !.active = FALSE, !.recovery = 0]
        <4>1. d = [c EXCEPT !.debounce = c.debounce + 1, !.active = found, !.recovery = 0]
          BY <1>3, <1>8, <2>1, <2>3
        <4>2. found = FALSE
          BY <2>3
        <4> HIDE DEF found
        <4> QED BY <4>1, <4>2
      <3>2. d \in CurrentVariables /\ ~d.active /\ d.recovery = 0 /\ d.debounce = c.debounce + 1
        BY <2>1, <3>1 DEF CurrentVariables
      <3> QED BY <1>8, <2>1, <2>3, <3>2 DEF OvercurrentChecked
    <2> QED BY <2>2, <2>3
  <1> QED BY <1>1, <1>4, <1>5, <1>6, <1>7, <1>8

LEMMA SampledTypes ==
  ASSUME NEW c \in CurrentVariables, NEW raw \in Currents
  PROVE  /\ Sampled(c, raw) \in CurrentVariables
         /\ Sampled(c, raw).active = c.active /\ Sampled(c, raw).debounce = c.debounce
         /\ Sampled(c, raw).recovery = c.recovery
  <1> DEFINE index == IF c.index + 1 >= AvgWindow THEN 0 ELSE c.index + 1
             filled == IF c.filled < AvgWindow THEN c.filled + 1 ELSE c.filled
             buffer == [c.buffer EXCEPT ![c.index] = raw]
  <1>1. Sampled(c, raw) = [c EXCEPT !.buffer = buffer, !.index = index, !.filled = filled]
    BY DEF Sampled, CurrentVariables
  <1>2. AvgWindow \in Nat \ {0}
    BY MonitorsAssumption
  <1>3. index \in 0 .. AvgWindow - 1 /\ filled \in 0 .. AvgWindow
    BY <1>2 DEF CurrentVariables
  <1>4. buffer \in [0 .. AvgWindow - 1 -> Currents]
    BY DEF CurrentVariables
  <1> HIDE DEF index, filled, buffer
  <1> QED BY <1>1, <1>3, <1>4 DEF CurrentVariables

LEMMA CurrentRuns ==
  ASSUME NEW c \in CurrentVariables, NEW raw \in Currents,
         ~c.active => c.debounce < OcDebounce /\ c.recovery = 0
  PROVE  OvercurrentChecked(c, raw, Swc_CurrentMonitor_MainFunction(c, raw))
  <1> DEFINE t == Sampled(c, raw)
  <1>1. /\ t \in CurrentVariables /\ t.active = c.active /\ t.debounce = c.debounce
        /\ t.recovery = c.recovery
    BY SampledTypes
  <1>2. Swc_CurrentMonitor_MainFunction(c, raw) = CheckOvercurrent(t, Average(t), raw)
    BY DEF Swc_CurrentMonitor_MainFunction
  <1> HIDE DEF t
  <1>3. OvercurrentChecked(t, raw, CheckOvercurrent(t, Average(t), raw))
    BY <1>1, CheckTracks
  <1> QED BY <1>1, <1>2, <1>3 DEF OvercurrentChecked

EncoderCounts(e) ==
    /\ e \in EncoderVariables
    /\ e.stall \/ e.stall_count < StallChecks
    /\ e.dir_fault \/ e.mismatches < DirChecks

LEMMA EncoderRuns ==
  ASSUME NEW e, EncoderCounts(e), NEW commanded \in Directions, NEW echo \in 0 .. 100,
         NEW direction \in Directions, NEW turns \in BOOLEAN
  PROVE  EncoderCounts(Swc_Encoder_MainFunction(e, commanded, echo, direction, turns))
  <1> DEFINE f == StartGrace(e, commanded)
             g == CheckStall(f, echo, turns)
             h == CheckDirection(g, commanded, direction, turns)
  <1>1. Swc_Encoder_MainFunction(e, commanded, echo, direction, turns) = h
    BY DEF Swc_Encoder_MainFunction
  <1>2. /\ StallChecks \in Nat \ {0} /\ DirChecks \in Nat \ {0}
        /\ StallGrace \in Nat /\ DirGrace \in Nat
    BY MonitorsAssumption
  <1>3. EncoderCounts(f)
    <2> DEFINE reversal == /\ commanded # e.prev_direction
                           /\ commanded # "STOP" /\ e.prev_direction # "STOP"
    <2> DEFINE stall_grace == IF reversal THEN StallGrace ELSE e.stall_grace
               dir_grace == IF reversal THEN DirGrace ELSE e.dir_grace
    <2>1. f = [e EXCEPT !.prev_direction = commanded, !.stall_grace = stall_grace,
                        !.dir_grace = dir_grace]
      BY DEF StartGrace
    <2>2. stall_grace \in 0 .. StallGrace /\ dir_grace \in 0 .. DirGrace
      BY <1>2 DEF EncoderCounts, EncoderVariables
    <2> HIDE DEF f, stall_grace, dir_grace
    <2> QED BY <2>1, <2>2 DEF EncoderCounts, EncoderVariables, Directions
  <1> HIDE DEF f
  <1>4. EncoderCounts(g)
    <2> DEFINE count == f.stall_count + 1
    <2>1. /\ f.stall_count \in 0 .. StallChecks /\ f.stall_grace \in 0 .. StallGrace
          /\ f.stall \in BOOLEAN
      BY <1>3 DEF EncoderCounts, EncoderVariables
    <2>2. CASE g = f
      BY <1>3, <2>2
    <2>3. CASE f.stall_grace > 0 /\ g = [f EXCEPT !.stall_grace = f.stall_grace - 1]
      <3>1. f.stall_grace - 1 \in 0 .. StallGrace
        BY <1>2, <2>1, <2>3
      <3> HIDE DEF g
      <3> QED BY <1>3, <2>3, <3>1 DEF EncoderCounts, EncoderVariables
    <2>4. CASE g = [f EXCEPT !.stall_count = 0]
      <3>1. 0 \in 0 .. StallChecks /\ 0 < StallChecks
        BY <1>2
      <3> HIDE DEF g
      <3> QED BY <1>3, <2>4, <3>1 DEF EncoderCounts, EncoderVariables
    <2>5. CASE ~f.stall /\ g = [f EXCEPT !.stall_count = count, !.stall = count >= StallChecks]
      <3>1. f.stall_count < StallChecks
        BY <1>3, <2>5 DEF EncoderCounts
      <3>2. count \in 0 .. StallChecks
        BY <1>2, <2>1, <3>1
      <3>3. CASE count >= StallChecks
        <4>1. g = [f EXCEPT !.stall_count = count, !.stall = TRUE]
          BY <2>5, <3>3
        <4> HIDE DEF g, count
        <4> QED BY <1>3, <3>2, <4>1 DEF EncoderCounts, EncoderVariables
      <3>4. CASE ~(count >= StallChecks)
        <4>1. g = [f EXCEPT !.stall_count = count, !.stall = FALSE] /\ count < StallChecks
          <5>1. (count >= StallChecks) = FALSE
            BY <3>4
          <5>2. g = [f EXCEPT !.stall_count = count, !.stall = FALSE]
            BY <2>5, <5>1, Zenon
          <5> QED BY <1>2, <3>2, <3>4, <5>2
        <4> HIDE DEF g, count
        <4> QED BY <1>3, <3>2, <4>1 DEF EncoderCounts, EncoderVariables
      <3> QED BY <3>3, <3>4
    <2> QED BY <2>2, <2>3, <2>4, <2>5 DEF CheckStall
  <1> HIDE DEF g
  <1>5. EncoderCounts(h)
    <2> DEFINE count == g.mismatches + 1
    <2>1. /\ g.mismatches \in 0 .. DirChecks /\ g.dir_grace \in 0 .. DirGrace
          /\ g.dir_fault \in BOOLEAN
      BY <1>4 DEF EncoderCounts, EncoderVariables
    <2>2. CASE h = g
      BY <1>4, <2>2
    <2>3. CASE g.dir_grace > 0 /\ h = [g EXCEPT !.dir_grace = g.dir_grace - 1]
      <3>1. g.dir_grace - 1 \in 0 .. DirGrace
        BY <1>2, <2>1, <2>3
      <3> HIDE DEF h
      <3> QED BY <1>4, <2>3, <3>1 DEF EncoderCounts, EncoderVariables
    <2>4. CASE h = [g EXCEPT !.mismatches = 0]
      <3>1. 0 \in 0 .. DirChecks /\ 0 < DirChecks
        BY <1>2
      <3> HIDE DEF h
      <3> QED BY <1>4, <2>4, <3>1 DEF EncoderCounts, EncoderVariables
    <2>5. CASE ~g.dir_fault /\ h = [g EXCEPT !.mismatches = count, !.dir_fault = count >= DirChecks]
      <3>1. g.mismatches < DirChecks
        BY <1>4, <2>5 DEF EncoderCounts
      <3>2. count \in 0 .. DirChecks
        BY <1>2, <2>1, <3>1
      <3>3. CASE count >= DirChecks
        <4>1. h = [g EXCEPT !.mismatches = count, !.dir_fault = TRUE]
          BY <2>5, <3>3
        <4> HIDE DEF h, count
        <4> QED BY <1>4, <3>2, <4>1 DEF EncoderCounts, EncoderVariables
      <3>4. CASE ~(count >= DirChecks)
        <4>1. h = [g EXCEPT !.mismatches = count, !.dir_fault = FALSE] /\ count < DirChecks
          <5>1. (count >= DirChecks) = FALSE
            BY <3>4
          <5>2. h = [g EXCEPT !.mismatches = count, !.dir_fault = FALSE]
            BY <2>5, <5>1, Zenon
          <5> QED BY <1>2, <3>2, <3>4, <5>2
        <4> HIDE DEF h, count
        <4> QED BY <1>4, <3>2, <4>1 DEF EncoderCounts, EncoderVariables
      <3> QED BY <3>3, <3>4
    <2> QED BY <2>2, <2>3, <2>4, <2>5 DEF CheckDirection
  <1> QED BY <1>1, <1>5

LEMMA TemperatureTypes ==
  ASSUME NEW t \in TempVariables, NEW temp \in Temps
  PROVE  Swc_TempMonitor_MainFunction(t, temp) \in TempVariables
  <1> DEFINE raw == TM_ComputeRawDerating(temp)
             derating == TM_ApplyHysteresis(raw, t.derating, temp)
  <1>1. raw \in {0, 50, 75, 100}
    BY DEF TM_ComputeRawDerating
  <1>2. derating \in {0, 50, 75, 100}
    BY <1>1 DEF TM_ApplyHysteresis, NextBetter, TempVariables
  <1> HIDE DEF derating
  <1> QED BY <1>2 DEF Swc_TempMonitor_MainFunction, TempVariables, derating

-----------------------------------------------------------------------------
(* The inductive invariant *)

\* The PWM drives in the motor's direction, outside the dead time.
PwmFollows == pwm.dir # "STOP" => pwm.dir = motor.direction /\ ~motor.deadtime

\* The motor has counted the runs of the observer `stale_runs`, but for the
\* one that met the new command, unless it is timed out or the torque is zero.
StaleRunsCounted ==
    stale_runs >= 1 /\ rte.torque # 0 =>
        /\ rte.torque = motor.prev_torque
        /\ motor.timed_out \/ motor.timeout_cycles + 1 >= stale_runs

\* An overcurrent that is not found has no recovery, and the recovery of one
\* that is has not counted more than the readings that were not high.
RecoveryCounted ==
    /\ ~current.active => current.debounce < OcDebounce /\ current.recovery = 0
    /\ current_run # 0
    /\ current.active => /\ current_run > 0 => current.recovery = 0
                         /\ current_run < 0 => current.recovery <= -current_run

IInv ==
    /\ TypeOK
    /\ EncoderCounts(encoder)
    /\ PwmFollows
    /\ DrivesAsCommanded
    /\ StaleRunsCounted
    /\ StaleDriveEnds
    /\ RecoveryCounted

LEMMA Constants ==
  /\ CmdTimeout \in Nat \ {0} /\ CmdRecovery \in Nat \ {0}
  /\ AvgWindow \in Nat \ {0} /\ OcDebounce \in Nat \ {0} /\ OcRecovery \in Nat \ {0}
  /\ StallChecks \in Nat \ {0} /\ DirChecks \in Nat \ {0}
  /\ StallGrace \in Nat /\ DirGrace \in Nat
  /\ SafetyPeriod \in Nat \ {0} /\ FailLimit \in Nat \ {0} /\ WatchdogPeriods \in Nat \ {0}
  /\ FoundWithin \in Nat \ {0}
  <1>1. AvgWindow \in Nat \ {0} /\ OcDebounce \in Nat \ {0}
    BY MonitorsAssumption
  <1>2. FoundWithin \in Nat \ {0}
    BY <1>1 DEF FoundWithin
  <1> QED BY <1>1, <1>2, MotorAssumption, MonitorsAssumption, RearZoneAssumption

LEMMA TicksStay == ASSUME NEW n \in Int PROVE n % SafetyPeriod \in 0 .. SafetyPeriod - 1
  BY Constants

\* The state after main() has initialised everything.
LEMMA StartTypes ==
  ASSUME NEW self_test \in {"PASS", "FAIL"}
  PROVE  /\ RteAtStart(self_test) \in
                 [vehicle_state : VehicleStates, estop : BOOLEAN, torque : Torques,
                  derating : Deratings, torque_echo : 0 .. 100, motor_dir : Directions,
                  overcurrent : BOOLEAN, temp_fault : BOOLEAN, encoder_dir : Directions,
                  self_test : {"PASS", "FAIL"}]
         /\ RteAtStart(self_test).torque = 0
         /\ Swc_Motor_Init \in MotorVariables
         /\ Swc_CurrentMonitor_Init \in CurrentVariables
         /\ ~Swc_CurrentMonitor_Init.active
         /\ Swc_CurrentMonitor_Init.debounce = 0 /\ Swc_CurrentMonitor_Init.recovery = 0
         /\ EncoderCounts(Swc_Encoder_Init)
         /\ Swc_TempMonitor_Init \in TempVariables
         /\ Idle \in [dir : Directions, duty : 0 .. 95] /\ Idle.dir = "STOP"
         /\ PlantAtStart \in
                 [current : Currents, temp : Temps, turning : {"STILL", "CREEPS", "TURNS"}]
  <1>1. 0 \in Torques /\ 0 \in Currents /\ 25 \in Temps
    BY MotorAssumption, MonitorsAssumption, RearZoneAssumption
  <1>2. RteAtStart(self_test) \in
                 [vehicle_state : VehicleStates, estop : BOOLEAN, torque : Torques,
                  derating : Deratings, torque_echo : 0 .. 100, motor_dir : Directions,
                  overcurrent : BOOLEAN, temp_fault : BOOLEAN, encoder_dir : Directions,
                  self_test : {"PASS", "FAIL"}] /\ RteAtStart(self_test).torque = 0
    BY <1>1 DEF RteAtStart, VehicleStates, Deratings, Directions
  <1>3. Swc_Motor_Init \in MotorVariables
    BY <1>1, Constants DEF Swc_Motor_Init, MotorVariables, Directions
  <1>4. /\ Swc_CurrentMonitor_Init \in CurrentVariables /\ ~Swc_CurrentMonitor_Init.active
        /\ Swc_CurrentMonitor_Init.debounce = 0 /\ Swc_CurrentMonitor_Init.recovery = 0
    BY <1>1, Constants DEF Swc_CurrentMonitor_Init, CurrentVariables
  <1>5. EncoderCounts(Swc_Encoder_Init)
    BY Constants DEF Swc_Encoder_Init, EncoderVariables, EncoderCounts
  <1>6. Swc_TempMonitor_Init \in TempVariables
    BY DEF Swc_TempMonitor_Init, TempVariables
  <1>7. Idle \in [dir : Directions, duty : 0 .. 95] /\ Idle.dir = "STOP"
    BY DEF Idle, Directions
  <1>8. PlantAtStart \in
                 [current : Currents, temp : Temps, turning : {"STILL", "CREEPS", "TURNS"}]
    BY <1>1 DEF PlantAtStart
  <1> QED BY <1>2, <1>3, <1>4, <1>5, <1>6, <1>7, <1>8

LEMMA StartRanges ==
  /\ 1 % SafetyPeriod \in 0 .. SafetyPeriod - 1
  /\ 0 \in 0 .. FailLimit /\ 0 \in 0 .. WatchdogPeriods /\ 0 \in 0 .. CmdTimeout + 1
  /\ -OcRecovery \in -OcRecovery .. FoundWithin
  <1>1. 1 % SafetyPeriod \in 0 .. SafetyPeriod - 1
    BY TicksStay
  <1> QED BY <1>1, Constants

LEMMA Initially == Init => IInv
  <1> SUFFICES ASSUME Init PROVE IInv
    OBVIOUS
  <1>1. PICK self_test \in {"PASS", "FAIL"} : rte = RteAtStart(self_test)
    BY DEF Init, SelfTestResults
  <1>2. TypeOK
    BY <1>1, StartTypes, StartRanges DEF Init, TypeOK, EncoderCounts
  <1>3. PwmFollows /\ DrivesAsCommanded /\ StaleDriveEnds
    BY <1>1, StartTypes, Constants
       DEF Init, PwmFollows, DrivesAsCommanded, StaleDriveEnds, Driving
  <1>4. EncoderCounts(encoder) /\ StaleRunsCounted
    BY <1>1, StartTypes DEF Init, StaleRunsCounted
  <1>5. RecoveryCounted
    BY <1>1, StartTypes, Constants DEF Init, RecoveryCounted
  <1> QED BY <1>2, <1>3, <1>4, <1>5 DEF IInv

LEMMA ResetKeeps == IInv /\ Reset => IInv'
  <1> SUFFICES ASSUME IInv, Reset PROVE IInv'
    OBVIOUS
  <1>1. PICK self_test \in {"PASS", "FAIL"} : rte' = RteAtStart(self_test)
    BY DEF Reset, SelfTestResults
  <1>2. TypeOK'
    BY <1>1, StartTypes, StartRanges DEF Reset, TypeOK, EncoderCounts, IInv
  <1>3. PwmFollows' /\ DrivesAsCommanded' /\ StaleDriveEnds'
    BY <1>1, StartTypes, Constants
       DEF Reset, PwmFollows, DrivesAsCommanded, StaleDriveEnds, Driving
  <1>4. EncoderCounts(encoder)' /\ StaleRunsCounted'
    BY <1>1, StartTypes DEF Reset, StaleRunsCounted
  <1>5. RecoveryCounted'
    BY <1>1, StartTypes, Constants DEF Reset, RecoveryCounted
  <1> QED BY <1>2, <1>3, <1>4, <1>5 DEF IInv

\* The types of the RTE signals.
LEMMA RteTypes ==
  ASSUME TypeOK
  PROVE  /\ rte.vehicle_state \in VehicleStates /\ rte.estop \in BOOLEAN
         /\ rte.torque \in Torques /\ rte.derating \in Deratings
         /\ rte.torque_echo \in 0 .. 100 /\ rte.motor_dir \in Directions
         /\ rte.encoder_dir \in Directions
         /\ plant.current \in Currents /\ plant.temp \in Temps
  BY DEF TypeOK

LEMMA CurrentKeeps ==
  ASSUME IInv, Current
  PROVE  /\ IInv'
         /\ current.active /\ ~current'.active => current_run' = -OcRecovery
  <1> DEFINE raw == plant.current
  <1>1. raw \in Currents /\ raw \in Nat /\ Overcurrent \in Nat
    BY RteTypes, MonitorsAssumption DEF IInv
  <1>2. OvercurrentChecked(current, raw, current')
    BY <1>1, CurrentRuns DEF Current, IInv, TypeOK, RecoveryCounted
  <1>3. current_run \in -OcRecovery .. FoundWithin
    BY DEF IInv, TypeOK
  <1>4. current_run' = IF raw > Overcurrent
                       THEN IF current_run < 0 THEN 1
                            ELSE IF current_run < FoundWithin THEN current_run + 1 ELSE current_run
                       ELSE IF current_run > 0 THEN -1
                            ELSE IF current_run > -OcRecovery THEN current_run - 1 ELSE current_run
    BY DEF Current
  <1>5. /\ current.active \in BOOLEAN /\ current.recovery \in 0 .. OcRecovery - 1
        /\ current'.active \in BOOLEAN /\ current'.recovery \in 0 .. OcRecovery - 1
    BY <1>2 DEF IInv, TypeOK, CurrentVariables, OvercurrentChecked
  <1> HIDE DEF raw
  <1>6. /\ current_run' \in -OcRecovery .. FoundWithin
        /\ raw > Overcurrent => current_run' > 0
        /\ ~(raw > Overcurrent) /\ current_run # 0 => current_run' < 0
    BY <1>1, <1>3, <1>4, Constants
  <1>7. current.active /\ ~current'.active => current_run' = -OcRecovery
    BY <1>1, <1>2, <1>3, <1>4, <1>5, Constants DEF OvercurrentChecked, IInv, RecoveryCounted
  <1>8. RecoveryCounted'
    <2>0. current_run' # 0
      BY <1>6 DEF IInv, RecoveryCounted
    <2>1. CASE ~current'.active
      BY <1>2, <2>1, <2>0, Constants DEF RecoveryCounted, OvercurrentChecked
    <2>2. CASE current'.active /\ current'.recovery = 0
      BY <1>2, <1>3, <1>4, <1>6, <2>2, <2>0, Constants DEF RecoveryCounted, OvercurrentChecked
    <2>3. CASE current.active /\ raw <= Overcurrent /\ current'.recovery = current.recovery + 1
      <3>1. /\ current_run > 0 => current.recovery = 0
            /\ current_run < 0 => current.recovery <= -current_run
            /\ current_run # 0
        BY <2>3 DEF IInv, RecoveryCounted
      <3>2. current'.active /\ ~(raw > Overcurrent)
        <4>1. ~(raw > Overcurrent)
          BY <1>1, <2>3
        <4>2. current.recovery + 1 # 0
          BY <1>5, Constants
        <4> QED BY <1>2, <1>5, <2>3, <4>1, <4>2 DEF OvercurrentChecked
      <3>3. current_run' < 0
        BY <1>6, <3>1, <3>2
      <3>4. CASE current_run > 0
        <4>1. current_run' = -1 /\ current'.recovery = 1
          BY <1>3, <1>4, <2>3, <3>1, <3>2, <3>4, Constants
        <4> QED BY <2>0, <3>2, <4>1 DEF RecoveryCounted
      <3>5. CASE ~(current_run > 0) /\ current_run > -OcRecovery
        <4>1. current_run' = current_run - 1 /\ current'.recovery <= -current_run + 1
          BY <1>3, <1>4, <1>5, <2>3, <3>1, <3>2, <3>5, Constants
        <4>2. current'.recovery <= -current_run'
          BY <1>3, <1>5, <4>1, Constants
        <4> QED BY <2>0, <3>2, <3>3, <1>6, <4>2, Constants DEF RecoveryCounted
      <3>6. CASE ~(current_run > 0) /\ ~(current_run > -OcRecovery)
        <4>1. current_run' = -OcRecovery
          BY <1>3, <1>4, <3>2, <3>6, Constants
        <4>2. current'.recovery <= -current_run'
          BY <1>5, <4>1, Constants
        <4> QED BY <2>0, <3>2, <3>3, <1>6, <4>2, Constants DEF RecoveryCounted
      <3> QED BY <3>4, <3>5, <3>6
    <2> QED BY <1>2, <2>1, <2>2, <2>3 DEF OvercurrentChecked
  <1>9. TypeOK'
    BY <1>2, <1>5, <1>6, TicksStay DEF Current, NextTick, IInv, TypeOK, OvercurrentChecked, devices
  <1>10. EncoderCounts(encoder)' /\ PwmFollows' /\ StaleRunsCounted'
    BY DEF Current, IInv, PwmFollows, StaleRunsCounted, devices
  <1>11. DrivesAsCommanded'
    BY DEF Current, NextTick, DrivesAsCommanded
  <1>12. StaleDriveEnds'
    BY DEF Current, IInv, StaleDriveEnds, Driving
  <1> QED BY <1>7, <1>8, <1>9, <1>10, <1>11, <1>12 DEF IInv

LEMMA MotorKeeps ==
  ASSUME IInv, Motor
  PROVE  /\ IInv'
         /\ {pwm.dir, pwm'.dir} # {"FORWARD", "REVERSE"}
  <1> DEFINE in == [estop |-> rte.estop, state |-> rte.vehicle_state,
                    torque |-> rte.torque, derating |-> rte.derating]
             run == Swc_Motor_MainFunction(motor, in)
  <1>1. in \in MotorInputs /\ motor \in MotorVariables
    BY RteTypes DEF IInv, TypeOK, MotorInputs
  <1>2. MotorRan(motor, in, run)
    BY <1>1, MotorRuns
  <1>3. /\ motor' = run.motor /\ pwm' = run.pwm /\ enabled' = (run.pwm # Idle)
        /\ rte' = [rte EXCEPT !.torque_echo = run.echo, !.motor_dir = run.motor.direction]
        /\ stale_runs' = IF Disables(in) \/ stale_runs > CmdTimeout THEN stale_runs
                         ELSE stale_runs + 1
        /\ pc' = "encoder"
        /\ UNCHANGED <<tick, current, encoder, temperature, fail_count, can_loss, plant, unfed,
                       disturbed, current_run>>
    BY DEF Motor
  <1> HIDE DEF run
  <1>4. in.torque = rte.torque /\ in.estop = rte.estop /\ in.state = rte.vehicle_state
    OBVIOUS
  <1> HIDE DEF in
  <1>5. /\ rte'.torque = rte.torque /\ rte'.estop = rte.estop
        /\ rte'.vehicle_state = rte.vehicle_state
    BY <1>3 DEF IInv, TypeOK
  <1>6. /\ stale_runs \in 0 .. CmdTimeout + 1 /\ motor.timeout_cycles \in 0 .. CmdTimeout
        /\ motor'.timeout_cycles \in 0 .. CmdTimeout
    BY <1>2, <1>3 DEF IInv, TypeOK, MotorRan, MotorVariables
  <1>7. TypeOK'
    <2>1. stale_runs' \in 0 .. CmdTimeout + 1
      BY <1>3, <1>6, Constants
    <2>2. rte' \in [vehicle_state : VehicleStates, estop : BOOLEAN, torque : Torques,
                    derating : Deratings, torque_echo : 0 .. 100, motor_dir : Directions,
                    overcurrent : BOOLEAN, temp_fault : BOOLEAN, encoder_dir : Directions,
                    self_test : {"PASS", "FAIL"}]
      BY <1>2, <1>3 DEF IInv, TypeOK, MotorRan, MotorVariables
    <2>3. enabled' \in BOOLEAN
      BY <1>3
    <2> QED BY <1>2, <1>3, <2>1, <2>2, <2>3 DEF IInv, TypeOK, MotorRan
  <1>8. PwmFollows'
    BY <1>2, <1>3 DEF MotorRan, PwmFollows
  <1>9. DrivesAsCommanded'
    BY <1>2, <1>3, <1>4, <1>5 DEF MotorRan, DrivesAsCommanded, Driving
  <1>10. ASSUME ~Disables(in), stale_runs >= 1, rte.torque # 0
         PROVE  /\ motor.timed_out \/ motor.timeout_cycles + 1 >= CmdTimeout => motor'.timed_out
                /\ motor'.timed_out \/ motor'.timeout_cycles = motor.timeout_cycles + 1
                /\ motor.timed_out \/ motor.timeout_cycles + 1 >= stale_runs
    BY <1>2, <1>3, <1>4, <1>10 DEF MotorRan, IInv, StaleRunsCounted
  <1>11. StaleRunsCounted'
    <2> SUFFICES ASSUME stale_runs' >= 1, rte.torque # 0
                 PROVE  /\ rte.torque = motor'.prev_torque
                        /\ motor'.timed_out \/ motor'.timeout_cycles + 1 >= stale_runs'
      BY <1>5 DEF StaleRunsCounted
    <2>1. CASE Disables(in)
      BY <1>2, <1>3, <2>1 DEF MotorRan, IInv, StaleRunsCounted
    <2>2. CASE ~Disables(in) /\ stale_runs = 0
      BY <1>2, <1>3, <1>4, <1>6, <2>2, Constants DEF MotorRan
    <2>3. CASE ~Disables(in) /\ stale_runs >= 1
      <3>1. rte.torque = motor'.prev_torque
        BY <1>2, <1>3, <1>4, <2>3 DEF MotorRan
      <3>2. CASE stale_runs > CmdTimeout
        BY <1>3, <1>6, <1>10, <2>3, <3>1, <3>2, Constants
      <3>3. CASE stale_runs <= CmdTimeout
        <4>1. stale_runs' = stale_runs + 1
          BY <1>3, <1>6, <2>3, <3>3, Constants
        <4>2. CASE motor.timed_out
          BY <1>10, <2>3, <3>1, <4>2
        <4>3. CASE ~motor.timed_out
          BY <1>6, <1>10, <2>3, <3>1, <4>1, <4>3
        <4> QED BY <4>2, <4>3
      <3> QED BY <1>6, <3>2, <3>3, Constants
    <2> QED BY <1>6, <2>1, <2>2, <2>3
  <1>12. StaleDriveEnds'
    <2> SUFFICES ASSUME stale_runs' > CmdTimeout, pwm'.dir # "STOP"
                 PROVE  FALSE
      BY DEF StaleDriveEnds, Driving
    <2>1. ~Disables(in) /\ rte.torque # 0 /\ ~motor'.timed_out
      <3>1. rte.torque \in Int
        BY RteTypes, TorqueRange DEF IInv
      <3>2. /\ IF run.pwm.dir = "FORWARD" THEN in.torque > 0 ELSE in.torque < 0
            /\ in.state \in {"RUN", "DEGRADED", "LIMP"} /\ ~in.estop
            /\ ~run.motor.timed_out
        BY <1>2, <1>3 DEF MotorRan
      <3>3. rte.torque # 0
        BY <1>4, <3>1, <3>2
      <3> QED BY <1>3, <3>2, <3>3 DEF Disables
    <2>2. stale_runs >= 1 /\ stale_runs >= CmdTimeout
      BY <1>3, <1>6, <2>1, Constants
    <2> QED BY <1>6, <1>10, <2>1, <2>2, Constants
  <1>13. EncoderCounts(encoder)' /\ RecoveryCounted'
    BY <1>3 DEF IInv, RecoveryCounted
  <1>14. {pwm.dir, pwm'.dir} # {"FORWARD", "REVERSE"}
    <2> SUFFICES ASSUME pwm.dir # "STOP", pwm'.dir # "STOP"
                 PROVE  pwm'.dir = pwm.dir
      OBVIOUS
    <2>1. ~Reverses(motor.direction, pwm'.dir) /\ pwm.dir = motor.direction
      BY <1>2, <1>3 DEF MotorRan, IInv, PwmFollows
    <2> QED BY <2>1 DEF Reverses
  <1> QED BY <1>7, <1>8, <1>9, <1>11, <1>12, <1>13, <1>14 DEF IInv

LEMMA EncoderKeeps == IInv /\ Encoder => IInv'
  <1> SUFFICES ASSUME IInv, Encoder PROVE IInv'
    OBVIOUS
  <1>1. EncoderDirection \in Directions
    BY DEF EncoderDirection, Directions
  <1>2. EncoderCounts(encoder)'
    BY <1>1, RteTypes, EncoderRuns DEF IInv, Encoder
  <1>3. /\ rte' = [rte EXCEPT !.encoder_dir = EncoderDirection]
        /\ rte'.torque = rte.torque
    BY DEF Encoder, IInv, TypeOK
  <1>4. enabled' \in BOOLEAN /\ (enabled' => enabled)
    BY DEF Encoder, IInv, TypeOK
  <1>5. TypeOK'
    BY <1>1, <1>2, <1>3, <1>4 DEF IInv, TypeOK, Encoder, EncoderCounts, observers
  <1>6. DrivesAsCommanded' /\ PwmFollows' /\ RecoveryCounted'
    BY DEF IInv, Encoder, DrivesAsCommanded, PwmFollows, RecoveryCounted, observers
  <1>7. StaleRunsCounted'
    BY <1>3 DEF IInv, Encoder, StaleRunsCounted, observers
  <1>8. StaleDriveEnds'
    BY <1>4 DEF IInv, Encoder, StaleDriveEnds, Driving, observers
  <1> QED BY <1>2, <1>5, <1>6, <1>7, <1>8 DEF IInv

LEMMA ReceiveKeeps == IInv /\ Receive => IInv'
  <1> SUFFICES ASSUME IInv, Receive PROVE IInv'
    OBVIOUS
  <1>1. PICK state \in VehicleStates, torque \in Torques, estop \in BOOLEAN :
          \/ TorqueFrame(state, torque)
          \/ BadTorqueFrame
          \/ NoTorqueFrame(estop)
    <2>1. "RUN" \in VehicleStates /\ TRUE \in BOOLEAN /\ 0 \in Torques
      BY MotorAssumption DEF VehicleStates
    <2> QED BY <2>1 DEF Receive
  <1>2. 0 \in Torques /\ 0 \in 0 .. CmdTimeout + 1 /\ 0 \in 0 .. FailLimit
    BY MotorAssumption, Constants
  <1>3. /\ stale_runs' \in 0 .. CmdTimeout + 1 /\ fail_count' \in 0 .. FailLimit
        /\ stale_runs' = 0 \/ (stale_runs' = stale_runs /\ rte'.torque \in {0, rte.torque})
        /\ rte' \in [vehicle_state : VehicleStates, estop : BOOLEAN, torque : Torques,
                     derating : Deratings, torque_echo : 0 .. 100, motor_dir : Directions,
                     overcurrent : BOOLEAN, temp_fault : BOOLEAN, encoder_dir : Directions,
                     self_test : {"PASS", "FAIL"}]
    <2>1. CASE TorqueFrame(state, torque)
      BY <1>2, <2>1 DEF TorqueFrame, IInv, TypeOK
    <2>2. CASE BadTorqueFrame
      <3>1. fail_count' \in 0 .. FailLimit
        BY <2>2, Constants DEF BadTorqueFrame, IInv, TypeOK
      <3>2. TorqueAfter(rte.torque, fail_count') \in Torques \cap {0, rte.torque}
        BY <1>2, RteTypes DEF TorqueAfter, IInv
      <3> QED BY <2>2, <3>1, <3>2 DEF BadTorqueFrame, IInv, TypeOK
    <2>3. CASE NoTorqueFrame(estop)
      <3>1. TorqueAfter(rte.torque, fail_count) \in Torques \cap {0, rte.torque}
        BY <1>2, RteTypes DEF TorqueAfter, IInv
      <3> QED BY <2>3, <3>1 DEF NoTorqueFrame, IInv, TypeOK
    <2> QED BY <1>1, <2>1, <2>2, <2>3
  <1>4. TypeOK'
    BY <1>3 DEF Receive, IInv, TypeOK
  <1>5. StaleRunsCounted'
    BY <1>3 DEF Receive, IInv, StaleRunsCounted
  <1>6. StaleDriveEnds'
    BY <1>3, Constants DEF Receive, IInv, StaleDriveEnds, Driving
  <1>7. EncoderCounts(encoder)' /\ PwmFollows' /\ DrivesAsCommanded' /\ RecoveryCounted'
    BY DEF Receive, IInv, PwmFollows, DrivesAsCommanded, RecoveryCounted
  <1> QED BY <1>4, <1>5, <1>6, <1>7 DEF IInv

LEMMA FeedKeeps == IInv /\ Feed => IInv'
  <1> SUFFICES ASSUME IInv, Feed PROVE IInv'
    OBVIOUS
  <1>1. 0 \in Currents /\ 25 \in Temps
    BY MonitorsAssumption, RearZoneAssumption
  <1>2. plant' \in [current : Currents, temp : Temps, turning : {"STILL", "CREEPS", "TURNS"}]
    BY <1>1 DEF Feed
  <1>3. tick' \in 0 .. SafetyPeriod - 1 /\ pc' \in {"temperature", "current"}
    BY TicksStay DEF Feed, NextTick, IInv, TypeOK
  <1>4. TypeOK'
    BY <1>2, <1>3 DEF Feed, IInv, TypeOK, devices, observers
  <1>5. DrivesAsCommanded'
    BY <1>3 DEF DrivesAsCommanded
  <1> QED BY <1>4, <1>5 DEF Feed, IInv, devices, observers, PwmFollows, StaleRunsCounted,
                            StaleDriveEnds, Driving, RecoveryCounted

LEMMA TemperatureKeeps == IInv /\ Temperature => IInv'
  <1> SUFFICES ASSUME IInv, Temperature PROVE IInv'
    OBVIOUS
  <1>1. temperature' \in TempVariables
    BY RteTypes, TemperatureTypes DEF Temperature, IInv, TypeOK
  <1>2. temperature'.derating \in Deratings /\ temperature'.fault \in BOOLEAN
    BY <1>1 DEF TempVariables, Deratings
  <1>3. /\ rte'.torque = rte.torque
        /\ rte' \in [vehicle_state : VehicleStates, estop : BOOLEAN, torque : Torques,
                     derating : Deratings, torque_echo : 0 .. 100, motor_dir : Directions,
                     overcurrent : BOOLEAN, temp_fault : BOOLEAN, encoder_dir : Directions,
                     self_test : {"PASS", "FAIL"}]
    BY <1>2 DEF Temperature, IInv, TypeOK
  <1>4. UNCHANGED <<tick, motor, current, encoder, fail_count, can_loss, enabled, pwm, plant,
                    unfed, disturbed, stale_runs, current_run>> /\ pc' = "safety"
    BY DEF Temperature, observers
  <1>5. TypeOK'
    BY <1>1, <1>3, <1>4 DEF IInv, TypeOK
  <1> QED BY <1>3, <1>4, <1>5 DEF Temperature, IInv, PwmFollows, DrivesAsCommanded,
                                  StaleRunsCounted, StaleDriveEnds, Driving, RecoveryCounted

LEMMA SafetyKeeps == IInv /\ Safety => IInv'
  <1> SUFFICES ASSUME IInv, Safety PROVE IInv'
    OBVIOUS
  <1>1. can_loss' \in BOOLEAN
    BY DEF Safety, IInv, TypeOK
  <1>2. unfed' \in 0 .. WatchdogPeriods
    <2>1. PICK bus_off \in BOOLEAN :
            unfed' = IF FeedsWatchdog(bus_off) THEN 0
                     ELSE IF unfed < WatchdogPeriods THEN unfed + 1 ELSE unfed
      BY DEF Safety
    <2>2. unfed \in 0 .. WatchdogPeriods
      BY DEF IInv, TypeOK
    <2> QED BY <2>1, <2>2, Constants
  <1>3. enabled' \in BOOLEAN /\ (enabled' => enabled)
    BY DEF Safety, IInv, TypeOK
  <1>4. tick' \in 0 .. SafetyPeriod - 1 /\ pc' = "current"
    BY TicksStay DEF Safety, NextTick, IInv, TypeOK
  <1>5. TypeOK'
    BY <1>1, <1>2, <1>3, <1>4 DEF Safety, IInv, TypeOK, observers
  <1>6. StaleDriveEnds' /\ DrivesAsCommanded'
    BY <1>3, <1>4 DEF Safety, IInv, StaleDriveEnds, DrivesAsCommanded, Driving, observers
  <1> QED BY <1>5, <1>6 DEF Safety, IInv, PwmFollows, StaleRunsCounted, RecoveryCounted, observers

LEMMA StutterKeeps == IInv /\ UNCHANGED vars => IInv'
  BY DEF IInv, TypeOK, PwmFollows, DrivesAsCommanded, StaleRunsCounted, StaleDriveEnds, Driving,
         RecoveryCounted, vars, devices, observers

LEMMA NextKeeps == IInv /\ [Next]_vars => IInv'
  BY ResetKeeps, CurrentKeeps, MotorKeeps, EncoderKeeps, ReceiveKeeps, FeedKeeps,
     TemperatureKeeps, SafetyKeeps, StutterKeeps DEF Next, Cycle

THEOREM Invariance == Spec => []IInv
  BY Initially, NextKeeps, PTL DEF Spec

-----------------------------------------------------------------------------
(* The properties of the run rear_zone *)

\* Every variable stays within its type: no counter passes its limit.
THEOREM TypesHold == Spec => []TypeOK
  <1>1. IInv => TypeOK
    BY DEF IInv
  <1> QED BY <1>1, Invariance, PTL

\* The motor drives in the direction commanded and in no state that forbids it.
THEOREM CommandsObeyed == Spec => []DrivesAsCommanded
  <1>1. IInv => DrivesAsCommanded
    BY DEF IInv
  <1> QED BY <1>1, Invariance, PTL

\* Without a new torque frame the last command drives the motor in at most
\* CmdTimeout runs.  It is the driving that is bounded, not the age of the
\* command: an E-stop, INIT or SHUTDOWN holds the motor's time-out up, and the
\* observer `stale_runs` with it.
THEOREM StaleDriveBounded == Spec => []StaleDriveEnds
  <1>1. IInv => StaleDriveEnds
    BY DEF IInv
  <1> QED BY <1>1, Invariance, PTL

\* The H-bridge is off between two directions.
THEOREM DeadTimeKept == Spec => DeadTime
  <1>1. IInv /\ [Next]_vars => [{pwm.dir, pwm'.dir} # {"FORWARD", "REVERSE"}]_vars
    <2> SUFFICES ASSUME IInv, Next
                 PROVE  {pwm.dir, pwm'.dir} # {"FORWARD", "REVERSE"}
      BY DEF vars
    <2>1. CASE Motor
      BY <2>1, MotorKeeps
    <2>2. CASE Reset
      BY <2>2 DEF Reset, Idle
    <2>3. CASE pwm' = pwm
      BY <2>3
    <2> QED BY <2>1, <2>2, <2>3
            DEF Next, Cycle, Current, Encoder, Receive, Feed, Temperature, Safety
  <1> QED BY <1>1, Invariance, PTL DEF Spec, DeadTime

-----------------------------------------------------------------------------
(* The window of the current monitor *)

\* What the loop of CM_ComputeAverage has summed up after each slot.
Sums(buffer, sum) ==
    sum = [count \in 0 .. AvgWindow |->
             IF count = 0 THEN 0 ELSE sum[count - 1] + buffer[count - 1]]

\* A set of numbers that is not empty has a least one.
LEMMA LeastNumber ==
  ASSUME NEW numbers, numbers \subseteq Nat, numbers # {}
  PROVE  \E m \in numbers : \A n \in numbers : m <= n
  <1>1. PICK m \in numbers : \A n \in numbers : ~(<<n, m>> \in OpToRel(<, Nat))
    BY WFMin, NatLessThanWellFounded, Zenon
  <1>2. \A n \in numbers : m <= n
    <2> TAKE n \in numbers
    <2>1. n \in Nat /\ m \in Nat /\ ~(n < m)
      BY <1>1, Zenon DEF OpToRel
    <2> QED BY <2>1
  <1> QED BY <1>2

\* The loop has a result: one more slot extends the sums of the slots before.
LEMMA SumsExist ==
  ASSUME NEW buffer
  PROVE  \E sum : Sums(buffer, sum)
  <1> DEFINE Body(s, n) == IF n = 0 THEN 0 ELSE s[n - 1] + buffer[n - 1]
             UpTo(m, s) == s = [n \in 0 .. m |-> Body(s, n)]
             missing == {m \in Nat : ~\E s : UpTo(m, s)}
  <1>1. missing = {}
    <2> SUFFICES ASSUME missing # {} PROVE FALSE
      OBVIOUS
    <2>1. PICK m \in missing : \A n \in missing : m <= n
      <3>1. missing \subseteq Nat
        OBVIOUS
      <3> HIDE DEF missing
      <3> QED BY <3>1, LeastNumber
    <2>2. CASE m = 0
      <3>1. UpTo(0, [n \in 0 .. 0 |-> 0])
        OBVIOUS
      <3> QED BY <2>1, <2>2, <3>1
    <2>3. CASE m # 0
      <3>1. m \in Nat \ {0} /\ m - 1 \in Nat /\ m - 1 \notin missing
        BY <2>1, <2>3
      <3>2. PICK s : UpTo(m - 1, s)
        BY <3>1
      <3> DEFINE longer == [n \in 0 .. m |-> IF n = m THEN Body(s, m) ELSE s[n]]
      <3>3. UpTo(m, longer)
        <4>1. \A n \in 0 .. m - 1 : s[n] = Body(s, n)
          BY <3>2
        <4>2. \A n \in 0 .. m - 1 : longer[n] = s[n] /\ n \in 0 .. m
          BY <3>1
        <4>3. ASSUME NEW n \in 0 .. m PROVE longer[n] = Body(longer, n)
          <5>1. CASE n = 0
            BY <3>1, <4>1, <4>2, <5>1
          <5>2. CASE n # 0
            <6>1. n - 1 \in 0 .. m - 1
              BY <3>1, <5>2
            <6>2. longer[n - 1] = s[n - 1]
              BY <4>2, <6>1
            <6>3. longer[n] = Body(s, n)
              BY <3>1, <4>1
            <6> QED BY <6>2, <6>3
          <5> QED BY <5>1, <5>2
        <4> QED BY <4>3
      <3> QED BY <2>1, <3>3
    <2> QED BY <2>2, <2>3
  <1>2. AvgWindow \in Nat
    BY Constants
  <1>3. PICK s : UpTo(AvgWindow, s)
    BY <1>1, <1>2
  <1> QED BY <1>3 DEF Sums

\* The average of a full window of high readings is high.
LEMMA HighAverage ==
  ASSUME NEW c \in CurrentVariables, c.filled = AvgWindow,
         \A i \in 0 .. AvgWindow - 1 : c.buffer[i] > Overcurrent
  PROVE  Average(c) > Overcurrent
  <1> DEFINE w == AvgWindow
             b == c.buffer
             T == Overcurrent
             s == CHOOSE sum : Sums(b, sum)
  <1>1. /\ w \in Nat \ {0} /\ T \in Nat
        /\ \A i \in 0 .. w - 1 : b[i] \in Nat /\ b[i] >= T + 1
    <2>1. w \in Nat \ {0} /\ T \in Nat /\ Currents \subseteq Nat
      BY Constants, MonitorsAssumption
    <2>2. \A i \in 0 .. w - 1 : b[i] \in Nat /\ b[i] > T
      BY <2>1 DEF CurrentVariables
    <2> HIDE DEF w, b, T
    <2> QED BY <2>1, <2>2
  <1>2. Sums(b, s)
    BY SumsExist
  <1>3. Average(c) = s[w] \div w
    BY <1>1 DEF Average, Sums
  <1> HIDE DEF s
  <1>4. s[0] = 0 /\ \A n \in 1 .. w : s[n] = s[n - 1] + b[n - 1]
    BY <1>1, <1>2 DEF Sums
  <1> HIDE DEF w, b, T
  <1> DEFINE low == {n \in 0 .. w : ~(s[n] \in Nat /\ s[n] >= n * (T + 1))}
  <1>5. low = {}
    <2> SUFFICES ASSUME low # {} PROVE FALSE
      OBVIOUS
    <2>1. PICK m \in low : \A n \in low : m <= n
      <3>1. low \subseteq Nat
        BY <1>1
      <3> HIDE DEF low
      <3> QED BY <3>1, LeastNumber
    <2>2. m \in 1 .. w
      <3>1. 0 \notin low
        BY <1>1, <1>4
      <3> QED BY <1>1, <2>1, <3>1
    <2>3. m - 1 \in 0 .. w /\ m - 1 \in 0 .. w - 1 /\ m - 1 \notin low
      BY <1>1, <2>1, <2>2
    <2>4. s[m - 1] \in Nat /\ s[m - 1] >= (m - 1) * (T + 1) /\ b[m - 1] \in Nat
          /\ b[m - 1] >= T + 1 /\ s[m] = s[m - 1] + b[m - 1]
      BY <1>1, <1>4, <2>2, <2>3
    <2>5. (m - 1) * (T + 1) + (T + 1) = m * (T + 1) /\ m * (T + 1) \in Int
          /\ (m - 1) * (T + 1) \in Int
      BY <1>1, <2>2
    <2>6. s[m] \in Nat /\ s[m] >= m * (T + 1)
      BY <1>1, <2>2, <2>4, <2>5
    <2> QED BY <2>1, <2>6
  <1>6. s[w] \in Nat /\ s[w] >= w * (T + 1)
    BY <1>1, <1>5
  <1>7. s[w] \div w >= T + 1
    <2> DEFINE sum == s[w]
               q == s[w] \div w
    <2>1. sum = w * q + (sum % w) /\ q \in Int /\ (sum % w) < w
      BY <1>1, <1>6
    <2> HIDE DEF q, sum
    <2>2. CASE q <= T
      <3>1. w * q <= w * T
        BY <1>1, <2>1, <2>2
      <3>2. w * (T + 1) = w * T + w
        BY <1>1
      <3> QED BY <1>1, <1>6, <2>1, <3>1, <3>2 DEF sum
    <2> QED BY <1>1, <2>1, <2>2 DEF q
  <1>8. s[w] \div w \in Int
    BY <1>1, <1>6
  <1> QED BY <1>1, <1>3, <1>7, <1>8 DEF w, T

\* The slot that was written a number of readings ago, 1 the last.
Back(index, age) == IF index >= age THEN index - age ELSE index - age + AvgWindow

\* The last n slots hold high readings.
LastHigh(c, n) ==
    /\ n <= c.filled
    /\ \A age \in 1 .. n : c.buffer[Back(c.index, age)] > Overcurrent

\* A reading shifts the ages by one.
LEMMA SampledAges ==
  ASSUME NEW c \in CurrentVariables, NEW raw \in Currents, raw > Overcurrent,
         NEW n \in 0 .. AvgWindow - 1, LastHigh(c, n)
  PROVE  LastHigh(Sampled(c, raw), n + 1)
  <1> DEFINE t == Sampled(c, raw)
             w == AvgWindow
             i == c.index
  <1>1. w \in Nat \ {0} /\ i \in 0 .. w - 1 /\ c.filled \in 0 .. w
    BY Constants DEF CurrentVariables
  <1>2. /\ t.buffer = [c.buffer EXCEPT ![i] = raw]
        /\ t.index = IF i + 1 >= w THEN 0 ELSE i + 1
        /\ t.filled = IF c.filled < w THEN c.filled + 1 ELSE c.filled
    BY DEF Sampled, CurrentVariables
  <1>3. \A j \in 0 .. w - 1 : t.buffer[j] = IF j = i THEN raw ELSE c.buffer[j]
    BY <1>2 DEF CurrentVariables
  <1>4. n <= c.filled /\ \A age \in 1 .. n : c.buffer[Back(i, age)] > Overcurrent
    BY DEF LastHigh
  <1>5. \A age : /\ Back(i, age) = IF i >= age THEN i - age ELSE i - age + w
                 /\ Back(t.index, age) = IF t.index >= age THEN t.index - age
                                         ELSE t.index - age + w
    BY DEF Back
  <1> HIDE DEF t, w, i
  <1>6. n + 1 <= t.filled
    BY <1>1, <1>2, <1>4 DEF w
  <1>7. ASSUME NEW age \in 1 .. n + 1
        PROVE  t.buffer[Back(t.index, age)] > Overcurrent
    <2>1. CASE age = 1
      <3>1. Back(t.index, 1) = i
        BY <1>1, <1>2, <1>5
      <3> QED BY <1>1, <1>3, <2>1, <3>1
    <2>2. CASE age # 1
      <3>1. age - 1 \in 1 .. n /\ age \in 2 .. w
        BY <1>1, <2>2 DEF w
      <3>2. Back(t.index, age) = Back(i, age - 1) /\ Back(t.index, age) # i
            /\ Back(t.index, age) \in 0 .. w - 1
        BY <1>1, <1>2, <1>5, <3>1
      <3> QED BY <1>3, <1>4, <3>1, <3>2
    <2> QED BY <2>1, <2>2
  <1> QED BY <1>6, <1>7 DEF LastHigh, t

\* A window of which all ages are high is full of high readings.
LEMMA WindowHigh ==
  ASSUME NEW c \in CurrentVariables, LastHigh(c, AvgWindow)
  PROVE  c.filled = AvgWindow /\ \A j \in 0 .. AvgWindow - 1 : c.buffer[j] > Overcurrent
  <1> DEFINE w == AvgWindow
             i == c.index
  <1>1. w \in Nat \ {0} /\ i \in 0 .. w - 1 /\ c.filled \in 0 .. w
    BY Constants DEF CurrentVariables
  <1>2. w <= c.filled /\ \A age \in 1 .. w : c.buffer[Back(i, age)] > Overcurrent
    BY DEF LastHigh
  <1>3. \A age : Back(i, age) = IF i >= age THEN i - age ELSE i - age + w
    BY DEF Back
  <1> HIDE DEF w, i
  <1>4. ASSUME NEW j \in 0 .. w - 1
        PROVE  c.buffer[j] > Overcurrent
    <2> DEFINE age == IF j < i THEN i - j ELSE i - j + w
    <2>1. age \in 1 .. w /\ Back(i, age) = j
      BY <1>1, <1>3
    <2> QED BY <1>2, <2>1
  <1> QED BY <1>1, <1>2, <1>4 DEF w

\* A run of high readings fills the window from its newest slot; once it is
\* full, the run is debounced or has been found.
HighRun ==
    /\ current_run \in 1 .. AvgWindow - 1 => LastHigh(current, current_run)
    /\ current_run >= AvgWindow =>
         /\ LastHigh(current, AvgWindow)
         /\ current.active \/ current.debounce >= current_run - AvgWindow + 1

\* What a check leaves when the average is high.
LEMMA CheckWhenHigh ==
  ASSUME NEW c \in CurrentVariables, NEW average, NEW raw, average > Overcurrent
  PROVE  LET d == CheckOvercurrent(c, average, raw)
         IN  /\ d.buffer = c.buffer /\ d.index = c.index /\ d.filled = c.filled
             /\ c.active => d.active
             /\ ~c.active => d.debounce = c.debounce + 1
  BY DEF CheckOvercurrent, CurrentVariables

LEMMA CheckLeavesWindow ==
  ASSUME NEW c \in CurrentVariables, NEW average, NEW raw
  PROVE  LET d == CheckOvercurrent(c, average, raw)
         IN  d.buffer = c.buffer /\ d.index = c.index /\ d.filled = c.filled
  BY DEF CheckOvercurrent, CurrentVariables

LEMMA CurrentRunsHigh ==
  ASSUME IInv, HighRun, Current
  PROVE  HighRun'
  <1> DEFINE raw == plant.current
             t == Sampled(current, raw)
             w == AvgWindow
             run == current_run
  <1>1. raw \in Currents /\ raw \in Nat /\ Overcurrent \in Nat /\ current \in CurrentVariables
    BY RteTypes, MonitorsAssumption DEF IInv, TypeOK
  <1>2. /\ t \in CurrentVariables /\ t.active = current.active /\ t.debounce = current.debounce
    BY <1>1, SampledTypes
  <1>3. current' = CheckOvercurrent(t, Average(t), raw)
    BY DEF Current, Swc_CurrentMonitor_MainFunction
  <1>4. /\ w \in Nat \ {0} /\ OcDebounce \in Nat \ {0} /\ OcRecovery \in Nat \ {0}
        /\ FoundWithin = w - 1 + OcDebounce
        /\ run \in -OcRecovery .. FoundWithin /\ run # 0
    BY Constants DEF IInv, TypeOK, RecoveryCounted, FoundWithin
  <1>5. run' = IF raw > Overcurrent
               THEN IF run < 0 THEN 1 ELSE IF run < FoundWithin THEN run + 1 ELSE run
               ELSE IF run > 0 THEN -1 ELSE IF run > -OcRecovery THEN run - 1 ELSE run
    BY DEF Current
  <1>6. current'.buffer = t.buffer /\ current'.index = t.index /\ current'.filled = t.filled
    BY <1>2, <1>3, CheckLeavesWindow
  <1>7. \A n : LastHigh(current', n) <=> LastHigh(t, n)
    BY <1>6 DEF LastHigh
  <1>9. CASE ~(raw > Overcurrent)
    <2>1. run' < 0
      BY <1>1, <1>4, <1>5, <1>9
    <2>2. run' \in Int
      BY <1>1, <1>4, <1>5, <1>9
    <2> HIDE DEF run, w
    <2>3. ~(run' >= w) /\ run' \notin 1 .. w - 1
      BY <1>4, <2>1, <2>2
    <2> QED BY <2>3 DEF HighRun, run, w
  <1>10. CASE raw > Overcurrent
    <2> DEFINE n == IF run < 0 THEN 0 ELSE IF run < w THEN run ELSE w - 1
    <2>1. n \in 0 .. w - 1 /\ LastHigh(current, n)
      <3>1. n \in 0 .. w - 1
        <4> HIDE DEF run, w
        <4> QED BY <1>4
      <3>2. CASE run < 0
        BY <1>1, <3>1, <3>2 DEF LastHigh, CurrentVariables
      <3>3. CASE run \in 1 .. w - 1
        BY <1>4, <3>1, <3>3 DEF HighRun
      <3>4. CASE run >= w
        <4>1. n = w - 1 /\ LastHigh(current, w)
          BY <1>4, <3>4 DEF HighRun
        <4>2. current.filled \in Int
          BY <1>1, <1>4 DEF CurrentVariables
        <4> QED BY <1>4, <3>1, <4>1, <4>2 DEF LastHigh
      <3>5. run < 0 \/ run \in 1 .. w - 1 \/ run >= w
        <4> HIDE DEF run, w
        <4> QED BY <1>4
      <3> QED BY <3>2, <3>3, <3>4, <3>5
    <2>2. LastHigh(t, n + 1)
      BY <1>1, <1>10, <2>1, SampledAges
    <2>3. run' = IF run < 0 THEN 1 ELSE IF run < FoundWithin THEN run + 1 ELSE run
      BY <1>5, <1>10
    <2>4. run' >= w => n + 1 = w
      BY <1>4, <2>3
    <2>5. run' \in 1 .. w - 1 => n + 1 = run'
      BY <1>4, <2>3
    <2>6. ASSUME run' >= w
          PROVE  current'.active \/ current'.debounce >= run' - w + 1
      <3>1. t.filled = w /\ \A j \in 0 .. w - 1 : t.buffer[j] > Overcurrent
        BY <1>2, <2>2, <2>4, <2>6, WindowHigh
      <3>2. Average(t) > Overcurrent
        BY <1>2, <3>1, HighAverage
      <3>3. /\ current.active => current'.active
            /\ ~current.active => current'.debounce = current.debounce + 1
        BY <1>2, <1>3, <3>2, CheckWhenHigh
      <3>4. current.debounce \in Nat
        BY <1>1, <1>4 DEF CurrentVariables
      <3>5. run >= w => current.active \/ current.debounce >= run - w + 1
        BY DEF HighRun
      <3>6. ~current.active => current.debounce < OcDebounce
        BY DEF IInv, RecoveryCounted
      <3> HIDE DEF run, w, t, n
      <3> QED BY <1>4, <2>3, <2>6, <3>3, <3>4, <3>5, <3>6
    <2>7. HighRun'
      <3>1. run' \in 1 .. w - 1 => LastHigh(current', run')
        BY <1>7, <2>2, <2>5
      <3>2. run' >= w => LastHigh(current', w)
        BY <1>7, <2>2, <2>4
      <3>3. LastHigh(current, current_run)' = LastHigh(current', run')
            /\ LastHigh(current, AvgWindow)' = LastHigh(current', w)
        BY DEF LastHigh, Back
      <3> QED BY <2>6, <3>1, <3>2, <3>3 DEF HighRun
    <2> QED BY <2>7
  <1> QED BY <1>9, <1>10

LEMMA HighRunStarts == Init => HighRun
  <1> SUFFICES ASSUME Init PROVE HighRun
    OBVIOUS
  <1>1. current_run = -OcRecovery /\ OcRecovery \in Nat \ {0} /\ AvgWindow \in Nat \ {0}
    BY Constants DEF Init
  <1> QED BY <1>1 DEF HighRun

LEMMA HighRunKeeps ==
  ASSUME IInv, HighRun, [Next]_vars
  PROVE  HighRun'
  <1>1. CASE Current
    BY <1>1, CurrentRunsHigh
  <1>2. CASE Reset
    <2>1. current_run' = -OcRecovery /\ OcRecovery \in Nat \ {0} /\ AvgWindow \in Nat \ {0}
          /\ FoundWithin \in Nat
      BY <1>2, Constants DEF Reset
    <2> QED BY <2>1 DEF HighRun
  <1>3. CASE current' = current /\ current_run' = current_run
    BY <1>3 DEF HighRun, LastHigh, Back
  <1> QED BY <1>1, <1>2, <1>3
          DEF Next, Cycle, Motor, Encoder, Receive, Feed, Temperature, Safety, devices, observers,
              vars

\* A run as long as the window and the debounce has been found.
LEMMA LongRunFound ==
  ASSUME IInv, HighRun
  PROVE  current_run = FoundWithin => current.active
  <1>1. /\ AvgWindow \in Nat \ {0} /\ OcDebounce \in Nat \ {0}
        /\ FoundWithin = AvgWindow - 1 + OcDebounce
    BY Constants DEF FoundWithin
  <1>2. current.debounce \in Int
    BY <1>1 DEF IInv, TypeOK, CurrentVariables
  <1>3. ~current.active => current.debounce < OcDebounce
    BY DEF IInv, RecoveryCounted
  <1> QED BY <1>1, <1>2, <1>3 DEF HighRun

\* An overcurrent is found once the window has been full of high readings for
\* the debounce time, for every length of both, and is kept until the
\* recovery time has passed without a high reading, whatever the average.
THEOREM OvercurrentsTracked == Spec => OvercurrentTracked
  <1>1. IInv /\ HighRun /\ [Next]_vars => HighRun'
    BY HighRunKeeps
  <1>2. IInv' /\ HighRun' => (current_run' = FoundWithin => current'.active)
    <2>1. (IInv /\ HighRun => (current_run = FoundWithin => current.active))'
      BY LongRunFound, PTL
    <2> QED BY <2>1 DEF FoundWithin
  <1>3. IInv /\ [Next]_vars =>
          [current.active /\ ~current'.active => current_run' = -OcRecovery]_vars
    <2> SUFFICES ASSUME IInv, Next, current.active, ~current'.active
                 PROVE  current_run' = -OcRecovery
      BY DEF vars
    <2>1. CASE Current
      BY <2>1, CurrentKeeps
    <2>2. CASE Reset
      BY <2>2 DEF Reset
    <2>3. CASE current' = current
      BY <2>3
    <2> QED BY <2>1, <2>2, <2>3
            DEF Next, Cycle, Motor, Encoder, Receive, Feed, Temperature, Safety, devices
  <1>4. Spec => [](IInv /\ HighRun)
    BY <1>1, Invariance, HighRunStarts, PTL DEF Spec
  <1>5. Spec => OvercurrentFound
    BY <1>2, <1>4, PTL DEF Spec, OvercurrentFound
  <1>6. Spec => OvercurrentKept
    BY <1>3, Invariance, PTL DEF Spec, OvercurrentKept
  <1> QED BY <1>5, <1>6 DEF OvercurrentTracked
=============================================================================
