-------------------------- MODULE FrontZone_proofs --------------------------
(***************************************************************************)
(* Proofs about FrontZone, for every value of its constants.               *)
(***************************************************************************)
EXTENDS FrontZone, TLAPS

-----------------------------------------------------------------------------
(* Arithmetic of counters and angles *)

LEMMA NextModulo ==
  ASSUME NEW m \in Nat \ {0}, NEW n \in 0 .. m - 1
  PROVE  (n + 1) % m = IF n + 1 = m THEN 0 ELSE n + 1
  OBVIOUS

LEMMA CommandedAngle ==
  ASSUME NEW deg \in -AngleMax .. AngleMax
  PROVE  deg * DegToTenths \in Angles
  <1>1. (AngleMax - deg) * DegToTenths \in Nat
    BY SteeringAssumption
  <1>2. (AngleMax + deg) * DegToTenths \in Nat
    BY SteeringAssumption
  <1> QED BY <1>1, <1>2, SteeringAssumption DEF Angles

LEMMA RateLimitKeepsAngles ==
  ASSUME NEW prev \in Angles, NEW target \in Angles
  PROVE  /\ ApplyRateLimit(prev, target) \in Angles
         /\ Magnitude(ApplyRateLimit(prev, target)) <= Magnitude(prev) + RateLimit
  <1>1. AngleMax * DegToTenths \in Nat
    BY SteeringAssumption
  <1> QED BY <1>1, SteeringAssumption DEF Angles, ApplyRateLimit, Magnitude

-----------------------------------------------------------------------------
(* Steering *)

SteeringInputs == [cmd : -(AngleMax + 1) .. AngleMax + 1, spi_ok : BOOLEAN,
                   actual : -AngleMax .. AngleMax]

\* What ties the steering's variables together, and its debounce counter to
\* the observed time n that the angle has been off.
SteeringInv(s, n) ==
    /\ n < PlausDebounce => s.plaus_debounce = n
    /\ n = PlausDebounce =>
         /\ s.latched
         /\ s.plaus_debounce >= PlausDebounce => s.latch_counter = 0
         /\ s.plaus_debounce < PlausDebounce => s.latch_counter <= s.plaus_debounce + 1
    /\ ~s.plaus_armed => n = 0
    /\ s.latched => s.disable_level > 0
    /\ s.disable_level > 0 => s.pwm = 0
    /\ s.disable_level = 0 => s.pwm = s.prev_angle

\* The observer's count after one run of the steering.
NextImplausible(s, in, n) ==
    IF ~(in.spi_ok /\ InRange(in) /\ s.plaus_armed) THEN n
    ELSE IF ~Implausible(s, in) THEN 0
    ELSE IF n < PlausDebounce THEN n + 1 ELSE n

\* The check t of s sets the fault and the debounce counter only, and finds an
\* angle that has been off for the debounce time, until the counter wraps
\* around; k is the observed time then.
CheckFound(s, in, t, k) ==
    /\ t \in SteeringVariables
    /\ t = [s EXCEPT !.fault = t.fault, !.plaus_debounce = t.plaus_debounce]
    /\ k \in 0 .. PlausDebounce
    /\ k < PlausDebounce => t.plaus_debounce = k
    /\ ~s.plaus_armed => k = 0
    /\ t.fault = "NO_FAULT" => in.spi_ok /\ InRange(in)
    /\ k = PlausDebounce /\ t.fault = "NO_FAULT" =>
         /\ t.plaus_debounce < PlausDebounce
         /\ s.latched
         /\ s.latch_counter <= t.plaus_debounce

LEMMA CheckFinds ==
  ASSUME NEW s \in SteeringVariables, NEW in \in SteeringInputs,
         NEW n \in 0 .. PlausDebounce, SteeringInv(s, n)
  PROVE  CheckFound(s, in, CheckCommandAndFeedback(s, in), NextImplausible(s, in, n))
  <1> DEFINE t == CheckCommandAndFeedback(s, in)
             k == NextImplausible(s, in, n)
             count == (s.plaus_debounce + 1) % CounterMod
  <1> SUFFICES CheckFound(s, in, t, k)
    OBVIOUS
  <1>1. /\ count \in 0 .. CounterMod - 1
        /\ count = IF s.plaus_debounce + 1 = CounterMod THEN 0 ELSE s.plaus_debounce + 1
    <2>1. s.plaus_debounce \in 0 .. CounterMod - 1 /\ CounterMod \in Nat \ {0}
      BY SteeringAssumption DEF SteeringVariables
    <2> QED BY <2>1, NextModulo
  <1> HIDE DEF count, t, k
  <1>2. CASE ~in.spi_ok \/ ~InRange(in) \/ ~s.plaus_armed
    <2>1. k = n
      BY <1>2 DEF k, NextImplausible
    <2>2. PICK fault \in SteeringFaults \cup {"NO_FAULT"} :
            /\ t = [s EXCEPT !.fault = fault]
            /\ fault = "NO_FAULT" => in.spi_ok /\ InRange(in) /\ ~s.plaus_armed
      BY <1>2 DEF t, CheckCommandAndFeedback, SteeringFaults
    <2>3. /\ t \in SteeringVariables /\ t.plaus_debounce = s.plaus_debounce /\ t.fault = fault
          /\ t = [s EXCEPT !.fault = t.fault, !.plaus_debounce = t.plaus_debounce]
      BY <2>2 DEF SteeringVariables
    <2>4. k = PlausDebounce => s.plaus_armed
      BY <2>1, SteeringAssumption DEF SteeringInv
    <2> QED BY <2>1, <2>2, <2>3, <2>4 DEF CheckFound, SteeringInv
  <1>3. CASE in.spi_ok /\ InRange(in) /\ s.plaus_armed /\ ~Implausible(s, in)
    <2>1. t = [s EXCEPT !.plaus_debounce = 0, !.fault = "NO_FAULT"] /\ k = 0
      BY <1>3 DEF t, k, CheckCommandAndFeedback, NextImplausible
    <2>2. 0 \in 0 .. CounterMod - 1 /\ 0 < PlausDebounce /\ 0 \in 0 .. PlausDebounce
      BY SteeringAssumption
    <2>3. /\ t \in SteeringVariables /\ t.fault = "NO_FAULT" /\ t.plaus_debounce = 0
          /\ t = [s EXCEPT !.fault = t.fault, !.plaus_debounce = t.plaus_debounce]
      BY <2>1, <2>2 DEF SteeringVariables
    <2> QED BY <1>3, <2>1, <2>2, <2>3 DEF CheckFound
  <1>4. CASE in.spi_ok /\ InRange(in) /\ s.plaus_armed /\ Implausible(s, in)
    <2> DEFINE fault == IF count >= PlausDebounce THEN "PLAUSIBILITY" ELSE "NO_FAULT"
    <2>1. t = [s EXCEPT !.plaus_debounce = count, !.fault = fault]
      BY <1>4 DEF t, CheckCommandAndFeedback, count
    <2>2. k = IF n < PlausDebounce THEN n + 1 ELSE n
      BY <1>4 DEF k, NextImplausible
    <2>3. fault \in SteeringFaults \cup {"NO_FAULT"} /\ (fault = "NO_FAULT" => count < PlausDebounce)
      BY <1>1, SteeringAssumption DEF SteeringFaults
    <2> HIDE DEF fault
    <2>4. /\ t \in SteeringVariables /\ t.plaus_debounce = count /\ t.fault = fault
          /\ t = [s EXCEPT !.fault = t.fault, !.plaus_debounce = t.plaus_debounce]
      BY <1>1, <2>1, <2>3 DEF SteeringVariables
    <2>5. /\ s.plaus_debounce \in 0 .. CounterMod - 1
          /\ PlausDebounce \in Nat \ {0} /\ CounterMod \in Nat /\ PlausDebounce < CounterMod
          /\ s.latch_counter \in Nat
      BY SteeringAssumption DEF SteeringVariables
    <2>6. k \in 0 .. PlausDebounce /\ (k < PlausDebounce => count = k)
      BY <1>1, <2>2, <2>5 DEF SteeringInv
    <2>7. ASSUME k = PlausDebounce, count < PlausDebounce
          PROVE  s.latched /\ s.latch_counter <= count
      BY <1>1, <2>2, <2>5, <2>7 DEF SteeringInv
    <2> QED BY <1>4, <2>3, <2>4, <2>5, <2>6, <2>7 DEF CheckFound
  <1> QED BY <1>2, <1>3, <1>4

\* What the latch does to the checked variables t.
LatchKept(t, output, u) ==
    /\ u \in SteeringVariables
    /\ u.plaus_armed /\ u.plaus_debounce = t.plaus_debounce
    /\ u.disable_level = t.disable_level
    /\ t.fault # "NO_FAULT" => u.latched /\ u.latch_counter = 0
    /\ t.fault = "NO_FAULT" /\ t.latched /\ t.latch_counter + 1 < SteerLatchClear =>
         u.latched /\ u.latch_counter = t.latch_counter + 1
    /\ ~u.latched => u.prev_angle = output

LEMMA LatchKeeps ==
  ASSUME NEW t \in SteeringVariables, NEW output,
         t.fault = "NO_FAULT" => output \in Angles
  PROVE  LatchKept(t, output, LatchSteeringFault(t, output))
  <1> DEFINE u == LatchSteeringFault(t, output)
  <1> SUFFICES LatchKept(t, output, u)
    OBVIOUS
  <1>1. /\ 0 \in Angles /\ 0 \in 0 .. SteerLatchClear - 1
        /\ (t.episodes + 1) % CounterMod \in 0 .. CounterMod - 1
        /\ t.latch_counter \in 0 .. SteerLatchClear - 1
    <2>1. AngleMax * DegToTenths \in Nat
      BY SteeringAssumption
    <2>2. t.episodes \in 0 .. CounterMod - 1 /\ CounterMod \in Nat \ {0}
      BY SteeringAssumption DEF SteeringVariables
    <2>3. t.latch_counter \in 0 .. SteerLatchClear - 1
      BY DEF SteeringVariables
    <2> QED BY <2>1, <2>2, <2>3, NextModulo, SteeringAssumption DEF Angles
  <1> HIDE DEF u
  <1>2. CASE t.fault # "NO_FAULT"
    BY <1>1, <1>2 DEF u, LatchKept, LatchSteeringFault, SteeringVariables
  <1>3. CASE t.fault = "NO_FAULT" /\ ~t.latched
    BY <1>1, <1>3 DEF u, LatchKept, LatchSteeringFault, SteeringVariables
  <1>4. CASE t.fault = "NO_FAULT" /\ t.latched /\ t.latch_counter + 1 >= SteerLatchClear
    <2>1. u = [t EXCEPT !.latched = FALSE, !.latch_counter = 0, !.prev_angle = output,
                        !.plaus_armed = TRUE]
      BY <1>4 DEF u, LatchSteeringFault
    <2>2. ~(t.latch_counter + 1 < SteerLatchClear)
      BY <1>1, <1>4, SteeringAssumption
    <2> QED BY <1>1, <1>4, <2>1, <2>2 DEF LatchKept, SteeringVariables
  <1>5. CASE t.fault = "NO_FAULT" /\ t.latched /\ t.latch_counter + 1 < SteerLatchClear
    <2>1. t.latch_counter + 1 \in 0 .. SteerLatchClear - 1
      BY <1>1, <1>5, SteeringAssumption
    <2>2. u = [t EXCEPT !.latch_counter = t.latch_counter + 1, !.prev_angle = 0,
                        !.plaus_armed = TRUE]
      BY <1>5, <2>1, SteeringAssumption DEF u, LatchSteeringFault
    <2> QED BY <1>1, <1>5, <2>1, <2>2 DEF LatchKept, SteeringVariables
  <1> QED BY <1>1, <1>2, <1>3, <1>4, <1>5, SteeringAssumption

\* What the disabling of the PWM does after the latch.
PwmDisabled(u, v) ==
    /\ v \in SteeringVariables
    /\ v = [u EXCEPT !.disable_level = v.disable_level, !.pwm = v.pwm]
    /\ u.latched => v.disable_level > 0
    /\ ~u.latched => v.disable_level = u.disable_level
    /\ u.disable_level > 0 => v.disable_level > 0
    /\ v.disable_level > 0 => v.pwm = 0
    /\ v.disable_level = 0 => v.pwm = u.prev_angle

LEMMA DisableKeeps ==
  ASSUME NEW u \in SteeringVariables
  PROVE  PwmDisabled(u, DisablePwm(u))
  <1> DEFINE level == IF ~u.latched THEN u.disable_level
                      ELSE IF u.episodes >= 3 THEN 3 ELSE IF u.episodes >= 2 THEN 2 ELSE 1
             pwm   == IF level > 0 THEN 0 ELSE u.prev_angle
             v     == DisablePwm(u)
  <1> SUFFICES PwmDisabled(u, v)
    OBVIOUS
  <1>1. level \in 0 .. 3 /\ (u.latched => level > 0) /\ (~u.latched => level = u.disable_level)
    BY DEF SteeringVariables
  <1>2. pwm \in Angles
    <2>1. AngleMax * DegToTenths \in Nat
      BY SteeringAssumption
    <2>2. 0 \in Angles
      BY <2>1 DEF Angles
    <2> QED BY <2>2 DEF SteeringVariables
  <1>3. v = [u EXCEPT !.disable_level = level, !.pwm = pwm]
    BY DEF DisablePwm
  <1>4. (level > 0 => pwm = 0) /\ (level = 0 => pwm = u.prev_angle)
    BY <1>1
  <1> HIDE DEF level, pwm, v
  <1>5. u.disable_level \in 0 .. 3
    BY DEF SteeringVariables
  <1>6. v \in SteeringVariables /\ v.disable_level = level /\ v.pwm = pwm
    BY <1>1, <1>2, <1>3 DEF SteeringVariables
  <1> QED BY <1>1, <1>3, <1>4, <1>5, <1>6 DEF PwmDisabled

\* One run of the steering keeps its invariant, turns away from the centre by
\* at most the rate limit, and leaves a disabled output disabled.
SteeringRan(s, v, k) ==
    /\ v \in SteeringVariables
    /\ k \in 0 .. PlausDebounce
    /\ SteeringInv(v, k)
    /\ Magnitude(v.pwm) <= Magnitude(s.pwm) + RateLimit
    /\ s.disable_level > 0 => v.disable_level > 0 /\ v.pwm = 0

LEMMA SteeringRuns ==
  ASSUME NEW s \in SteeringVariables, NEW in \in SteeringInputs,
         NEW n \in 0 .. PlausDebounce, SteeringInv(s, n)
  PROVE  SteeringRan(s, Swc_Steering_MainFunction(s, in), NextImplausible(s, in, n))
  <1> DEFINE t      == CheckCommandAndFeedback(s, in)
             output == ApplyRateLimit(s.prev_angle, in.cmd * DegToTenths)
             u      == LatchSteeringFault(t, output)
             k      == NextImplausible(s, in, n)
             v      == Swc_Steering_MainFunction(s, in)
  <1> SUFFICES SteeringRan(s, v, k)
    OBVIOUS
  <1>1. v = DisablePwm(u)
    BY DEF Swc_Steering_MainFunction
  <1> HIDE DEF v
  <1>2. CheckFound(s, in, t, k)
    BY CheckFinds
  <1> HIDE DEF t, k
  <1>3. /\ t.latched = s.latched /\ t.latch_counter = s.latch_counter
        /\ t.disable_level = s.disable_level /\ t.pwm = s.pwm /\ t.prev_angle = s.prev_angle
    BY <1>2 DEF CheckFound, SteeringVariables
  <1>4. t.fault = "NO_FAULT" =>
          output \in Angles /\ Magnitude(output) <= Magnitude(s.prev_angle) + RateLimit
    <2> SUFFICES ASSUME t.fault = "NO_FAULT"
                 PROVE  output \in Angles /\ Magnitude(output) <= Magnitude(s.prev_angle) + RateLimit
      OBVIOUS
    <2>1. in.cmd \in -AngleMax .. AngleMax
      BY <1>2, SteeringAssumption DEF CheckFound, InRange, Magnitude, SteeringInputs
    <2>2. s.prev_angle \in Angles
      BY DEF SteeringVariables
    <2> QED BY <2>1, <2>2, CommandedAngle, RateLimitKeepsAngles
  <1> HIDE DEF output
  <1>5. LatchKept(t, output, u)
    BY <1>2, <1>4, LatchKeeps DEF CheckFound
  <1> HIDE DEF u
  <1>6. PwmDisabled(u, v)
    BY <1>1, <1>5, DisableKeeps DEF LatchKept
  <1>7. /\ v.plaus_armed = u.plaus_armed /\ v.plaus_debounce = u.plaus_debounce
        /\ v.latched = u.latched /\ v.latch_counter = u.latch_counter
        /\ v.prev_angle = u.prev_angle
    BY <1>5, <1>6 DEF LatchKept, PwmDisabled, SteeringVariables
  <1>8. /\ s.latch_counter \in Nat /\ s.plaus_debounce \in Nat
        /\ s.disable_level \in Nat /\ u.disable_level \in Nat /\ v.disable_level \in Nat
        /\ t.plaus_debounce \in Nat
        /\ PlausDebounce \in Nat \ {0} /\ SteerLatchClear \in Nat /\ RateLimit \in Nat
        /\ PlausDebounce < SteerLatchClear
    BY <1>2, <1>5, <1>6, SteeringAssumption, FrontZoneAssumption
       DEF CheckFound, LatchKept, PwmDisabled, SteeringVariables
  <1>9. SteeringInv(v, k)
    <2>1. CASE k = PlausDebounce /\ t.fault = "NO_FAULT"
      <3>1. s.latch_counter + 1 < SteerLatchClear
        BY <1>2, <1>8, <2>1 DEF CheckFound
      <3> QED BY <1>2, <1>3, <1>5, <1>6, <1>7, <1>8, <2>1, <3>1
         DEF SteeringInv, CheckFound, LatchKept, PwmDisabled
    <2>2. CASE k = PlausDebounce /\ t.fault # "NO_FAULT"
      BY <1>2, <1>3, <1>5, <1>6, <1>7, <1>8, <2>2
         DEF SteeringInv, CheckFound, LatchKept, PwmDisabled
    <2>3. CASE k # PlausDebounce
      BY <1>2, <1>3, <1>5, <1>6, <1>7, <1>8, <2>3
         DEF SteeringInv, CheckFound, LatchKept, PwmDisabled
    <2> QED BY <2>1, <2>2, <2>3
  <1>10. Magnitude(v.pwm) <= Magnitude(s.pwm) + RateLimit
    <2>1. s.pwm \in Int /\ v.pwm \in Int
      BY <1>6, SteeringAssumption DEF PwmDisabled, SteeringVariables, Angles
    <2>2. CASE v.disable_level > 0
      BY <1>6, <1>8, <2>1, <2>2 DEF PwmDisabled, Magnitude
    <2>3. CASE v.disable_level = 0
      <3>1. ~u.latched /\ s.disable_level = 0
        BY <1>3, <1>5, <1>6, <1>8, <2>3 DEF LatchKept, PwmDisabled
      <3>2. v.pwm = output /\ s.pwm = s.prev_angle /\ t.fault = "NO_FAULT"
        BY <1>5, <1>6, <2>3, <3>1
         DEF SteeringInv, CheckFound, LatchKept, PwmDisabled
      <3> QED BY <1>4, <3>2
    <2> QED BY <1>8, <2>2, <2>3
  <1>11. s.disable_level > 0 => v.disable_level > 0 /\ v.pwm = 0
    BY <1>3, <1>5, <1>6 DEF LatchKept, PwmDisabled
  <1> QED BY <1>2, <1>6, <1>9, <1>10, <1>11 DEF CheckFound, PwmDisabled, SteeringRan

-----------------------------------------------------------------------------
(* Brake *)

BrakeInputs == [cmd : 0 .. FullBrake + 1, estop : BOOLEAN, pos_ok : BOOLEAN,
                position : 0 .. FullBrake]

\* What ties the brake's variables together, and its counters to the observed
\* times: since the last E-stop, and off that it has been off its command.
BrakeInv(b, since, off) ==
    /\ b.latched <=> b.fault # "NO_FAULT"
    /\ since + 1 < BrakeLatchClear => b.latched /\ b.auto /\ b.latch_counter <= since + 1
    /\ since < BrakeLatchClear => b.pwm = FullBrake
    /\ off < BrakeDebounce => b.debounce = off
    /\ off = BrakeDebounce =>
         /\ b.latched /\ b.pwm = FullBrake
         /\ b.debounce >= BrakeDebounce => b.latch_counter = 0
         /\ b.debounce < BrakeDebounce => b.latch_counter <= b.debounce + 1
    /\ b.sending => b.latched /\ b.latch_counter + 1 <= b.cutoff_counter

NextSince(in, since) ==
    IF in.estop THEN 0 ELSE IF since < BrakeLatchClear THEN since + 1 ELSE since

NextDeviating(b, in, off) ==
    IF Oscillates(Driven(b, in)) THEN off
    ELSE IF ~Deviates(Driven(b, in)) THEN 0
    ELSE IF off < BrakeDebounce THEN off + 1 ELSE off

\* The brake's variables d after the position was read.
BrakeDriven(b, in, d) ==
    /\ d \in BrakeVariables
    /\ d.latched = (b.latched \/ in.estop) /\ d.auto = (b.auto \/ in.estop)
    /\ d.latch_counter = IF in.estop THEN 0 ELSE b.latch_counter
    /\ d.fault = b.fault /\ d.debounce = b.debounce
    /\ d.sending = b.sending /\ d.cutoff_counter = b.cutoff_counter
    /\ d.auto => d.pwm = FullBrake

LEMMA BrakeDrives ==
  ASSUME NEW b \in BrakeVariables, NEW in \in BrakeInputs
  PROVE  BrakeDriven(b, in, Driven(b, in))
  <1> DEFINE e == LatchEstop(b, in.estop)
             o == CountOscillation(e, Clamp(in))
             m == DriveBrake(o, Clamp(in))
             d == Driven(b, in)
  <1> SUFFICES BrakeDriven(b, in, d)
    OBVIOUS
  <1>1. Clamp(in) \in 0 .. FullBrake /\ FullBrake \in 0 .. FullBrake
    BY BrakeAssumption DEF Clamp, BrakeInputs
  <1>2. d = ReadPosition(m, in)
    BY DEF Driven
  <1>3. /\ e \in BrakeVariables
        /\ e.latched = (b.latched \/ in.estop) /\ e.auto = (b.auto \/ in.estop)
        /\ e.latch_counter = IF in.estop THEN 0 ELSE b.latch_counter
        /\ e.fault = b.fault /\ e.debounce = b.debounce
        /\ e.sending = b.sending /\ e.cutoff_counter = b.cutoff_counter
    <2>1. 0 \in 0 .. BrakeLatchClear - 1
      BY BrakeAssumption
    <2>2. CASE in.estop
      BY <2>1, <2>2 DEF LatchEstop, BrakeVariables
    <2>3. CASE ~in.estop
      BY <2>3 DEF LatchEstop, BrakeVariables, BrakeInputs
    <2> QED BY <2>2, <2>3
  <1> HIDE DEF e
  <1>4. o \in BrakeVariables /\ o = [e EXCEPT !.osc_prev = o.osc_prev, !.osc_counter = o.osc_counter]
    <2> DEFINE counter == IF e.latched \/ Distance(Clamp(in), e.osc_prev) <= OscThreshold
                          THEN 0
                          ELSE IF e.osc_counter < OscDebounce THEN e.osc_counter + 1
                          ELSE e.osc_counter
    <2>1. counter \in 0 .. OscDebounce
      BY <1>3, BrakeAssumption DEF BrakeVariables
    <2>2. o = [e EXCEPT !.osc_prev = Clamp(in), !.osc_counter = counter]
      BY DEF CountOscillation
    <2> HIDE DEF counter, o
    <2> QED BY <1>1, <1>3, <2>1, <2>2 DEF BrakeVariables
  <1> HIDE DEF o
  <1>5. m \in BrakeVariables /\ m = [o EXCEPT !.pwm = m.pwm] /\ (o.auto => m.pwm = FullBrake)
    BY <1>1, <1>4 DEF DriveBrake, BrakeVariables
  <1> HIDE DEF m, d
  <1>6. d \in BrakeVariables /\ d = [m EXCEPT !.position = d.position]
    BY <1>2, <1>5 DEF ReadPosition, BrakeVariables, BrakeInputs
  <1>7. /\ m.latched = e.latched /\ m.auto = e.auto /\ m.latch_counter = e.latch_counter
        /\ m.fault = e.fault /\ m.debounce = e.debounce
        /\ m.sending = e.sending /\ m.cutoff_counter = e.cutoff_counter /\ o.auto = e.auto
    BY <1>3, <1>4, <1>5 DEF BrakeVariables
  <1>8. /\ d.latched = m.latched /\ d.auto = m.auto /\ d.latch_counter = m.latch_counter
        /\ d.fault = m.fault /\ d.debounce = m.debounce /\ d.pwm = m.pwm
        /\ d.sending = m.sending /\ d.cutoff_counter = m.cutoff_counter
    BY <1>5, <1>6 DEF BrakeVariables
  <1> QED BY <1>3, <1>5, <1>6, <1>7, <1>8 DEF BrakeDriven

\* The deviation is counted, and found after the debounce time until the
\* counter wraps around; k is the observed time then.
DeviationCounted(b, d, c, k) ==
    /\ c \in BrakeVariables
    /\ c = [d EXCEPT !.debounce = c.debounce]
    /\ k \in 0 .. BrakeDebounce
    /\ k < BrakeDebounce => c.debounce = k
    /\ NewFault(c) \in NewBrakeFaults \cup {"NO_FAULT"}
    /\ k = BrakeDebounce /\ NewFault(c) = "NO_FAULT" =>
         /\ c.debounce < BrakeDebounce
         /\ b.latched
         /\ b.latch_counter <= c.debounce

LEMMA DeviationIsCounted ==
  ASSUME NEW b \in BrakeVariables, NEW in \in BrakeInputs, NEW since, NEW off \in 0 .. BrakeDebounce,
         BrakeInv(b, since, off)
  PROVE  DeviationCounted(b, Driven(b, in), CountDeviation(Driven(b, in)), NextDeviating(b, in, off))
  <1> DEFINE d == Driven(b, in)
             c == CountDeviation(d)
             k == NextDeviating(b, in, off)
             count == (b.debounce + 1) % BrakeCounterMod
  <1> SUFFICES DeviationCounted(b, d, c, k)
    OBVIOUS
  <1>1. BrakeDriven(b, in, d)
    BY BrakeDrives
  <1>2. k = IF Oscillates(d) THEN off
            ELSE IF ~Deviates(d) THEN 0
            ELSE IF off < BrakeDebounce THEN off + 1 ELSE off
    BY DEF NextDeviating
  <1> HIDE DEF d, k
  <1>3. /\ b.debounce \in 0 .. BrakeCounterMod - 1
        /\ BrakeDebounce \in Nat \ {0} /\ BrakeCounterMod \in Nat \ {0}
        /\ BrakeDebounce < BrakeCounterMod
        /\ b.latch_counter \in Nat
    BY BrakeAssumption DEF BrakeVariables
  <1>4. /\ count \in 0 .. BrakeCounterMod - 1
        /\ count = IF b.debounce + 1 = BrakeCounterMod THEN 0 ELSE b.debounce + 1
    BY <1>3, NextModulo
  <1>5. d \in BrakeVariables /\ d.debounce = b.debounce
    BY <1>1 DEF BrakeDriven
  <1> HIDE DEF count
  <1>6. NewFault(c) \in NewBrakeFaults \cup {"NO_FAULT"}
    BY DEF NewFault, NewBrakeFaults
  <1>7. CASE Oscillates(d)
    <2>1. c = d /\ k = off /\ NewFault(c) # "NO_FAULT"
      BY <1>2, <1>7 DEF CountDeviation, NewFault
    <2>2. c = [d EXCEPT !.debounce = c.debounce]
      BY <1>5, <2>1 DEF BrakeVariables
    <2> HIDE DEF c
    <2> QED BY <1>3, <1>5, <1>6, <2>1, <2>2 DEF DeviationCounted, BrakeInv
  <1>8. CASE ~Oscillates(d) /\ ~Deviates(d)
    <2>1. c = [d EXCEPT !.debounce = 0] /\ k = 0
      BY <1>2, <1>8 DEF CountDeviation
    <2>2. 0 \in 0 .. BrakeCounterMod - 1
      BY <1>3
    <2> HIDE DEF c
    <2>3. c \in BrakeVariables /\ c.debounce = 0 /\ c = [d EXCEPT !.debounce = c.debounce]
      BY <1>5, <2>1, <2>2 DEF BrakeVariables
    <2> QED BY <1>3, <1>6, <2>1, <2>3 DEF DeviationCounted
  <1>9. CASE ~Oscillates(d) /\ Deviates(d)
    <2>1. c = [d EXCEPT !.debounce = count]
      BY <1>5, <1>9 DEF CountDeviation, count
    <2>2. k = IF off < BrakeDebounce THEN off + 1 ELSE off
      BY <1>2, <1>9
    <2> HIDE DEF c
    <2>3. c \in BrakeVariables /\ c.debounce = count /\ c = [d EXCEPT !.debounce = c.debounce]
      BY <1>4, <1>5, <2>1 DEF BrakeVariables
    <2>4. Deviates(c)
      BY <1>5, <1>9, <2>1 DEF Deviates, BrakeVariables
    <2>5. NewFault(c) = "NO_FAULT" => count < BrakeDebounce
      BY <1>3, <1>4, <2>3, <2>4 DEF NewFault
    <2>6. k \in 0 .. BrakeDebounce /\ (k < BrakeDebounce => count = k)
      BY <1>3, <1>4, <2>2 DEF BrakeInv
    <2>7. ASSUME k = BrakeDebounce, count < BrakeDebounce
          PROVE  b.latched /\ b.latch_counter <= count
      BY <1>3, <1>4, <2>2, <2>7 DEF BrakeInv
    <2> QED BY <1>6, <2>3, <2>5, <2>6, <2>7 DEF DeviationCounted
  <1> QED BY <1>7, <1>8, <1>9

\* What the latch does to the variables c.
BrakeLatched(c, l) ==
    /\ l \in BrakeVariables /\ l.debounce = c.debounce
    /\ NewFault(c) # "NO_FAULT" =>
         /\ l.latched /\ l.fault # "NO_FAULT" /\ l.latch_counter = 0 /\ l.auto = c.auto
         /\ l.pwm = FullBrake /\ l.sending
    /\ NewFault(c) = "NO_FAULT" =>
         /\ l.sending = c.sending /\ l.cutoff_counter = c.cutoff_counter
         /\ ~c.latched => ~l.latched /\ l.fault = "NO_FAULT" /\ l.pwm = c.pwm
         /\ c.latched /\ c.latch_counter + 1 < BrakeLatchClear =>
              /\ l.latched /\ l.fault # "NO_FAULT" /\ l.latch_counter = c.latch_counter + 1
              /\ l.pwm = FullBrake /\ l.auto = c.auto
         /\ c.latched /\ c.latch_counter + 1 >= BrakeLatchClear =>
              ~l.latched /\ l.fault = "NO_FAULT" /\ l.pwm = c.pwm

LEMMA BrakeLatches ==
  ASSUME NEW c \in BrakeVariables, NewFault(c) \in NewBrakeFaults \cup {"NO_FAULT"}
  PROVE  BrakeLatched(c, LatchBrakeFault(c))
  <1> DEFINE l == LatchBrakeFault(c)
  <1> SUFFICES BrakeLatched(c, l)
    OBVIOUS
  <1>1. /\ 0 \in 0 .. BrakeLatchClear - 1 /\ FullBrake \in 0 .. FullBrake
        /\ 0 \in 0 .. CutoffRepeat /\ BrakeLatchClear \in Nat
        /\ c.latch_counter \in 0 .. BrakeLatchClear - 1
    BY BrakeAssumption DEF BrakeVariables
  <1>2. CASE NewFault(c) # "NO_FAULT"
    <2> DEFINE counter == IF c.sending THEN c.cutoff_counter ELSE 0
    <2>1. counter \in 0 .. CutoffRepeat
      BY <1>1 DEF BrakeVariables
    <2>2. l = [c EXCEPT !.fault = NewFault(c), !.latched = TRUE, !.latch_counter = 0,
                        !.position = FullBrake, !.pwm = FullBrake, !.sending = TRUE,
                        !.cutoff_counter = counter]
      BY <1>2 DEF LatchBrakeFault
    <2> HIDE DEF l, counter
    <2>3. NewFault(c) \in BrakeFaults
      BY <1>2 DEF BrakeFaults
    <2> QED BY <1>1, <1>2, <2>1, <2>2, <2>3 DEF BrakeLatched, BrakeVariables
  <1>3. CASE NewFault(c) = "NO_FAULT" /\ ~c.latched
    <2>1. l = [c EXCEPT !.fault = "NO_FAULT"]
      BY <1>3 DEF LatchBrakeFault
    <2> HIDE DEF l
    <2> QED BY <1>3, <2>1 DEF BrakeLatched, BrakeVariables
  <1>4. CASE NewFault(c) = "NO_FAULT" /\ c.latched /\ c.latch_counter + 1 >= BrakeLatchClear
    <2>1. l = [c EXCEPT !.latched = FALSE, !.latch_counter = 0, !.auto = FALSE, !.fault = "NO_FAULT"]
      BY <1>4 DEF LatchBrakeFault
    <2>2. ~(c.latch_counter + 1 < BrakeLatchClear)
      BY <1>1, <1>4
    <2> HIDE DEF l
    <2> QED BY <1>1, <1>4, <2>1, <2>2 DEF BrakeLatched, BrakeVariables
  <1>5. CASE NewFault(c) = "NO_FAULT" /\ c.latched /\ c.latch_counter + 1 < BrakeLatchClear
    <2> DEFINE fault == IF c.fault = "NO_FAULT" THEN "LATCHED" ELSE c.fault
    <2>1. ~(c.latch_counter + 1 >= BrakeLatchClear)
          /\ c.latch_counter + 1 \in 0 .. BrakeLatchClear - 1
      BY <1>1, <1>5
    <2>2. fault \in BrakeFaults /\ fault # "NO_FAULT"
      BY DEF BrakeVariables, BrakeFaults, NewBrakeFaults
    <2>3. l = [c EXCEPT !.latch_counter = c.latch_counter + 1, !.position = FullBrake,
                        !.pwm = FullBrake, !.fault = fault]
      BY <1>5, <2>1 DEF LatchBrakeFault
    <2> HIDE DEF l, fault
    <2> QED BY <1>1, <1>5, <2>1, <2>2, <2>3 DEF BrakeLatched, BrakeVariables
  <1>6. c.latch_counter + 1 >= BrakeLatchClear \/ c.latch_counter + 1 < BrakeLatchClear
    BY <1>1
  <1> QED BY <1>2, <1>3, <1>4, <1>5, <1>6

CutoffSent(l, f) ==
    /\ f \in BrakeVariables
    /\ f = [l EXCEPT !.sending = f.sending, !.cutoff_counter = f.cutoff_counter]
    /\ f.sending => l.sending /\ l.cutoff_counter < CutoffRepeat
                     /\ f.cutoff_counter = l.cutoff_counter + 1

LEMMA SendCutoffKeeps ==
  ASSUME NEW l \in BrakeVariables
  PROVE  CutoffSent(l, SendCutoff(l))
  <1> DEFINE f == SendCutoff(l)
  <1> SUFFICES CutoffSent(l, f)
    OBVIOUS
  <1>1. l.cutoff_counter \in 0 .. CutoffRepeat /\ CutoffRepeat \in Nat
    BY BrakeAssumption DEF BrakeVariables
  <1>2. CASE ~l.sending
    <2>1. f = l
      BY <1>2 DEF SendCutoff
    <2> HIDE DEF f
    <2> QED BY <1>2, <2>1 DEF CutoffSent, BrakeVariables
  <1>3. CASE l.sending /\ l.cutoff_counter < CutoffRepeat
    <2>1. f = [l EXCEPT !.cutoff_counter = l.cutoff_counter + 1]
      BY <1>3 DEF SendCutoff
    <2>2. l.cutoff_counter + 1 \in 0 .. CutoffRepeat
      BY <1>1, <1>3
    <2> HIDE DEF f
    <2> QED BY <1>3, <2>1, <2>2 DEF CutoffSent, BrakeVariables
  <1>4. CASE l.sending /\ ~(l.cutoff_counter < CutoffRepeat)
    <2>1. f = [l EXCEPT !.sending = FALSE]
      BY <1>4 DEF SendCutoff
    <2> HIDE DEF f
    <2> QED BY <2>1 DEF CutoffSent, BrakeVariables
  <1> QED BY <1>2, <1>3, <1>4

\* One run of the brake keeps its invariant, and clears its latch only at the
\* end of the latch time.
BrakeRan(b, f, since, off) ==
    /\ f \in BrakeVariables
    /\ since \in 0 .. BrakeLatchClear
    /\ off \in 0 .. BrakeDebounce
    /\ BrakeInv(f, since, off)
    /\ b.latched /\ ~f.latched => b.latch_counter + 1 >= BrakeLatchClear
    /\ b.latched /\ f.latched => f.latch_counter <= b.latch_counter + 1
    /\ ~b.latched /\ f.latched => f.latch_counter <= 1

LEMMA BrakeRuns ==
  ASSUME NEW b \in BrakeVariables, NEW in \in BrakeInputs, NEW since \in 0 .. BrakeLatchClear,
         NEW off \in 0 .. BrakeDebounce, BrakeInv(b, since, off)
  PROVE  BrakeRan(b, Swc_Brake_MainFunction(b, in), NextSince(in, since), NextDeviating(b, in, off))
  <1> DEFINE d == Driven(b, in)
             c == CountDeviation(d)
             l == LatchBrakeFault(c)
             f == Swc_Brake_MainFunction(b, in)
             s == NextSince(in, since)
             k == NextDeviating(b, in, off)
  <1> SUFFICES BrakeRan(b, f, s, k)
    OBVIOUS
  <1>1. BrakeDriven(b, in, d)
    BY BrakeDrives
  <1>2. DeviationCounted(b, d, c, k)
    BY DeviationIsCounted
  <1>3. f = SendCutoff(l)
    BY DEF Swc_Brake_MainFunction
  <1>4. s = IF in.estop THEN 0 ELSE IF since < BrakeLatchClear THEN since + 1 ELSE since
    BY DEF NextSince
  <1> HIDE DEF d, k, s, f, c
  <1>5. BrakeLatched(c, l)
    BY <1>2, BrakeLatches DEF DeviationCounted
  <1> HIDE DEF l
  <1>6. CutoffSent(l, f)
    BY <1>3, <1>5, SendCutoffKeeps DEF BrakeLatched
  <1>7. /\ c.latched = d.latched /\ c.auto = d.auto /\ c.latch_counter = d.latch_counter
        /\ c.sending = d.sending /\ c.cutoff_counter = d.cutoff_counter /\ c.pwm = d.pwm
    BY <1>1, <1>2 DEF BrakeDriven, DeviationCounted, BrakeVariables
  <1>8. /\ f.latched = l.latched /\ f.auto = l.auto /\ f.latch_counter = l.latch_counter
        /\ f.fault = l.fault /\ f.pwm = l.pwm /\ f.debounce = l.debounce
    BY <1>5, <1>6 DEF BrakeLatched, CutoffSent, BrakeVariables
  <1>9. /\ b.latch_counter \in 0 .. BrakeLatchClear - 1 /\ c.debounce \in Nat
        /\ b.cutoff_counter \in Nat /\ l.cutoff_counter \in Nat /\ l.latch_counter \in Nat
        /\ BrakeLatchClear \in Nat /\ BrakeLatchClear > 1 /\ CutoffRepeat \in Nat
        /\ CutoffRepeat < BrakeLatchClear
        /\ BrakeDebounce \in Nat \ {0} /\ BrakeDebounce < BrakeLatchClear
        /\ in.estop \in BOOLEAN /\ b.latched \in BOOLEAN /\ b.auto \in BOOLEAN
    BY <1>2, <1>5, BrakeAssumption, FrontZoneAssumption
       DEF DeviationCounted, BrakeLatched, BrakeVariables, BrakeInputs
  <1>10. s \in 0 .. BrakeLatchClear
    BY <1>4, <1>9
  \* The conjuncts of the invariant.
  <1>11. f.latched <=> f.fault # "NO_FAULT"
    BY <1>5, <1>7, <1>8, <1>9, <1>1 DEF BrakeLatched, BrakeDriven
  <1>12. s + 1 < BrakeLatchClear => f.latched /\ f.auto /\ f.latch_counter <= s + 1
    <2> SUFFICES ASSUME s + 1 < BrakeLatchClear
                 PROVE  f.latched /\ f.auto /\ f.latch_counter <= s + 1
      OBVIOUS
    <2>1. c.latched /\ c.auto /\ c.latch_counter <= s
      BY <1>1, <1>4, <1>7, <1>9 DEF BrakeDriven, BrakeInv
    <2> QED BY <1>1, <1>5, <1>7, <1>8, <1>9, <1>10, <2>1 DEF BrakeLatched, BrakeDriven
  <1>13. s < BrakeLatchClear => f.pwm = FullBrake
    <2> SUFFICES ASSUME s < BrakeLatchClear
                 PROVE  f.pwm = FullBrake
      OBVIOUS
    <2>1. c.latched /\ c.auto /\ c.pwm = FullBrake
      BY <1>1, <1>4, <1>7, <1>9 DEF BrakeDriven, BrakeInv
    <2> QED BY <1>1, <1>5, <1>7, <1>8, <1>9, <2>1 DEF BrakeLatched, BrakeDriven
  <1>14. k < BrakeDebounce => f.debounce = k
    BY <1>2, <1>5, <1>8 DEF DeviationCounted, BrakeLatched
  <1>15. k = BrakeDebounce =>
           /\ f.latched /\ f.pwm = FullBrake
           /\ f.debounce >= BrakeDebounce => f.latch_counter = 0
           /\ f.debounce < BrakeDebounce => f.latch_counter <= f.debounce + 1
    <2> SUFFICES ASSUME k = BrakeDebounce
                 PROVE  /\ f.latched /\ f.pwm = FullBrake
                        /\ f.debounce >= BrakeDebounce => f.latch_counter = 0
                        /\ f.debounce < BrakeDebounce => f.latch_counter <= f.debounce + 1
      OBVIOUS
    <2>1. CASE NewFault(c) # "NO_FAULT"
      BY <1>5, <1>8, <1>9, <2>1 DEF BrakeLatched
    <2>2. CASE NewFault(c) = "NO_FAULT"
      <3>1. c.debounce < BrakeDebounce /\ b.latched /\ b.latch_counter <= c.debounce
        BY <1>2, <2>2 DEF DeviationCounted
      <3>4. c.latched
        BY <1>1, <1>7, <3>1 DEF BrakeDriven
      <3>5. c.latch_counter = 0 \/ c.latch_counter = b.latch_counter
        BY <1>1, <1>7 DEF BrakeDriven
      <3>2. c.latched /\ c.latch_counter \in Nat /\ c.latch_counter <= c.debounce
        BY <1>9, <3>1, <3>4, <3>5
      <3>3. c.latch_counter + 1 < BrakeLatchClear
        BY <1>9, <3>1, <3>2
      <3> QED BY <1>1, <1>5, <1>7, <1>8, <1>9, <2>2, <3>1, <3>2, <3>3
             DEF BrakeLatched, BrakeDriven
    <2> QED BY <2>1, <2>2
  <1>16. f.sending => f.latched /\ f.latch_counter + 1 <= f.cutoff_counter
    <2> SUFFICES ASSUME f.sending
                 PROVE  f.latched /\ f.latch_counter + 1 <= f.cutoff_counter
      OBVIOUS
    <2>1. l.sending /\ l.cutoff_counter < CutoffRepeat /\ f.cutoff_counter = l.cutoff_counter + 1
      BY <1>6 DEF CutoffSent
    <2>2. CASE NewFault(c) # "NO_FAULT"
      BY <1>5, <1>8, <1>9, <2>1, <2>2 DEF BrakeLatched
    <2>3. CASE NewFault(c) = "NO_FAULT"
      <3>1. b.sending /\ l.cutoff_counter = b.cutoff_counter
        BY <1>1, <1>5, <1>7, <2>1, <2>3 DEF BrakeLatched, BrakeDriven
      <3>2. c.latched /\ c.latch_counter + 1 <= b.cutoff_counter
        BY <1>1, <1>7, <1>9, <3>1 DEF BrakeDriven, BrakeInv
      <3>3. c.latch_counter + 1 < BrakeLatchClear /\ c.latch_counter \in Nat
        BY <1>1, <1>7, <1>9, <2>1, <3>1, <3>2 DEF BrakeDriven
      <3> QED BY <1>5, <1>8, <1>9, <2>1, <2>3, <3>1, <3>2, <3>3 DEF BrakeLatched
    <2> QED BY <2>2, <2>3
  <1>17. /\ b.latched /\ ~f.latched => b.latch_counter + 1 >= BrakeLatchClear
         /\ b.latched /\ f.latched => f.latch_counter <= b.latch_counter + 1
         /\ ~b.latched /\ f.latched => f.latch_counter <= 1
    <2>1. c.latch_counter \in 0 .. BrakeLatchClear - 1 /\ c.latch_counter <= b.latch_counter
      BY <1>1, <1>7, <1>9 DEF BrakeDriven
    <2>2. b.latched => c.latched
      BY <1>1, <1>7 DEF BrakeDriven
    <2>3. ~b.latched /\ c.latched => c.latch_counter = 0
      BY <1>1, <1>7 DEF BrakeDriven
    <2>4. CASE NewFault(c) # "NO_FAULT"
      BY <1>5, <1>8, <1>9, <2>4 DEF BrakeLatched
    <2>5. CASE NewFault(c) = "NO_FAULT" /\ ~c.latched
      BY <1>5, <1>8, <1>9, <2>2, <2>5 DEF BrakeLatched
    <2>6. CASE NewFault(c) = "NO_FAULT" /\ c.latched /\ c.latch_counter + 1 < BrakeLatchClear
      BY <1>5, <1>8, <1>9, <2>1, <2>3, <2>6 DEF BrakeLatched
    <2>7. CASE NewFault(c) = "NO_FAULT" /\ c.latched /\ c.latch_counter + 1 >= BrakeLatchClear
      BY <1>5, <1>8, <1>9, <2>1, <2>3, <2>7 DEF BrakeLatched
    <2> QED BY <1>9, <2>1, <2>4, <2>5, <2>6, <2>7
  <1>18. f \in BrakeVariables /\ k \in 0 .. BrakeDebounce
    BY <1>2, <1>6 DEF DeviationCounted, CutoffSent
  <1>19. BrakeInv(f, s, k)
    BY <1>11, <1>12, <1>13, <1>14, <1>15, <1>16 DEF BrakeInv
  <1> QED BY <1>10, <1>17, <1>18, <1>19 DEF BrakeRan

-----------------------------------------------------------------------------
(* The controller *)

\* A brake latch that was not reported yet is younger than the last cutoff
\* frame, and its cutoff is not suppressed.
Unreported ==
    brake.latched /\ ~reported =>
        /\ pc \in {"can_monitor", "transmit"} => grace = 0
        /\ pc \in {"receive", "steering", "brake"} => brake.latch_counter <= tx_cycle
        /\ pc \in {"safety", "can_monitor", "transmit"} => brake.latch_counter <= tx_cycle + 1

\* What the safety monitor leaves in the RTE until the next run of the brake.
FaultSignals ==
    /\ rte.steer_fault = steering.fault
    /\ rte.brake_fault = brake.fault
    /\ pc \in {"can_monitor", "transmit", "receive"} =>
         (rte.motor_cutoff <=> FaultsToCutOff /\ grace = 0)

\* The monitor latches as soon as its count is complete.
CountBelow == can_monitor.latched \/ can_monitor.err_count < ErrWarnCycles

IInv ==
    /\ TypeOK
    /\ SteeringInv(steering, implausible_for)
    /\ BrakeInv(brake, since_estop, deviating_for)
    /\ FaultSignals
    /\ CountBelow
    /\ Unreported

LEMMA ZeroValues ==
  \A pdu \in PDUs : Zero[pdu] \in PduValues[pdu] /\ Deadline[pdu] \in Nat \ {0}
  <1>1. 0 \in -(AngleMax + 1) .. AngleMax + 1 /\ 0 \in 0 .. FullBrake + 1
    BY SteeringAssumption, BrakeAssumption
  <1>2. {EstopDeadline, StateDeadline, CommandDeadline} \subseteq Nat \ {0}
    BY FrontZoneAssumption
  <1> SUFFICES ASSUME NEW pdu \in PDUs
               PROVE  Zero[pdu] \in PduValues[pdu] /\ Deadline[pdu] \in Nat \ {0}
    OBVIOUS
  <1>3. CASE pdu = "estop"
    BY <1>2, <1>3 DEF Zero, PduValues, Deadline
  <1>4. CASE pdu = "state"
    BY <1>2, <1>4 DEF Zero, PduValues, Deadline
  <1>5. CASE pdu = "steer"
    BY <1>1, <1>2, <1>5 DEF Zero, PduValues, Deadline
  <1>6. CASE pdu = "brake"
    BY <1>1, <1>2, <1>6 DEF Zero, PduValues, Deadline
  <1> QED BY <1>3, <1>4, <1>5, <1>6 DEF PDUs

LEMMA StartTypes ==
  /\ \A pdu \in PDUs : ComAtStart[pdu] \in [value : PduValues[pdu], age : 0 .. Deadline[pdu]]
  /\ DOMAIN ComAtStart = PDUs
  /\ RteAtStart \in [estop_active : BOOLEAN, vehicle_state : PduValues.state,
                     steer_cmd : PduValues.steer, brake_cmd : PduValues.brake,
                     steer_fault : SteeringFaults \cup {"NO_FAULT"},
                     brake_fault : BrakeFaults \cup {"NO_FAULT"}, motor_cutoff : BOOLEAN]
  /\ Swc_Steering_Init \in SteeringVariables /\ Swc_Brake_Init \in BrakeVariables
  /\ CanMonitorAtStart \in [err_count : 0 .. ErrWarnCycles, latched : BOOLEAN]
  /\ SteeringInv(Swc_Steering_Init, 0) /\ BrakeInv(Swc_Brake_Init, BrakeLatchClear, 0)
  <1>1. \A pdu \in PDUs : Zero[pdu] \in PduValues[pdu] /\ Deadline[pdu] \in Nat \ {0}
    BY ZeroValues
  <1>2. /\ \A pdu \in PDUs : ComAtStart[pdu] \in [value : PduValues[pdu], age : 0 .. Deadline[pdu]]
        /\ DOMAIN ComAtStart = PDUs
    BY <1>1 DEF ComAtStart, Com_Init
  <1>3. AngleMax * DegToTenths \in Nat
    BY SteeringAssumption
  <1>4. Swc_Steering_Init \in SteeringVariables
    BY <1>3, SteeringAssumption DEF Swc_Steering_Init, SteeringVariables, Angles
  <1>5. Swc_Brake_Init \in BrakeVariables
    BY BrakeAssumption DEF Swc_Brake_Init, BrakeVariables
  <1>6. SteeringInv(Swc_Steering_Init, 0) /\ BrakeInv(Swc_Brake_Init, BrakeLatchClear, 0)
    BY SteeringAssumption, BrakeAssumption DEF SteeringInv, BrakeInv, Swc_Steering_Init, Swc_Brake_Init
  <1>7. 0 \in 0 .. ErrWarnCycles /\ 0 \in -(AngleMax + 1) .. AngleMax + 1 /\ 0 \in 0 .. FullBrake + 1
    BY FrontZoneAssumption, SteeringAssumption, BrakeAssumption
  <1> QED BY <1>2, <1>4, <1>5, <1>6, <1>7 DEF CanMonitorAtStart, RteAtStart, PduValues

LEMMA StartCounters ==
  /\ PostInitGraceCycles \in 0 .. PostInitGraceCycles
  /\ TxStart \in 0 .. TxPeriod - 1
  /\ 0 \in 0 .. WatchdogCycles
  /\ BrakeLatchClear \in 0 .. BrakeLatchClear
  /\ 0 \in 0 .. BrakeDebounce
  /\ 0 \in 0 .. PlausDebounce
  /\ Disturbances \subseteq SUBSET {"steering", "brake", "state", "can"}
  BY FrontZoneAssumption, BrakeAssumption, SteeringAssumption

LEMMA Initially == Init => IInv
  <1> SUFFICES ASSUME Init PROVE IInv
    OBVIOUS
  <1>1. TypeOK
    BY StartTypes, StartCounters DEF Init, TypeOK
  <1>2. FaultSignals /\ Unreported
    BY DEF Init, FaultSignals, Unreported, FaultsToCutOff, RteAtStart, Swc_Steering_Init, Swc_Brake_Init
  <1>3. CountBelow
    BY FrontZoneAssumption DEF Init, CountBelow, CanMonitorAtStart
  <1> QED BY <1>1, <1>2, <1>3, StartTypes DEF Init, IInv

LEMMA ResetKeeps == IInv /\ Reset => IInv'
  <1> SUFFICES ASSUME IInv, Reset PROVE IInv'
    OBVIOUS
  <1>1. TypeOK'
    BY StartTypes, StartCounters DEF IInv, Reset, TypeOK
  <1>2. FaultSignals' /\ Unreported'
    BY DEF Reset, FaultSignals, Unreported, FaultsToCutOff, RteAtStart, Swc_Steering_Init, Swc_Brake_Init
  <1>3. CountBelow'
    BY FrontZoneAssumption DEF Reset, CountBelow, CanMonitorAtStart
  <1> QED BY <1>1, <1>2, <1>3, StartTypes DEF Reset, IInv

\* Deadline monitoring keeps a PDU's type.
LEMMA ComRxKeeps ==
  ASSUME NEW V, NEW deadline \in Nat, NEW zero \in V,
         NEW pdu \in [value : V, age : 0 .. deadline]
  PROVE  Com_MainFunction_Rx(pdu, deadline, zero) \in [value : V, age : 0 .. deadline]
  BY DEF Com_MainFunction_Rx

LEMMA ReceiveKeeps == IInv /\ Receive => IInv'
  <1> SUFFICES ASSUME IInv, Receive PROVE IInv'
    OBVIOUS
  <1>0. PICK got \in SUBSET UNION {Carries[d] : d \in disturbed} : \E frame \in Frames(got) :
          com' = [pdu \in PDUs |->
                    Com_MainFunction_Rx(IF pdu \in got THEN Com_RxIndication(com[pdu], frame[pdu])
                                        ELSE com[pdu],
                                        Deadline[pdu], Zero[pdu])]
    BY DEF Receive
  <1>1. PICK frame \in Frames(got) :
          com' = [pdu \in PDUs |->
                    Com_MainFunction_Rx(IF pdu \in got THEN Com_RxIndication(com[pdu], frame[pdu])
                                        ELSE com[pdu],
                                        Deadline[pdu], Zero[pdu])]
    BY <1>0
  <1>2. \A pdu \in PDUs : com'[pdu] \in [value : PduValues[pdu], age : 0 .. Deadline[pdu]]
    <2> SUFFICES ASSUME NEW pdu \in PDUs
                 PROVE  com'[pdu] \in [value : PduValues[pdu], age : 0 .. Deadline[pdu]]
      OBVIOUS
    <2>1. Zero[pdu] \in PduValues[pdu] /\ Deadline[pdu] \in Nat
      BY ZeroValues
    <2>2. frame[pdu] \in PduValues[pdu]
      <3>1. Zero[pdu] \in PduValues[pdu]
        BY ZeroValues
      <3>2. frame[pdu] \in IF pdu \in got THEN PduValues[pdu] ELSE {Zero[pdu]}
        BY DEF Frames, PDUs
      <3> QED BY <3>1, <3>2
    <2>3. com[pdu] \in [value : PduValues[pdu], age : 0 .. Deadline[pdu]]
      BY DEF IInv, TypeOK
    <2> DEFINE last == IF pdu \in got THEN Com_RxIndication(com[pdu], frame[pdu]) ELSE com[pdu]
    <2>4. last \in [value : PduValues[pdu], age : 0 .. Deadline[pdu]]
      BY <2>1, <2>2, <2>3 DEF Com_RxIndication
    <2>5. com'[pdu] = Com_MainFunction_Rx(last, Deadline[pdu], Zero[pdu])
      BY <1>1
    <2> HIDE DEF last
    <2> QED BY <2>1, <2>4, <2>5, ComRxKeeps
  <1>3. TypeOK'
    <2>1. /\ com'["estop"].value \in BOOLEAN /\ com'["state"].value \in PduValues.state
          /\ com'["steer"].value \in PduValues.steer /\ com'["brake"].value \in PduValues.brake
      BY <1>2 DEF PDUs, PduValues
    <2>2. rte' = [rte EXCEPT !.estop_active = com'["estop"].value,
                             !.vehicle_state = com'["state"].value,
                             !.steer_cmd = com'["steer"].value,
                             !.brake_cmd = com'["brake"].value]
      BY DEF Receive
    <2>3. rte' \in [estop_active : BOOLEAN, vehicle_state : PduValues.state,
                    steer_cmd : PduValues.steer, brake_cmd : PduValues.brake,
                    steer_fault : SteeringFaults \cup {"NO_FAULT"},
                    brake_fault : BrakeFaults \cup {"NO_FAULT"}, motor_cutoff : BOOLEAN]
      BY <2>1, <2>2 DEF IInv, TypeOK
    <2>4. DOMAIN com' = PDUs
      BY <1>1
    <2> QED BY <1>2, <2>3, <2>4 DEF IInv, TypeOK, Receive, observers
  <1>4. FaultSignals' /\ Unreported'
    BY DEF IInv, TypeOK, Receive, FaultSignals, Unreported, observers
  <1> QED BY <1>3, <1>4 DEF IInv, Receive, CountBelow, observers

LEMMA SteeringKeeps ==
  ASSUME IInv, Steering
  PROVE  /\ IInv'
         /\ SteeringRan(steering, steering', implausible_for')
  <1>1. PICK spi_ok \in BOOLEAN, actual \in -AngleMax .. AngleMax :
          LET in == [cmd |-> rte.steer_cmd, spi_ok |-> spi_ok, actual |-> actual]
          IN  /\ steering' = Swc_Steering_MainFunction(steering, in)
              /\ implausible_for' = NextImplausible(steering, in, implausible_for)
    BY DEF Steering, NextImplausible
  <1> DEFINE in == [cmd |-> rte.steer_cmd, spi_ok |-> spi_ok, actual |-> actual]
  <1>2. in \in SteeringInputs
    BY DEF IInv, TypeOK, SteeringInputs, PduValues
  <1>3. SteeringRan(steering, steering', implausible_for')
    BY <1>1, <1>2, SteeringRuns DEF IInv, TypeOK
  <1>4. TypeOK'
    BY <1>3 DEF IInv, TypeOK, Steering, SteeringRan, SteeringVariables
  <1>5. FaultSignals' /\ Unreported'
    BY DEF IInv, TypeOK, Steering, FaultSignals, Unreported
  <1> QED BY <1>3, <1>4, <1>5 DEF IInv, Steering, SteeringRan, CountBelow

LEMMA BrakeKeeps ==
  ASSUME IInv, Brake
  PROVE  /\ IInv'
         /\ BrakeRan(brake, brake', since_estop', deviating_for')
  <1>1. PICK pos_ok \in BOOLEAN, position \in 0 .. FullBrake :
          LET in == [cmd |-> rte.brake_cmd, estop |-> rte.estop_active,
                     pos_ok |-> pos_ok, position |-> position]
          IN  /\ brake' = Swc_Brake_MainFunction(brake, in)
              /\ deviating_for' = NextDeviating(brake, in, deviating_for)
              /\ since_estop' = NextSince(in, since_estop)
    BY DEF Brake, NextDeviating, NextSince
  <1> DEFINE in == [cmd |-> rte.brake_cmd, estop |-> rte.estop_active,
                    pos_ok |-> pos_ok, position |-> position]
  <1>2. in \in BrakeInputs
    BY DEF IInv, TypeOK, BrakeInputs, PduValues
  <1>3. BrakeRan(brake, brake', since_estop', deviating_for')
    BY <1>1, <1>2, BrakeRuns DEF IInv, TypeOK
  <1>4. TypeOK'
    <2>1. brake'.fault \in BrakeFaults \cup {"NO_FAULT"} /\ brake'.latched \in BOOLEAN
          /\ brake'.sending \in BOOLEAN
      BY <1>3 DEF BrakeRan, BrakeVariables
    <2> QED BY <1>3, <2>1 DEF IInv, TypeOK, Brake, BrakeRan
  <1>5. FaultSignals'
    BY DEF IInv, TypeOK, Brake, FaultSignals
  <1>6. Unreported'
    <2> SUFFICES ASSUME brake'.latched, ~reported'
                 PROVE  brake'.latch_counter <= tx_cycle + 1
      BY DEF Brake, Unreported
    <2>1. brake.latched => ~reported
      BY DEF Brake
    <2>2. /\ brake.latch_counter \in Nat /\ brake'.latch_counter \in Nat /\ tx_cycle \in Nat
      BY <1>3, BrakeAssumption, FrontZoneAssumption DEF IInv, TypeOK, BrakeRan, BrakeVariables
    <2>3. CASE brake.latched
      <3>1. brake.latch_counter <= tx_cycle
        BY <2>1, <2>3 DEF IInv, Unreported, Brake
      <3> QED BY <1>3, <2>2, <2>3, <3>1 DEF BrakeRan
    <2>4. CASE ~brake.latched
      BY <1>3, <2>2, <2>4 DEF BrakeRan
    <2> QED BY <2>3, <2>4
  <1> QED BY <1>3, <1>4, <1>5, <1>6 DEF IInv, Brake, BrakeRan, CountBelow

LEMMA SafetyKeeps == IInv /\ Safety => IInv'
  <1> SUFFICES ASSUME IInv, Safety PROVE IInv'
    OBVIOUS
  <1>0. PostInitGraceCycles \in Nat /\ WatchdogCycles \in Nat
    BY FrontZoneAssumption
  <1>4. grace' \in 0 .. PostInitGraceCycles
    BY <1>0 DEF IInv, TypeOK, Safety
  <1>5. unfed' \in 0 .. WatchdogCycles
    BY <1>0 DEF IInv, TypeOK, Safety
  <1>6. rte' = [rte EXCEPT !.motor_cutoff = FaultsToCutOff /\ grace' = 0]
        /\ (FaultsToCutOff /\ grace' = 0) \in BOOLEAN
    BY DEF Safety, FaultsToCutOff
  <1>7. reported' \in BOOLEAN
    BY DEF IInv, TypeOK, Safety
  <1>1. TypeOK'
    BY <1>4, <1>5, <1>6, <1>7 DEF IInv, TypeOK, Safety
  <1>2. FaultSignals'
    BY DEF IInv, TypeOK, Safety, FaultSignals, FaultsToCutOff
  <1>3. Unreported'
    <2> SUFFICES ASSUME brake.latched, ~reported'
                 PROVE  grace' = 0 /\ brake.latch_counter <= tx_cycle + 1
      BY DEF Safety, Unreported
    <2>1. ~reported /\ ~(grace' > 0)
      BY DEF Safety
    <2>2. grace' = 0
      BY <1>0, <1>4, <2>1
    <2> QED BY <2>1, <2>2 DEF IInv, Unreported, Safety
  <1> QED BY <1>1, <1>2, <1>3 DEF IInv, Safety, CountBelow

LEMMA CanMonitorKeeps == IInv /\ CanMonitor => IInv'
  <1> SUFFICES ASSUME IInv, CanMonitor PROVE IInv'
    OBVIOUS
  <1>1. can_monitor' \in [err_count : 0 .. ErrWarnCycles, latched : BOOLEAN]
    <2>1. can_monitor \in [err_count : 0 .. ErrWarnCycles, latched : BOOLEAN]
      BY DEF IInv, TypeOK
    <2>2. ErrWarnCycles \in Nat \ {0}
      BY FrontZoneAssumption
    <2>3. PICK count \in {can_monitor.err_count + 1, 0} :
            can_monitor' = IF can_monitor.latched THEN can_monitor
                           ELSE [err_count |-> count, latched |-> count >= ErrWarnCycles]
      BY DEF CanMonitor
    <2>4. can_monitor.latched \/ can_monitor.err_count < ErrWarnCycles
      BY DEF IInv, CountBelow
    <2>5. count \in 0 .. ErrWarnCycles \/ can_monitor.latched
      BY <2>1, <2>2, <2>3, <2>4
    <2>6. (count >= ErrWarnCycles) \in BOOLEAN
      OBVIOUS
    <2> QED BY <2>1, <2>3, <2>5, <2>6
  <1>2. rte' = [rte EXCEPT !.brake_cmd = FullBrake, !.steer_cmd = 0] \/ rte' = rte
    BY DEF CanMonitor
  <1>3. TypeOK'
    <2>1. FullBrake \in PduValues.brake /\ 0 \in PduValues.steer
      BY BrakeAssumption, SteeringAssumption DEF PduValues
    <2> QED BY <1>1, <1>2, <2>1 DEF IInv, TypeOK, CanMonitor, observers
  <1>4. FaultSignals'
    BY <1>2 DEF IInv, TypeOK, CanMonitor, FaultSignals, FaultsToCutOff, observers
  <1>5. Unreported'
    BY DEF IInv, CanMonitor, Unreported, observers
  <1>6. CountBelow'
    <2>1. PICK count \in {can_monitor.err_count + 1, 0} :
            can_monitor' = IF can_monitor.latched THEN can_monitor
                           ELSE [err_count |-> count, latched |-> count >= ErrWarnCycles]
      BY DEF CanMonitor
    <2>2. CASE can_monitor.latched
      BY <2>1, <2>2 DEF CountBelow
    <2>3. CASE ~can_monitor.latched
      <3>1. can_monitor'.err_count = count /\ can_monitor'.latched = (count >= ErrWarnCycles)
        BY <2>1, <2>3
      <3>2. count \in Int /\ ErrWarnCycles \in Int
        BY FrontZoneAssumption DEF IInv, TypeOK
      <3>3. CASE count >= ErrWarnCycles
        BY <3>1, <3>3 DEF CountBelow
      <3>4. CASE count < ErrWarnCycles
        BY <3>1, <3>4 DEF CountBelow
      <3> QED BY <3>2, <3>3, <3>4
    <2> QED BY <2>2, <2>3
  <1> QED BY <1>3, <1>4, <1>5, <1>6 DEF IInv, CanMonitor, observers

LEMMA TransmitKeeps == IInv /\ Transmit => IInv'
  <1> SUFFICES ASSUME IInv, Transmit PROVE IInv'
    OBVIOUS
  <1>1. /\ tx_cycle' \in 0 .. TxPeriod - 1
        /\ tx_cycle' = IF tx_cycle + 1 = TxPeriod THEN 0 ELSE tx_cycle + 1
    BY NextModulo, FrontZoneAssumption DEF IInv, TypeOK, Transmit
  <1>2. TypeOK'
    BY <1>1 DEF IInv, TypeOK, Transmit
  <1>3. FaultSignals'
    BY DEF IInv, TypeOK, Transmit, FaultSignals, FaultsToCutOff
  <1>4. Unreported'
    <2> SUFFICES ASSUME brake.latched, ~reported'
                 PROVE  brake.latch_counter <= tx_cycle'
      BY DEF Transmit, Unreported
    <2>1. ~reported /\ ~(tx_cycle' = 0 /\ rte.motor_cutoff)
      BY DEF Transmit
    <2>2. grace = 0 /\ brake.latch_counter <= tx_cycle + 1
      BY <2>1 DEF IInv, Unreported, Transmit
    <2>3. rte.motor_cutoff
      BY <2>2 DEF IInv, BrakeInv, FaultSignals, FaultsToCutOff, Transmit
    <2> QED BY <1>1, <2>1, <2>2, <2>3
  <1> QED BY <1>2, <1>3, <1>4 DEF IInv, Transmit, CountBelow

LEMMA StutterKeeps == IInv /\ UNCHANGED vars => IInv'
  BY DEF IInv, TypeOK, SteeringInv, BrakeInv, FaultSignals, FaultsToCutOff, Unreported, CountBelow, vars, observers

LEMMA NextKeeps == IInv /\ [Next]_vars => IInv'
  BY ResetKeeps, ReceiveKeeps, SteeringKeeps, BrakeKeeps, SafetyKeeps, CanMonitorKeeps,
     TransmitKeeps, StutterKeeps DEF Next, Cycle

THEOREM Invariance == Spec => []IInv
  BY Initially, NextKeeps, PTL DEF Spec

-----------------------------------------------------------------------------
(* The properties of the run front_zone *)

\* Counters and signals stay within their types.
THEOREM TypesHold == Spec => []TypeOK
  <1>1. IInv => TypeOK
    BY DEF IInv
  <1> QED BY <1>1, Invariance, PTL

\* An E-stop holds the brake for the latch time.
THEOREM EstopHolds == Spec => []EstopHoldsBrake
  <1>1. IInv => EstopHoldsBrake
    BY DEF IInv, BrakeInv, EstopHoldsBrake
  <1> QED BY <1>1, Invariance, PTL

\* A brake off its command is found in time and held, for every width of the
\* counter above the debounce time, and every latch time above it.
THEOREM DeviationHeld == Spec => []DeviationKeepsBraking
  <1>1. IInv => DeviationKeepsBraking
    BY DEF IInv, BrakeInv, DeviationKeepsBraking
  <1> QED BY <1>1, Invariance, PTL

\* The same for the steering.
THEOREM ImplausibleHeld == Spec => []ImplausibleKeepsNeutral
  <1>1. IInv => ImplausibleKeepsNeutral
    BY DEF IInv, SteeringInv, ImplausibleKeepsNeutral
  <1> QED BY <1>1, Invariance, PTL

\* The safety monitor does not withdraw a cutoff sequence.
THEOREM SequenceKept == Spec => []CutoffNotWithdrawn
  <1>1. IInv => CutoffNotWithdrawn
    BY DEF IInv, BrakeInv, FaultSignals, FaultsToCutOff, CutoffNotWithdrawn
  <1> QED BY <1>1, Invariance, PTL

\* A latch is reported before it is cleared, whenever frames are at least as
\* frequent as latches are long.
THEOREM LatchReported == Spec => CutoffReported
  <1>1. IInv /\ [Next]_vars =>
          [pc = "brake" /\ pc' = "safety" /\ brake.latched /\ ~brake'.latched => reported]_vars
    <2> SUFFICES ASSUME IInv, Next, pc = "brake", pc' = "safety", brake.latched, ~brake'.latched,
                        ~reported
                 PROVE  FALSE
      BY DEF vars
    <2>1. Brake
      BY DEF Next, Cycle, Receive, Steering, Safety, CanMonitor, Transmit, Reset
    <2>2. brake.latch_counter + 1 >= BrakeLatchClear
      BY <2>1, BrakeKeeps DEF BrakeRan
    <2>3. brake.latch_counter <= tx_cycle
      BY DEF IInv, Unreported
    <2>4. brake.latch_counter \in Nat /\ tx_cycle \in 0 .. TxPeriod - 1
      BY BrakeAssumption DEF IInv, TypeOK, BrakeVariables
    <2> QED BY <2>2, <2>3, <2>4, FrontZoneAssumption, BrakeAssumption
  <1> QED BY <1>1, Invariance, PTL DEF Spec, CutoffReported

\* After a steering fault the output stays at the centre.
THEOREM NeutralHeld == Spec => NeutralUntilReset
  <1>1. IInv /\ [Next]_vars =>
          [pc = "steering" /\ pc' = "brake" /\ steering.disable_level > 0
             => steering'.pwm = 0 /\ steering'.disable_level > 0]_vars
    <2> SUFFICES ASSUME IInv, Next, pc = "steering", pc' = "brake", steering.disable_level > 0
                 PROVE  steering'.pwm = 0 /\ steering'.disable_level > 0
      BY DEF vars
    <2>1. Steering
      BY DEF Next, Cycle, Receive, Brake, Safety, CanMonitor, Transmit, Reset
    <2> QED BY <2>1, SteeringKeeps DEF SteeringRan
  <1> QED BY <1>1, Invariance, PTL DEF Spec, NeutralUntilReset

\* The rate limit holds for the distance from the centre, through faults and
\* resets.
THEOREM RateLimited == Spec => MagnitudeRateLimited
  <1>1. IInv /\ [Next]_vars => [Magnitude(steering'.pwm) <= Magnitude(steering.pwm) + RateLimit]_vars
    <2> SUFFICES ASSUME IInv, Next
                 PROVE  Magnitude(steering'.pwm) <= Magnitude(steering.pwm) + RateLimit
      BY DEF vars
    <2>1. steering.pwm \in Int /\ RateLimit \in Nat
      BY SteeringAssumption DEF IInv, TypeOK, SteeringVariables, Angles
    <2>2. CASE Steering
      BY <2>2, SteeringKeeps DEF SteeringRan
    <2>3. CASE Reset
      BY <2>1, <2>3 DEF Reset, Swc_Steering_Init, Magnitude
    <2>4. CASE steering' = steering
      BY <2>1, <2>4 DEF Magnitude
    <2> QED BY <2>2, <2>3, <2>4 DEF Next, Cycle, Receive, Brake, Safety, CanMonitor, Transmit
  <1> QED BY <1>1, Invariance, PTL DEF Spec, MagnitudeRateLimited
=============================================================================
