------------------------- MODULE HeartbeatLink_proofs -------------------------
(***************************************************************************)
(* Proofs about HeartbeatLink, for every period, timeout, skew and number  *)
(* of faults.                                                              *)
(***************************************************************************)
EXTENDS HeartbeatLink, ScLemmas

-----------------------------------------------------------------------------
(* Types, and what ties the supervision record to the observed silence *)

\* The timer of the supervision never runs ahead of the silence it measures.
TypeInv == TypeOK /\ HbInv(hb) /\ hb.counter <= quiet

\* A frame that the sender has put into the mailbox lies there for less than
\* one tick of the controller.
FreshMailbox == mailbox # NoFrame => ticks = 0

\* While no frame is lost and the sender is not reset, the mailbox holds the
\* frame that the E2E check expects next, or the check is level with the sender.
Sequence ==
    faults.losses = 0 /\ faults.restarts = 0 =>
        /\ up /\ e2e.fail_count = 0 /\ e2e.failed = FALSE
        /\ mailbox = NoFrame => e2e.first_rx \/ e2e.last_alive = Counter
        /\ mailbox # NoFrame =>
             /\ mailbox = HeartbeatFrame(Counter)
             /\ e2e.first_rx \/ Counter = NextAlive(e2e.last_alive)

\* Without any fault the timer counts at most the ticks of the current period,
\* once the frame of the period has been read.
Punctual ==
    NoFaults =>
        /\ ~bus_off /\ ~hb.timed_out /\ ~killed
        /\ mailbox = NoFrame => hb.counter <= ticks

IInv == TypeInv /\ FreshMailbox /\ Sequence /\ Punctual

-----------------------------------------------------------------------------
(* The controller's tick *)

\* What one tick does to the supervision of the ECU and to the silence it
\* measures: a valid frame restarts both, and they advance together.
LEMMA ScTickSupervises ==
  ASSUME TypeInv, ScTick
  PROVE  /\ HbInv(hb') /\ hb'.counter <= quiet' /\ quiet' \in 0 .. QuietMax
         /\ ~hb.confirmed /\ hb'.confirmed => hb'.counter >= HbTimeoutTicks
  <1> DEFINE h     == IF FrameValid THEN SC_Heartbeat_NotifyRx(hb) ELSE hb
             since == IF FrameValid THEN 0 ELSE quiet
  <1>1. /\ HbInv(h) /\ h.confirmed = hb.confirmed
        /\ h.counter <= since /\ since \in 0 .. QuietMax
    <2>1. CASE FrameValid
      BY <2>1, NotifyRxInv, HbAssumption DEF TypeInv, QuietMax
    <2>2. CASE ~FrameValid
      BY <2>2 DEF TypeInv, TypeOK
    <2> QED BY <2>1, <2>2
  <1>2. /\ hb' = AfterMonitor(h)
        /\ quiet' = IF hb_startup_grace > 0 THEN since ELSE CountUpTo(QuietMax, since)
    BY DEF ScTick
  <1> HIDE DEF h, since
  <1>3. CASE hb_startup_grace > 0
    BY <1>1, <1>2, <1>3 DEF AfterMonitor
  <1>4. CASE ~(hb_startup_grace > 0)
    <2>1. hb' = SC_Heartbeat_Monitor(h) /\ quiet' = CountUpTo(QuietMax, since)
      BY <1>2, <1>4 DEF AfterMonitor
    <2>2. /\ HbInv(hb') /\ hb'.counter \in {h.counter, h.counter + 1}
          /\ ~h.confirmed /\ hb'.confirmed => hb'.counter >= HbTimeoutTicks
      BY <1>1, <2>1, MonitorInv
    <2>3. hb'.counter \in 0 .. QuietMax /\ h.counter \in 0 .. QuietMax
      BY <1>1, <2>2 DEF HbInv, HbState, QuietMax
    <2>4. hb'.counter <= quiet' /\ quiet' \in 0 .. QuietMax
      BY <1>1, <2>1, <2>2, <2>3, HbAssumption DEF CountUpTo, QuietMax
    <2> QED BY <1>1, <2>2, <2>4
  <1> QED BY <1>3, <1>4

-----------------------------------------------------------------------------
(* Types *)

\* A frame of the sender is a frame, and no frame is not one.
LEMMA FrameShape ==
  ASSUME NEW a \in Alive
  PROVE  /\ HeartbeatFrame(a).check = "good" /\ HeartbeatFrame(a).alive = a
         /\ HeartbeatFrame(a) # NoFrame
  <1>1. HeartbeatFrame(a).check = "good" /\ HeartbeatFrame(a).alive = a
    BY DEF HeartbeatFrame
  <1>2. NoFrame.check = "none"
    BY DEF NoFrame
  <1>3. ASSUME HeartbeatFrame(a) = NoFrame PROVE FALSE
    <2>1. HeartbeatFrame(a).check = NoFrame.check
      BY <1>3
    <2> QED BY <1>1, <1>2, <2>1
  <1> QED BY <1>1, <1>3

\* The initial state is well typed.
LEMMA TypeInvInit == Init => TypeInv
  <1> SUFFICES ASSUME Init PROVE TypeInv
    OBVIOUS
  <1>1. SC_E2E_Init \in E2eState /\ HbInv(SC_Heartbeat_Init)
    BY E2eInitType, HbInitInv
  <1>2. SC_Heartbeat_Init.counter = 0
    BY DEF SC_Heartbeat_Init
  <1>3. hb \in HbState
    BY <1>1 DEF Init, HbInv
  <1>4. 0 \in Alive
    BY E2eAssumption DEF Alive
  <1>5. faults \in [losses : 0 .. MaxLosses, outages : 0 .. MaxOutages, restarts : 0 .. MaxRestarts]
    BY LinkAssumption DEF Init
  <1>6. /\ Hb_CycleCounter \in 0 .. HB_PERIOD_CYCLES - 1
        /\ ticks \in 0 .. HB_PERIOD_CYCLES + MaxSkew
        /\ hb_startup_grace \in 0 .. StartupGraceTicks /\ quiet \in 0 .. QuietMax
    BY LinkAssumption, HbAssumption DEF Init, QuietMax
  <1>7. TypeOK
    BY <1>1, <1>3, <1>4, <1>5, <1>6 DEF Init, TypeOK
  <1> QED BY <1>1, <1>2, <1>6, <1>7 DEF Init, TypeInv

\* Every step keeps the types, and keeps the timer behind the silence.
LEMMA TypeInvStep == TypeInv /\ [Next]_vars => TypeInv'
  <1> SUFFICES ASSUME TypeInv, [Next]_vars PROVE TypeInv'
    OBVIOUS
  <1> USE DEF TypeInv
  <1>1. CASE CountCycle
    BY <1>1, LinkAssumption DEF CountCycle, TypeOK, controllerVars
  <1>2. CASE SuppressHeartbeat
    BY <1>2, LinkAssumption DEF SuppressHeartbeat, PeriodEnds, TypeOK, controllerVars
  <1>3. CASE SendHeartbeat
    <2>1. Counter' \in Alive
      BY <1>3, NextAliveType DEF SendHeartbeat, TypeOK
    <2>2. mailbox' \in {NoFrame} \cup {HeartbeatFrame(a) : a \in Alive}
      BY <1>3, <2>1 DEF SendHeartbeat
    <2> QED BY <1>3, <2>1, <2>2, LinkAssumption DEF SendHeartbeat, PeriodEnds, TypeOK, controllerVars
  <1>4. CASE LoseHeartbeat
    <2>1. Counter' \in Alive
      BY <1>4, NextAliveType DEF LoseHeartbeat, TypeOK
    <2>2. faults' \in [losses : 0 .. MaxLosses, outages : 0 .. MaxOutages, restarts : 0 .. MaxRestarts]
      BY <1>4, LinkAssumption DEF LoseHeartbeat, TypeOK
    <2> QED BY <1>4, <2>1, <2>2, LinkAssumption DEF LoseHeartbeat, PeriodEnds, TypeOK, controllerVars
  <1>5. CASE BusOffStarts
    <2>1. faults' \in [losses : 0 .. MaxLosses, outages : 0 .. MaxOutages, restarts : 0 .. MaxRestarts]
      BY <1>5, LinkAssumption DEF BusOffStarts, TypeOK
    <2> QED BY <1>5, <2>1 DEF BusOffStarts, TypeOK, controllerVars
  <1>6. CASE BusOffEnds
    BY <1>6 DEF BusOffEnds, TypeOK, controllerVars
  <1>7. CASE SenderReset
    <2>1. faults' \in [losses : 0 .. MaxLosses, outages : 0 .. MaxOutages, restarts : 0 .. MaxRestarts]
      BY <1>7, LinkAssumption DEF SenderReset, TypeOK
    <2> QED BY <1>7, <2>1 DEF SenderReset, TypeOK, controllerVars
  <1>8. CASE Swc_Heartbeat_Init
    BY <1>8, LinkAssumption, E2eAssumption DEF Swc_Heartbeat_Init, TypeOK, Alive, controllerVars
  <1>9. CASE ScTick
    <2>1. HbInv(hb') /\ hb'.counter <= quiet' /\ quiet' \in 0 .. QuietMax
      BY <1>9, ScTickSupervises
    <2>2. hb' \in HbState
      BY <2>1 DEF HbInv
    <2>3. e2e' \in E2eState
      <3>1. CASE mailbox = NoFrame
        BY <1>9, <3>1 DEF ScTick, TypeOK
      <3>2. CASE mailbox # NoFrame
        <4>1. PICK a \in Alive : mailbox = HeartbeatFrame(a)
          BY <3>2 DEF TypeOK
        <4>2. mailbox.alive \in Alive
          BY <4>1, FrameShape
        <4> QED BY <1>9, <3>2, <4>2, E2eCheckType DEF ScTick, TypeOK
      <3> QED BY <3>1, <3>2
    <2>4. ticks' \in 0 .. HB_PERIOD_CYCLES + MaxSkew /\ hb_startup_grace' \in 0 .. StartupGraceTicks
      BY <1>9, LinkAssumption DEF ScTick, TypeOK
    <2>5. killed' \in BOOLEAN
      BY <1>9 DEF ScTick, TypeOK
    <2> QED BY <1>9, <2>1, <2>2, <2>3, <2>4, <2>5 DEF ScTick, TypeOK, senderVars
  <1>10. CASE UNCHANGED vars
    BY <1>10 DEF vars, senderVars, controllerVars, TypeOK
  <1> QED BY <1>1, <1>2, <1>3, <1>4, <1>5, <1>6, <1>7, <1>8, <1>9, <1>10 DEF Next, SenderCycle

\* The variables stay within their types, whatever the numbers.
THEOREM TypeCorrect == Spec => []TypeOK
  <1>1. TypeInv => TypeOK
    BY DEF TypeInv
  <1> QED BY TypeInvInit, TypeInvStep, <1>1, PTL DEF Spec

\* A timeout is confirmed only after the full timeout without a valid frame,
\* and the tick that confirms it sets the kill latch.
THEOREM KillOnlyAfterSilence == Spec => ConfirmedAfterSilence
  <1>1. TypeInv /\ [Next]_vars
          => [~hb.confirmed /\ hb'.confirmed => quiet' >= HbTimeoutTicks /\ killed']_vars
    <2> SUFFICES ASSUME TypeInv, Next, ~hb.confirmed, hb'.confirmed
                 PROVE  quiet' >= HbTimeoutTicks /\ killed'
      OBVIOUS
    <2>1. ScTick
      BY DEF Next, SenderCycle, CountCycle, SuppressHeartbeat, SendHeartbeat, LoseHeartbeat,
             BusOffStarts, BusOffEnds, SenderReset, Swc_Heartbeat_Init, controllerVars
    <2>2. HbInv(hb') /\ hb'.counter <= quiet' /\ quiet' \in 0 .. QuietMax
          /\ hb'.counter >= HbTimeoutTicks
      BY <2>1, ScTickSupervises
    <2>3. quiet' >= HbTimeoutTicks
      BY <2>2, HbAssumption DEF HbInv, HbState, QuietMax
    <2> QED BY <2>1, <2>3 DEF ScTick
  <1> QED BY TypeInvInit, TypeInvStep, <1>1, PTL DEF Spec, ConfirmedAfterSilence

-----------------------------------------------------------------------------
(* The alive sequence *)

\* The period cannot end before the controller has read the mailbox.
LEMMA MailboxReadInTime ==
  ASSUME TimingFits, TypeInv, FreshMailbox, PeriodEnds
  PROVE  mailbox = NoFrame
  <1>1. Hb_CycleCounter + 1 - ticks <= MaxSkew /\ Hb_CycleCounter + 1 >= HB_PERIOD_CYCLES
    BY DEF PeriodEnds
  <1>2. ticks # 0
    BY <1>1, LinkAssumption DEF TimingFits, TypeInv, TypeOK
  <1> QED BY <1>2 DEF FreshMailbox

\* What the E2E check makes of the frame it expects.
LEMMA ExpectedFrame ==
  ASSUME TypeInv, mailbox = HeartbeatFrame(Counter),
         e2e.first_rx \/ Counter = NextAlive(e2e.last_alive)
  PROVE  /\ FrameValid
         /\ SC_E2E_Check(e2e, mailbox).last_alive = Counter
         /\ SC_E2E_Check(e2e, mailbox).fail_count = 0
         /\ SC_E2E_Check(e2e, mailbox).failed = e2e.failed
  <1>1. mailbox.check = "good" /\ mailbox.alive = Counter /\ mailbox # NoFrame
    BY FrameShape DEF TypeInv, TypeOK
  <1>2. SC_E2E_Valid(e2e, mailbox)
    BY <1>1 DEF SC_E2E_Valid
  <1>3. e2e \in E2eState
    BY DEF TypeInv, TypeOK
  <1> QED BY <1>1, <1>2, <1>3, E2eCheckValid DEF FrameValid

LEMMA FreshMailboxStep == TypeInv /\ FreshMailbox /\ [Next]_vars => FreshMailbox'
  <1> SUFFICES ASSUME TypeInv, FreshMailbox, [Next]_vars PROVE FreshMailbox'
    OBVIOUS
  <1> USE DEF FreshMailbox
  <1>1. CASE SenderCycle
    BY <1>1 DEF SenderCycle, CountCycle, SuppressHeartbeat, SendHeartbeat, LoseHeartbeat,
                PeriodEnds, NoFrame
  <1>2. CASE BusOffStarts \/ BusOffEnds \/ SenderReset \/ Swc_Heartbeat_Init
    BY <1>2 DEF BusOffStarts, BusOffEnds, SenderReset, Swc_Heartbeat_Init, NoFrame
  <1>3. CASE ScTick
    BY <1>3 DEF ScTick, NoFrame
  <1>4. CASE UNCHANGED vars
    BY <1>4 DEF vars, NoFrame
  <1> QED BY <1>1, <1>2, <1>3, <1>4 DEF Next

\* Every step keeps the sender's alive numbers and the check in step.
LEMMA SequenceStep ==
  ASSUME TimingFits, TypeInv, FreshMailbox, Sequence, [Next]_vars
  PROVE  Sequence'
  <1> SUFFICES ASSUME faults'.losses = 0, faults'.restarts = 0
               PROVE  /\ up' /\ e2e'.fail_count = 0 /\ e2e'.failed = FALSE
                      /\ mailbox' = NoFrame => e2e'.first_rx \/ e2e'.last_alive = Counter'
                      /\ mailbox' # NoFrame =>
                           /\ mailbox' = HeartbeatFrame(Counter')
                           /\ e2e'.first_rx \/ Counter' = NextAlive(e2e'.last_alive)
    BY DEF Sequence, NoFrame, HeartbeatFrame, NextAlive
  <1>0. \A f \in [losses : 0 .. MaxLosses, outages : 0 .. MaxOutages, restarts : 0 .. MaxRestarts] :
            f.losses \in Nat /\ f.restarts \in Nat
    BY LinkAssumption
  <1> DEFINE Level == /\ up /\ e2e.fail_count = 0 /\ e2e.failed = FALSE
                      /\ mailbox = NoFrame => e2e.first_rx \/ e2e.last_alive = Counter
                      /\ mailbox # NoFrame =>
                           /\ mailbox = HeartbeatFrame(Counter)
                           /\ e2e.first_rx \/ Counter = NextAlive(e2e.last_alive)
  <1>1. CASE CountCycle \/ SuppressHeartbeat \/ BusOffEnds \/ UNCHANGED vars
    <2>1. UNCHANGED <<up, Counter, mailbox, e2e, faults>>
      BY <1>1 DEF CountCycle, SuppressHeartbeat, BusOffEnds, vars, senderVars, controllerVars
    <2> QED BY <2>1 DEF Sequence
  <1>2. CASE SendHeartbeat
    <2>1. mailbox = NoFrame
      BY <1>2, MailboxReadInTime DEF SendHeartbeat
    <2>2. Level
      BY <1>2 DEF Sequence, SendHeartbeat
    <2>3. /\ UNCHANGED <<up, e2e>> /\ Counter' = NextAlive(Counter)
          /\ mailbox' = HeartbeatFrame(Counter')
      BY <1>2 DEF SendHeartbeat, controllerVars
    <2>4. mailbox' # NoFrame
      BY <2>3, FrameShape, NextAliveType DEF TypeInv, TypeOK
    <2> QED BY <2>1, <2>2, <2>3, <2>4
  <1>3. CASE LoseHeartbeat
    <2>1. faults'.losses = faults.losses + 1 /\ faults.losses \in Nat
      BY <1>0, <1>3 DEF LoseHeartbeat, TypeInv, TypeOK
    <2> QED BY <2>1
  <1>4. CASE BusOffStarts
    <2>1. UNCHANGED <<up, Counter, mailbox, e2e>>
      BY <1>4 DEF BusOffStarts, controllerVars
    <2>2. faults.losses = 0 /\ faults.restarts = 0
      BY <1>4 DEF BusOffStarts, TypeInv, TypeOK
    <2> QED BY <2>1, <2>2 DEF Sequence
  <1>5. CASE SenderReset
    <2>1. faults'.restarts = faults.restarts + 1 /\ faults.restarts \in Nat
      BY <1>0, <1>5 DEF SenderReset, TypeInv, TypeOK
    <2> QED BY <2>1
  <1>6. CASE Swc_Heartbeat_Init
    BY <1>6 DEF Swc_Heartbeat_Init, Sequence
  <1>7. CASE ScTick
    <2>1. Level
      BY <1>7 DEF Sequence, ScTick
    <2>2. /\ mailbox' = NoFrame /\ UNCHANGED <<up, Counter>>
          /\ e2e' = IF mailbox = NoFrame THEN e2e ELSE SC_E2E_Check(e2e, mailbox)
      BY <1>7 DEF ScTick, senderVars
    <2>3. CASE mailbox = NoFrame
      BY <2>1, <2>2, <2>3
    <2>4. CASE mailbox # NoFrame
      <3>1. /\ e2e'.last_alive = Counter /\ e2e'.fail_count = 0 /\ e2e'.failed = e2e.failed
        BY <2>1, <2>2, <2>4, ExpectedFrame
      <3> QED BY <2>1, <2>2, <3>1
    <2> QED BY <2>3, <2>4
  <1> QED BY <1>1, <1>2, <1>3, <1>4, <1>5, <1>6, <1>7 DEF Next, SenderCycle

-----------------------------------------------------------------------------
(* The timing *)

\* Every step keeps a fault-free sender on time.
LEMMA PunctualStep ==
  ASSUME TimingFits, TypeInv, FreshMailbox, Sequence, Punctual, [Next]_vars
  PROVE  Punctual'
  <1> DEFINE OnTime == /\ ~bus_off /\ ~hb.timed_out /\ ~killed
                       /\ mailbox = NoFrame => hb.counter <= ticks
  <1> SUFFICES ASSUME NoFaults' PROVE OnTime'
    BY DEF Punctual
  <1>0. \A f \in [losses : 0 .. MaxLosses, outages : 0 .. MaxOutages, restarts : 0 .. MaxRestarts] :
            f.losses \in Nat /\ f.outages \in Nat /\ f.restarts \in Nat
    BY LinkAssumption
  <1>1. CASE CountCycle \/ UNCHANGED vars
    <2>1. UNCHANGED <<bus_off, mailbox, hb, killed, ticks, faults>>
      BY <1>1 DEF CountCycle, vars, senderVars, controllerVars
    <2> QED BY <2>1 DEF Punctual, NoFaults
  <1>2. CASE SuppressHeartbeat \/ BusOffEnds \/ Swc_Heartbeat_Init
    <2>1. UNCHANGED faults /\ (bus_off \/ ~up)
      BY <1>2 DEF SuppressHeartbeat, BusOffEnds, Swc_Heartbeat_Init
    <2> QED BY <2>1 DEF Punctual, Sequence, NoFaults
  <1>3. CASE SendHeartbeat
    <2>1. UNCHANGED <<bus_off, hb, killed, faults>> /\ mailbox' = HeartbeatFrame(Counter')
      BY <1>3 DEF SendHeartbeat, controllerVars
    <2>2. mailbox' # NoFrame
      BY <1>3, FrameShape, NextAliveType DEF SendHeartbeat, TypeInv, TypeOK
    <2> QED BY <2>1, <2>2 DEF Punctual, NoFaults
  <1>4. CASE LoseHeartbeat \/ BusOffStarts \/ SenderReset
    <2>1. \/ faults'.losses = faults.losses + 1
          \/ faults'.outages = faults.outages + 1
          \/ faults'.restarts = faults.restarts + 1
      BY <1>4 DEF LoseHeartbeat, BusOffStarts, SenderReset, TypeInv, TypeOK
    <2>2. faults.losses \in Nat /\ faults.outages \in Nat /\ faults.restarts \in Nat
      BY <1>0 DEF TypeInv, TypeOK
    <2> QED BY <2>1, <2>2 DEF NoFaults
  <1>5. CASE ScTick
    <2>1. NoFaults /\ OnTime
      BY <1>5 DEF ScTick, Punctual, NoFaults
    <2>2. up /\ e2e.failed = FALSE /\ e2e'.failed = FALSE /\ (mailbox # NoFrame => FrameValid)
      BY <1>5, <2>1, SequenceStep, ExpectedFrame DEF Sequence, NoFaults, ScTick
    <2>3. ticks' = ticks + 1 /\ ticks \in Nat /\ ticks + 1 < HbTimeoutTicks /\ mailbox' = NoFrame
      BY <1>5, <2>2, LinkAssumption, HbAssumption DEF ScTick, TimingFits, TypeInv, TypeOK
    <2> DEFINE h == IF FrameValid THEN SC_Heartbeat_NotifyRx(hb) ELSE hb
    <2>4. HbInv(h) /\ ~h.timed_out /\ h.counter <= ticks
      <3>1. CASE FrameValid
        BY <2>1, <2>3, <3>1, NotifyRxInv DEF TypeInv
      <3>2. CASE ~FrameValid
        BY <2>1, <2>2, <3>2 DEF TypeInv
      <3> QED BY <3>1, <3>2
    <2>5. hb' = AfterMonitor(h) /\ killed' = (killed \/ hb'.confirmed \/ e2e'.failed)
      BY <1>5 DEF ScTick
    <2>6. UNCHANGED bus_off
      BY <1>5 DEF ScTick, senderVars
    <2> HIDE DEF h
    <2>7. ~h.confirmed /\ h.counter \in Nat
      BY <2>4, HbAssumption DEF HbInv, HbState
    <2>8. ~hb'.timed_out /\ hb'.confirmed = h.confirmed /\ hb'.counter <= ticks'
      <3>1. CASE hb_startup_grace > 0
        BY <2>3, <2>4, <2>5, <2>7, <3>1 DEF AfterMonitor
      <3>2. CASE ~(hb_startup_grace > 0)
        <4>1. hb' = SC_Heartbeat_Monitor(h)
          BY <2>5, <3>2 DEF AfterMonitor
        <4>2. h.counter + 1 < HbTimeoutTicks /\ h.counter + 1 <= ticks'
          BY <2>3, <2>4, <2>7, HbAssumption
        <4> QED BY <2>4, <2>7, <4>1, <4>2, MonitorInv
      <3> QED BY <3>1, <3>2
    <2> QED BY <2>1, <2>2, <2>5, <2>6, <2>7, <2>8
  <1> QED BY <1>1, <1>2, <1>3, <1>4, <1>5 DEF Next, SenderCycle

-----------------------------------------------------------------------------
(* The theorems on the link *)

LEMMA IInvInit == Init => IInv
  <1> SUFFICES ASSUME Init PROVE IInv
    OBVIOUS
  <1>1. hb.counter = 0 /\ ~hb.timed_out /\ e2e.fail_count = 0 /\ e2e.failed = FALSE /\ e2e.first_rx
    BY DEF Init, SC_Heartbeat_Init, SC_E2E_Init
  <1> QED BY <1>1, TypeInvInit DEF Init, IInv, FreshMailbox, Sequence, Punctual

LEMMA IInvStep == TimingFits /\ IInv /\ [Next]_vars => IInv'
  BY TypeInvStep, FreshMailboxStep, SequenceStep, PunctualStep DEF IInv

\* A sender that is never reset, never suppressed and loses nothing is never
\* timed out and never killed, however the clocks drift, as long as the skew of
\* one period fits between the period and the timeout.
THEOREM PunctualSenderIsNeverKilled ==
  ASSUME TimingFits
  PROVE  Spec => []NoFalseTrip
  <1>1. IInv => NoFalseTrip
    BY DEF IInv, Punctual, NoFalseTrip
  <1>2. IInv /\ [Next]_vars => IInv'
    BY IInvStep
  <1> QED BY IInvInit, <1>1, <1>2, PTL DEF Spec

\* Any number of bus-off episodes of any length leaves the alive sequence
\* unbroken: the E2E check never counts a failure.
THEOREM SuppressionKeepsSequence ==
  ASSUME TimingFits
  PROVE  Spec => []OutageKeepsSequence
  <1>1. IInv => OutageKeepsSequence
    BY DEF IInv, Sequence, OutageKeepsSequence
  <1>2. IInv /\ [Next]_vars => IInv'
    BY IInvStep
  <1> QED BY IInvInit, <1>1, <1>2, PTL DEF Spec
=============================================================================
